---------------------------- MODULE ResearchProofs ----------------------------
(* Proofs about Research: its type invariant, that there is one research     *)
(* agent at most, that a queued request leaves the queue only for its        *)
(* dispatch, that the synthesis waits for every model, and that the healers  *)
(* spare a live process, for any models and any number of requests, faults   *)
(* and races.                                                                *)
EXTENDS Research, FiniteSetTheorems, SequenceTheorems, WellFoundedInduction, TLAPS

(* The types, one part per group of variables.                               *)
Kinds == {"run", "rerun", "synthesize"}
Syntheses == {"synthesis"} \X Nat
ActionData == [queue : Seq(Items), target : {Nothing, Topic} \cup Syntheses]
SubEntry == [status : {"none", "launching", "active"} \cup Terminal, id : Nat]
SynthEntry == [status : {"none", "open"} \cup Terminal, id : Nat]

(* enqueue adds no second item of a kind, and every copy is one it made.     *)
OneOfAKind(queue) ==
    \A i, j \in DOMAIN queue : queue[i].kind = queue[j].kind => i = j
GoodData(data) == data \in ActionData /\ OneOfAKind(data.queue)

OursOK ==
    /\ GoodData(ra)
    /\ running \in BOOLEAN
    /\ working \in {"none", Claude, "synthesis"} \X Nat

EntriesOK ==
    /\ topic \in {"new", "active"} \cup Terminal
    /\ base \in BaseData
    /\ sub \in [ModelSet -> SubEntry] /\ \A m \in ModelSet : sub[m].id <= round
    /\ synth \in SynthEntry

ProcsOK ==
    /\ synths \in Nat
    /\ proc \in [ModelSet -> [Rounds -> Nat]]
    /\ \A m \in ModelSet, r \in Rounds : proc[m][r] <= r
    /\ pid \in [ModelSet -> {0} \cup Rounds]

CountsOK ==
    /\ round \in {0} \cup Rounds
    /\ requests \in 0..MaxRequests
    /\ faults \in 0..MaxFaults
    /\ holes \subseteq Holes
TurnsOK == races \in 0..MaxRaces /\ turn \in Callers \cup {Nobody}

(* The dispatcher is at a model while it is in its loop.                     *)
Loop == {"sub", "read", "write", "launch", "pid", "mark"}
Dispatching ==
    [at : Loop \cup {"idle", "execute", "fails", "end", "last", "synth"},
     todo : SUBSET ModelSet, e : Nat,
     put : {"none", "launching", "active", "failed"}, read : BaseData,
     failed : SUBSET (ModelSet \X Nat), ra : ActionData, agent : BOOLEAN]
DispOK ==
    /\ disp \in Dispatching /\ OneOfAKind(disp.ra.queue)
    /\ disp.e <= round
    /\ disp.at \in Loop => disp.todo # {} /\ round \in Rounds
    /\ disp.at = "execute" => disp.ra.target # Nothing
    /\ disp.at = "synth" => disp.ra.target \in Syntheses

(* What a thread comes to later is a drain or the saves of what it completes, *)
(* an entry before its model; everything else it does at once.               *)
Saves == {"save", "txn", "publish"}
Later == Saves \cup {"drain"}
Agenda(todo) ==
    /\ todo \in Seq(Steps)
    /\ \A i \in 2..Len(todo) :
          todo[i] \in Later /\ (todo[i] = "txn" => todo[i - 1] = "save")
Ending == Saves \cup {"healmark"}
HasSaves(todo) == \E i \in DOMAIN todo : todo[i] \in Ending
CallRecord ==
    [todo : Seq(Steps), m : ModelSet \cup {"none", "synthesis"}, e : Nat,
     as : {"none"} \cup Terminal, item : Items, base : BaseData, ra : ActionData]
GoodCall(r) ==
    /\ r \in CallRecord /\ OneOfAKind(r.ra.queue)
    /\ Agenda(r.todo)
    /\ HasSaves(r.todo) => r.as \in Terminal
    /\ r.todo # <<>> /\ Head(r.todo) = "launch" => r.ra.target \in Syntheses
CallsOK ==
    /\ DOMAIN call = Callers
    /\ \A c \in Callers : GoodCall(call[c])

StateOK == OursOK /\ EntriesOK /\ ProcsOK /\ CountsOK /\ DispOK /\ CallsOK
ResearchInv == StateOK /\ TurnsOK

(* What keeps a second agent from being launched.  A thread that takes up    *)
(* the queue does so alone and while nothing runs; so does the action agent  *)
(* when it takes up a target.  A dispatch launches Claude at most once, and  *)
(* until then it holds the running status.                                   *)
TakesUp(c) == \E step \in {"pop", "run", "rerun", "synthesize", "launch"} : At(c, step)
Works == {r \in Rounds : proc[Claude][r] # 0}
NoAgent == synths = 0 /\ Works = {}
OneAtMost ==
    \/ synths = 0 /\ \A r, s \in Works : r = s
    \/ synths = 1 /\ Works = {}

AgentRuns == OneAtMost /\ (~NoAgent => running)
DrainsAlone ==
    \A c \in Callers :
        TakesUp(c) => ~running /\ \A d \in Callers \ {c} : ~Draining(d)
ExecutesAlone ==
    disp.at = "execute" => ~running /\ \A c \in Callers : ~TakesUp(c)
HoldsRunning ==
    disp.at \notin {"idle", "execute"} /\ ~disp.agent => running /\ NoAgent

(* The models of a dispatch that it has still to launch.                     *)
ToLaunch ==
    IF disp.at \in {"execute", "synth"} THEN ModelSet
    ELSE IF disp.at \in {"sub", "launch", "pid"}
            \/ (disp.at \in {"read", "write"} /\ disp.put = "launching")
    THEN disp.todo
    ELSE IF disp.at \in {"read", "write", "mark"} THEN disp.todo \ {Next1} ELSE {}
LaunchesOnce == disp.agent => Claude \notin ToLaunch
CompletesLast == disp.at \in {"idle", "fails"} \/ Free(Agent)

AgentInv ==
    /\ LaunchesOnce /\ CompletesLast
    /\ "overlap" \in holes \/ (AgentRuns /\ DrainsAlone /\ ExecutesAlone /\ HoldsRunning)

(* ------------------------------ constants ------------------------------- *)

LEMMA Numbers ==
    /\ MaxRequests \in Nat \ {0} /\ MaxFaults \in Nat /\ MaxRaces \in Nat
    /\ Rounds \subseteq Nat \ {0} /\ Rounds = 1..(MaxRequests + MaxRaces)
  BY ResearchAssumption DEF ResearchAssumption, Rounds

LEMMA Names ==
    /\ Claude \in ModelSet /\ "synthesis" \notin ModelSet /\ "none" \notin ModelSet
    /\ Web \in Callers /\ Agent \in Callers /\ Cron \in Callers /\ Synth \in Callers
    /\ Web # Agent /\ Cron # Agent /\ Synth # Agent
    /\ \A m \in ModelSet, r \in Rounds : <<m, r>> \in Callers /\ <<m, r>> # Agent
    /\ Healers \subseteq Callers /\ Nobody \notin Callers
  <1>1. Claude \in ModelSet /\ "synthesis" \notin ModelSet /\ "none" \notin ModelSet
    BY ResearchAssumption DEF ResearchAssumption
  <1>2. \A m \in ModelSet, r \in Rounds :
           <<m, r>> \in Callers /\ <<m, r>> # Agent /\ <<m, r>> # Nobody
    BY Numbers DEF Callers, Agent, Nobody
  <1>3. /\ Web \in Callers /\ Agent \in Callers /\ Cron \in Callers /\ Synth \in Callers
        /\ Web # Agent /\ Cron # Agent /\ Synth # Agent /\ Healers \subseteq Callers
        /\ Nobody \notin {Web, Agent, Cron, Synth}
    BY DEF Callers, Healers, Web, Agent, Cron, Synth, Nobody
  <1>4. Nobody \notin ModelSet \X Rounds
    BY Numbers DEF Nobody
  <1>5. QED
    BY <1>1, <1>2, <1>3, <1>4 DEF Callers

LEMMA ModelsAre == \A m \in ModelSet : \E i \in DOMAIN Models : Models[i] = m
  BY DEF ModelSet, Range

LEMMA NewDataOK ==
    /\ NewBase \in BaseData
    /\ GoodData(NewAction)
    /\ NewAction.queue = <<>> /\ NewAction.target = Nothing
    /\ Item("run", {}) \in Items /\ Item("synthesize", {}) \in Items
  <1>1. NewBase \in BaseData
    BY DEF NewBase, BaseData
  <1>2. NewAction \in ActionData /\ NewAction.queue = <<>> /\ NewAction.target = Nothing
    BY EmptySeq DEF NewAction, ActionData
  <1>3. OneOfAKind(<<>>)
    BY DEF OneOfAKind
  <1>4. Item("run", {}) \in Items /\ Item("synthesize", {}) \in Items
    BY DEF Item, Items
  <1>5. QED
    BY <1>1, <1>2, <1>3, <1>4 DEF GoodData

LEMMA NoCallOK ==
    /\ GoodCall(NoCall) /\ NoCall.todo = <<>> /\ NoCall.ra = NewAction
    /\ NoCall.item = Item("run", {}) /\ NoCall.base = NewBase
  <1>1. NoCall \in CallRecord /\ NoCall.todo = <<>> /\ NoCall.ra = NewAction
        /\ NoCall.item = Item("run", {}) /\ NoCall.base = NewBase
    BY EmptySeq, NewDataOK DEF NoCall, CallRecord, GoodData
  <1>2. Agenda(<<>>) /\ ~HasSaves(<<>>)
    BY EmptySeq DEF Agenda, HasSaves
  <1>3. QED
    BY <1>1, <1>2, NewDataOK DEF GoodCall, GoodData

(* ------------------------------ sequences ------------------------------- *)

LEMMA TailOf ==
  ASSUME NEW t, Agenda(t), t # <<>>
  PROVE  /\ Tail(t) \in Seq(Steps) /\ \A i \in DOMAIN Tail(t) : Tail(t)[i] \in Later
         /\ Agenda(Tail(t))
         /\ HasSaves(Tail(t)) => HasSaves(t)
         /\ Tail(t) # <<>> =>
               Head(Tail(t)) \in Later /\ (Head(Tail(t)) = "txn" => Head(t) = "save")
         /\ HasSaves(Tail(t)) <=> Range(Tail(t)) \cap Saves # {}
  <1>1. t \in Seq(Steps) /\ Len(t) \in Nat /\ DOMAIN t = 1..Len(t)
    BY LenProperties DEF Agenda
  <1>2. /\ Tail(t) \in Seq(Steps) /\ Len(Tail(t)) = Len(t) - 1
        /\ \A i \in 1..Len(Tail(t)) : Tail(t)[i] = t[i + 1]
    BY <1>1, HeadTailProperties
  <1>3. Len(Tail(t)) \in Nat /\ DOMAIN Tail(t) = 1..Len(Tail(t))
    BY <1>2, LenProperties
  <1>4. \A i \in DOMAIN Tail(t) : Tail(t)[i] \in Later /\ i + 1 \in DOMAIN t
    BY <1>1, <1>2, <1>3 DEF Agenda
  <1>5. Tail(t) # <<>> =>
           Head(Tail(t)) \in Later /\ (Head(Tail(t)) = "txn" => Head(t) = "save")
    <2> SUFFICES ASSUME Tail(t) # <<>>
                 PROVE  Head(Tail(t)) \in Later /\ (Head(Tail(t)) = "txn" => Head(t) = "save")
      OBVIOUS
    <2>1. Len(Tail(t)) >= 1
      BY <1>2, <1>3, EmptySeq
    <2>2. Head(Tail(t)) = t[2] /\ 2 \in 2..Len(t) /\ Head(t) = t[2 - 1]
      BY <1>1, <1>2, <2>1
    <2>3. QED
      BY <2>2 DEF Agenda
  <1>6. Agenda(Tail(t))
    <2>1. ASSUME NEW i \in 2..Len(Tail(t))
          PROVE  /\ Tail(t)[i] \in Later
                 /\ Tail(t)[i] = "txn" => Tail(t)[i - 1] = "save"
      <3>1. /\ i + 1 \in 2..Len(t) /\ Tail(t)[i] = t[i + 1]
            /\ Tail(t)[i - 1] = t[(i + 1) - 1]
        BY <1>1, <1>2
      <3>2. QED
        BY <3>1 DEF Agenda
    <2>2. QED
      BY <1>2, <2>1 DEF Agenda
  <1>7. HasSaves(Tail(t)) => HasSaves(t)
    BY <1>2, <1>3, <1>4 DEF HasSaves
  <1>8. HasSaves(Tail(t)) <=> Range(Tail(t)) \cap Saves # {}
    BY <1>4 DEF HasSaves, Range, Ending, Later, Saves
  <1>9. QED
    BY <1>2, <1>4, <1>5, <1>6, <1>7, <1>8

LEMMA RestOf ==
  ASSUME NEW t, Agenda(t), t # <<>>, NEW more, Agenda(more),
         more # <<>> => Head(t) # "save"
  PROVE  /\ Agenda(more \o Tail(t))
         /\ HasSaves(more \o Tail(t)) => HasSaves(more) \/ HasSaves(Tail(t))
         /\ more # <<>> => more \o Tail(t) # <<>> /\ Head(more \o Tail(t)) = Head(more)
         /\ more = <<>> => more \o Tail(t) = Tail(t)
  <1> DEFINE u == Tail(t)
             s == more \o u
  <1>1. /\ u \in Seq(Steps) /\ \A i \in DOMAIN u : u[i] \in Later
        /\ Agenda(u)
        /\ u # <<>> /\ Head(u) = "txn" => Head(t) = "save"
    BY TailOf
  <1>2. Len(u) \in Nat /\ DOMAIN u = 1..Len(u) /\ (u # <<>> => Head(u) = u[1])
        /\ (Len(u) > 0 => u # <<>>)
    BY <1>1, LenProperties, EmptySeq
  <1>3. more \in Seq(Steps) /\ Len(more) \in Nat /\ DOMAIN more = 1..Len(more)
        /\ (Len(more) > 0 => more # <<>>)
    BY LenProperties, EmptySeq DEF Agenda
  <1> HIDE DEF u
  <1>4. /\ s \in Seq(Steps) /\ Len(s) = Len(more) + Len(u)
        /\ \A i \in 1..Len(more) + Len(u) : s[i] = IF i <= Len(more) THEN more[i] ELSE u[i - Len(more)]
    BY <1>1, <1>3, ConcatProperties
  <1>5. DOMAIN s = 1..(Len(more) + Len(u))
    BY <1>4, LenProperties
  <1> HIDE DEF s
  <1>6. \A i \in DOMAIN s : \/ i \in DOMAIN more /\ s[i] = more[i]
                            \/ i - Len(more) \in DOMAIN u /\ s[i] = u[i - Len(more)]
    BY <1>2, <1>3, <1>4, <1>5
  <1>7. Agenda(s)
    <2>1. ASSUME NEW i \in 2..Len(s)
          PROVE  s[i] \in Later /\ (s[i] = "txn" => s[i - 1] = "save")
      <3>1. CASE i <= Len(more)
        <4>1. i \in 2..Len(more) /\ s[i] = more[i] /\ s[i - 1] = more[i - 1]
          BY <1>2, <1>3, <1>4, <3>1
        <4>2. QED
          BY <4>1 DEF Agenda
      <3>2. CASE i = Len(more) + 1
        <4>1. Len(more) > 0 /\ Len(u) > 0 /\ s[i] = u[1] /\ 1 \in DOMAIN u
          BY <1>2, <1>3, <1>4, <3>2
        <4>2. u # <<>> /\ more # <<>> /\ u[1] \in Later /\ u[1] # "txn"
          BY <1>1, <1>2, <1>3, <4>1
        <4>3. QED
          BY <4>1, <4>2
      <3>3. CASE i > Len(more) + 1
        <4> DEFINE k == i - Len(more)
        <4>1. /\ k \in 2..Len(u) /\ i - 1 - Len(more) = k - 1
              /\ i \in 1..Len(more) + Len(u) /\ ~(i <= Len(more))
              /\ i - 1 \in 1..Len(more) + Len(u) /\ ~(i - 1 <= Len(more))
          BY <1>2, <1>3, <1>4, <3>3
        <4>2. s[i] = u[k]
          BY <1>4, <4>1
        <4>3. s[i - 1] = u[i - 1 - Len(more)]
          BY <1>4, <4>1
        <4>4. s[i - 1] = u[k - 1]
          BY <4>1, <4>3
        <4> HIDE DEF k
        <4>5. QED
          BY <1>1, <4>1, <4>2, <4>4 DEF Agenda
      <3>4. QED
        BY <1>3, <1>4, <3>1, <3>2, <3>3
    <2>2. QED
      BY <1>4, <2>1 DEF Agenda
  <1>8. HasSaves(s) => HasSaves(more) \/ HasSaves(u)
    BY <1>6 DEF HasSaves
  <1>9. more # <<>> => s # <<>> /\ Head(s) = Head(more)
    <2> SUFFICES ASSUME more # <<>> PROVE s # <<>> /\ Head(s) = Head(more)
      OBVIOUS
    <2>1. Len(more) >= 1
      BY <1>3, EmptySeq
    <2>2. Len(s) >= 1 /\ s[1] = more[1]
      BY <2>1, <1>2, <1>3, <1>4
    <2>3. s # <<>>
      BY <2>2, EmptySeq
    <2>4. QED
      BY <2>2, <2>3
  <1>10. more = <<>> => s = u
    BY <1>1, ConcatEmptySeq DEF s
  <1>11. QED
    BY <1>7, <1>8, <1>9, <1>10 DEF s, u

LEMMA Agendas ==
    /\ Agenda(<<>>) /\ ~HasSaves(<<>>)
    /\ \A step \in Steps : /\ Agenda(<<step>>) /\ Head(<<step>>) = step /\ <<step>> # <<>>
                           /\ HasSaves(<<step>>) => step \in Ending
    /\ Agenda(<<"enqueue", "drain">>) /\ Head(<<"enqueue", "drain">>) = "enqueue"
    /\ ~HasSaves(<<"enqueue", "drain">>) /\ <<"enqueue", "drain">> # <<>>
    /\ Agenda(<<"save", "txn">>) /\ Head(<<"save", "txn">>) = "save" /\ <<"save", "txn">> # <<>>
  <1>1. Agenda(<<>>) /\ ~HasSaves(<<>>)
    BY EmptySeq DEF Agenda, HasSaves
  <1>2. ASSUME NEW step \in Steps
        PROVE  /\ Agenda(<<step>>) /\ Head(<<step>>) = step /\ <<step>> # <<>>
               /\ HasSaves(<<step>>) => step \in Ending
    <2>1. <<step>> \in Seq(Steps) /\ Len(<<step>>) = 1 /\ <<step>>[1] = step
          /\ DOMAIN <<step>> = 1..1
      OBVIOUS
    <2>2. QED
      BY <2>1 DEF Agenda, HasSaves
  <1>3. ASSUME NEW a \in Steps, NEW b \in Later, b = "txn" => a = "save"
        PROVE  /\ Agenda(<<a, b>>) /\ Head(<<a, b>>) = a /\ <<a, b>> # <<>>
               /\ HasSaves(<<a, b>>) => a \in Ending \/ b \in Ending
    <2>1. b \in Steps
      BY DEF Later, Saves, Steps
    <2> DEFINE s == <<a, b>>
    <2>2. s \in Seq(Steps) /\ Len(s) = 2 /\ s[1] = a /\ s[2] = b /\ DOMAIN s = 1..2
      BY <2>1
    <2> HIDE DEF s
    <2>3. \A i \in 2..Len(s) : i = 2 /\ s[i] = b /\ s[i - 1] = a
      BY <2>2
    <2>4. Agenda(s)
      BY <1>3, <2>2, <2>3 DEF Agenda
    <2>5. s # <<>> /\ Head(s) = a /\ (HasSaves(s) => a \in Ending \/ b \in Ending)
      BY <2>2, EmptySeq DEF HasSaves
    <2>6. QED
      BY <2>4, <2>5 DEF s
  <1>4. {"enqueue", "drain", "save", "txn"} \subseteq Steps /\ {"drain", "txn"} \subseteq Later
        /\ "enqueue" \notin Ending /\ "drain" \notin Ending
    BY DEF Steps, Later, Saves, Ending
  <1>5. /\ Agenda(<<"enqueue", "drain">>) /\ Head(<<"enqueue", "drain">>) = "enqueue"
        /\ ~HasSaves(<<"enqueue", "drain">>) /\ <<"enqueue", "drain">> # <<>>
    BY <1>3, <1>4
  <1>6. Agenda(<<"save", "txn">>) /\ Head(<<"save", "txn">>) = "save" /\ <<"save", "txn">> # <<>>
    BY <1>3, <1>4
  <1>7. QED
    BY <1>1, <1>2, <1>5, <1>6

(* What agent_complete.py does after the agent.                              *)
LEMMA AfterAgentAgenda ==
  ASSUME NEW ok \in BOOLEAN
  PROVE  Agenda(AfterAgent(ok)) /\ AfterAgent(ok) # <<>> /\ Head(AfterAgent(ok)) = "drain"
  <1>1. Agenda(<<"drain">>) /\ <<"drain">> # <<>> /\ Head(<<"drain">>) = "drain"
    BY Agendas DEF Steps
  <1>2. ASSUME NEW b \in Later, NEW c \in Later, b # "txn", c = "txn" => b = "save"
        PROVE  Agenda(<<"drain", b, c>>) /\ <<"drain", b, c>> # <<>> /\ Head(<<"drain", b, c>>) = "drain"
    <2>1. "drain" \in Steps /\ b \in Steps /\ c \in Steps
      BY DEF Later, Saves, Steps
    <2> DEFINE s == <<"drain", b, c>>
    <2>2. s \in Seq(Steps) /\ Len(s) = 3 /\ s[1] = "drain" /\ s[2] = b /\ s[3] = c
      BY <2>1
    <2> HIDE DEF s
    <2>3. \A i \in 2..Len(s) : \/ i = 2 /\ s[i] = b
                               \/ i = 3 /\ s[i] = c /\ s[i - 1] = b
      BY <2>2
    <2>4. Agenda(s)
      BY <1>2, <2>2, <2>3 DEF Agenda
    <2>5. s # <<>> /\ Head(s) = "drain"
      BY <2>2, EmptySeq
    <2>6. QED
      BY <2>4, <2>5 DEF s
  <1>3. ASSUME NEW b \in Later, NEW c \in Later, NEW d \in Later,
               b # "txn", c = "txn" => b = "save", d # "txn"
        PROVE  /\ Agenda(<<"drain", b, c, d>>) /\ <<"drain", b, c, d>> # <<>>
               /\ Head(<<"drain", b, c, d>>) = "drain"
    <2>1. "drain" \in Steps /\ b \in Steps /\ c \in Steps /\ d \in Steps
      BY DEF Later, Saves, Steps
    <2> DEFINE s == <<"drain", b, c, d>>
    <2>2. s \in Seq(Steps) /\ Len(s) = 4 /\ s[1] = "drain" /\ s[2] = b /\ s[3] = c /\ s[4] = d
      BY <2>1
    <2> HIDE DEF s
    <2>3. \A i \in 2..Len(s) : \/ i = 2 /\ s[i] = b
                               \/ i = 3 /\ s[i] = c /\ s[i - 1] = b
                               \/ i = 4 /\ s[i] = d
      BY <2>2
    <2>4. Agenda(s)
      BY <1>3, <2>2, <2>3 DEF Agenda
    <2>5. s # <<>>
      BY <2>2, EmptySeq
    <2>6. Head(s) = s[1]
      BY <2>5
    <2>7. QED
      BY <2>2, <2>4, <2>5, <2>6 DEF s
  <1>4. {"save", "txn", "publish"} \subseteq Later
    BY DEF Later, Saves
  <1>5. QED
    BY <1>1, <1>2, <1>3, <1>4 DEF AfterAgent

(* ------------------------------- threads -------------------------------- *)

(* What a thread is about to do.                                             *)
Step(c) == IF Free(c) THEN "none" ELSE Head(call[c].todo)

LEMMA AtStep ==
  ASSUME NEW c
  PROVE  /\ \A step \in Steps : At(c, step) <=> Step(c) = step
         /\ Free(c) => Step(c) = "none"
         /\ (\E step \in Steps : At(c, step)) => ~Free(c)
  BY DEF At, Step, Free, Steps

LEMMA KeptOK ==
  ASSUME CallsOK, NEW c \in Callers, call[c].todo # <<>>
  PROVE  /\ Kept(c) \in CallRecord /\ Kept(c).ra = NewAction /\ Kept(c).todo = <<>>
         /\ HasSaves(Tail(call[c].todo)) => Kept(c).as \in Terminal
         /\ Kept(c).item \in Items /\ Kept(c).base \in BaseData
  <1>1. GoodCall(call[c])
    BY DEF CallsOK
  <1>2. PICK r \in CallRecord : call[c] = r /\ GoodCall(r)
    BY <1>1 DEF GoodCall
  <1>3. NoCall \in CallRecord /\ NoCall.ra = NewAction /\ NoCall.todo = <<>>
    BY NoCallOK DEF GoodCall
  <1> DEFINE k == [NoCall EXCEPT !.m = r.m, !.e = r.e, !.as = r.as]
  <1>4. k \in CallRecord /\ k.ra = NewAction /\ k.todo = <<>> /\ k.as = r.as
    BY <1>3 DEF CallRecord
  <1>5. HasSaves(Tail(r.todo)) <=> Range(Tail(r.todo)) \cap Saves # {}
    BY <1>2, TailOf DEF GoodCall
  <1>6. HasSaves(Tail(r.todo)) => r.as \in Terminal
    BY <1>2, TailOf DEF GoodCall
  <1>7. Kept(c) = IF HasSaves(Tail(r.todo)) THEN k ELSE NoCall
    BY <1>2, <1>5 DEF Kept, Saves
  <1> HIDE DEF k
  <1>8. Kept(c) \in CallRecord /\ Kept(c).ra = NewAction /\ Kept(c).todo = <<>>
        /\ (HasSaves(Tail(r.todo)) => Kept(c).as \in Terminal)
    BY <1>3, <1>4, <1>6, <1>7
  <1>9. Kept(c).item \in Items /\ Kept(c).base \in BaseData
    BY <1>8 DEF CallRecord
  <1>10. QED
    BY <1>2, <1>8, <1>9

(* Thread c goes from one call record to another; the others stay.           *)
LEMMA CallSet ==
  ASSUME CallsOK, NEW c \in Callers, NEW r, GoodCall(r), call' = [call EXCEPT ![c] = r]
  PROVE  /\ CallsOK' /\ call'[c] = r
         /\ \A d \in Callers \ {c} : call'[d] = call[d]
         /\ Step(c)' = IF r.todo = <<>> THEN "none" ELSE Head(r.todo)
         /\ \A d \in Callers \ {c} : Step(d)' = Step(d)
  <1>1. call'[c] = r /\ \A d \in Callers \ {c} : call'[d] = call[d]
    BY DEF CallsOK
  <1>2. CallsOK'
    BY <1>1 DEF CallsOK
  <1>3. Step(c)' = IF r.todo = <<>> THEN "none" ELSE Head(r.todo)
    BY <1>1 DEF Step, Free
  <1>4. \A d \in Callers \ {c} : Step(d)' = Step(d)
    BY <1>1 DEF Step, Free
  <1>5. QED
    BY <1>1, <1>2, <1>3, <1>4

(* A thread that does a step goes on with what more the step brings, or with *)
(* what it had still to do.                                                  *)
LEMMA DoOK ==
  ASSUME CallsOK, NEW c \in Callers, ~Free(c), NEW more, Agenda(more),
         NEW rec \in CallRecord, OneOfAKind(rec.ra.queue),
         HasSaves(more) \/ HasSaves(Tail(call[c].todo)) => rec.as \in Terminal,
         more # <<>> /\ Head(more) = "launch" => rec.ra.target \in Syntheses,
         more # <<>> => Step(c) # "save",
         Do(c, more, rec)
  PROVE  /\ CallsOK'
         /\ \A d \in Callers \ {c} : call'[d] = call[d] /\ Step(d)' = Step(d)
         /\ more # <<>> =>
               /\ Step(c)' = Head(more) /\ call'[c].ra = rec.ra
               /\ call'[c].item = rec.item /\ call'[c].base = rec.base
         /\ more = <<>> =>
               /\ Step(c)' \in Later \cup {"none"}
               /\ Step(c)' = "txn" => Step(c) = "save"
  <1> DEFINE t == call[c].todo
             u == more \o Tail(t)
             r == IF u = <<>> THEN NoCall ELSE [rec EXCEPT !.todo = u]
  <1>1. Agenda(t) /\ t # <<>> /\ Step(c) = Head(t)
    BY DEF CallsOK, GoodCall, Free, Step
  <1> HIDE DEF t
  <1>2. /\ Agenda(u)
        /\ HasSaves(u) => HasSaves(more) \/ HasSaves(Tail(t))
        /\ more # <<>> => u # <<>> /\ Head(u) = Head(more)
        /\ more = <<>> => u = Tail(t)
        /\ Tail(t) # <<>> =>
              Head(Tail(t)) \in Later /\ (Head(Tail(t)) = "txn" => Head(t) = "save")
    BY <1>1, RestOf, TailOf
  <1>3. HasSaves(u) => rec.as \in Terminal
    BY <1>2 DEF t
  <1> HIDE DEF u
  <1>4. GoodCall(r) /\ r.todo = u /\ (u # <<>> => r.ra = rec.ra /\ r.item = rec.item /\ r.base = rec.base)
    <2>1. CASE u = <<>>
      BY <2>1, NoCallOK
    <2>2. CASE u # <<>>
      <3>1. u \in Seq(Steps)
        BY <1>2 DEF Agenda
      <3>2. /\ r \in CallRecord /\ r.todo = u /\ r.ra = rec.ra /\ r.as = rec.as
            /\ r.item = rec.item /\ r.base = rec.base
        BY <2>2, <3>1 DEF CallRecord
      <3>3. Head(u) = "launch" => rec.ra.target \in Syntheses
        BY <1>2, <2>2 DEF Later, Saves
      <3> HIDE DEF r
      <3>4. QED
        BY <1>2, <1>3, <3>2, <3>3 DEF GoodCall
    <2>3. QED
      BY <2>1, <2>2
  <1>5. call' = [call EXCEPT ![c] = r]
    BY DEF Do, u, t
  <1> HIDE DEF r
  <1>6. CallsOK' /\ call'[c] = r /\ Step(c)' = (IF u = <<>> THEN "none" ELSE Head(u))
        /\ \A d \in Callers \ {c} : call'[d] = call[d] /\ Step(d)' = Step(d)
    BY <1>4, <1>5, CallSet
  <1>7. QED
    BY <1>1, <1>2, <1>4, <1>6

LEMMA DoneOK ==
  ASSUME CallsOK, NEW c \in Callers, ~Free(c), Done(c)
  PROVE  /\ CallsOK' /\ Step(c)' \in Later \cup {"none"}
         /\ Step(c)' = "txn" => Step(c) = "save"
         /\ \A d \in Callers \ {c} : call'[d] = call[d] /\ Step(d)' = Step(d)
  <1>1. Kept(c) \in CallRecord /\ Kept(c).ra = NewAction
        /\ (HasSaves(Tail(call[c].todo)) => Kept(c).as \in Terminal)
    BY KeptOK DEF Free
  <1>2. OneOfAKind(Kept(c).ra.queue)
    BY <1>1, NewDataOK DEF GoodData
  <1>3. Do(c, <<>>, Kept(c))
    BY DEF Done
  <1> DEFINE k == Kept(c)
  <1> HIDE DEF k
  <1>4. k \in CallRecord /\ OneOfAKind(k.ra.queue) /\ Do(c, <<>>, k)
        /\ (HasSaves(Tail(call[c].todo)) => k.as \in Terminal)
    BY <1>1, <1>2, <1>3 DEF k
  <1>5. /\ CallsOK'
        /\ \A d \in Callers \ {c} : call'[d] = call[d] /\ Step(d)' = Step(d)
        /\ Step(c)' \in Later \cup {"none"} /\ (Step(c)' = "txn" => Step(c) = "save")
    BY <1>4, Agendas, DoOK
  <1>6. QED
    BY <1>5

LEMMA StartOK ==
  ASSUME CallsOK, NEW c \in Callers, NEW r, GoodCall(r), r.todo # <<>>, Start(c, r)
  PROVE  /\ CallsOK' /\ Step(c)' = Head(r.todo) /\ Step(c) = "none"
         /\ \A d \in Callers \ {c} : call'[d] = call[d] /\ Step(d)' = Step(d)
  BY CallSet DEF Start, Step

LEMMA CompletingOK ==
  ASSUME NEW m \in ModelSet \cup {"none", "synthesis"}, NEW e \in Nat, NEW as \in Terminal,
         NEW t, Agenda(t), t # <<>>, Head(t) # "launch"
  PROVE  GoodCall(Completing(m, e, as, t)) /\ Completing(m, e, as, t).todo = t
         /\ Completing(m, e, as, t).m = m
  <1> DEFINE r == Completing(m, e, as, t)
  <1>1. NoCall \in CallRecord /\ OneOfAKind(NoCall.ra.queue)
    BY NoCallOK DEF GoodCall
  <1>2. t \in Seq(Steps)
    BY DEF Agenda
  <1>3. r \in CallRecord /\ r.todo = t /\ r.as = as /\ r.ra = NoCall.ra /\ r.m = m
    BY <1>1, <1>2 DEF CallRecord, Completing
  <1> HIDE DEF r
  <1>4. GoodCall(r)
    BY <1>1, <1>3 DEF GoodCall
  <1>5. QED
    BY <1>3, <1>4 DEF r

LEMMA AskingOK ==
  ASSUME NEW item \in Items, NEW t, Agenda(t), t # <<>>, Head(t) # "launch", ~HasSaves(t)
  PROVE  GoodCall([NoCall EXCEPT !.todo = t, !.item = item])
         /\ [NoCall EXCEPT !.todo = t, !.item = item].todo = t
  <1> DEFINE r == [NoCall EXCEPT !.todo = t, !.item = item]
  <1>1. NoCall \in CallRecord /\ OneOfAKind(NoCall.ra.queue)
    BY NoCallOK DEF GoodCall
  <1>2. t \in Seq(Steps)
    BY DEF Agenda
  <1>3. r \in CallRecord /\ r.todo = t /\ r.ra = NoCall.ra
    BY <1>1, <1>2 DEF CallRecord
  <1> HIDE DEF r
  <1>4. GoodCall(r)
    BY <1>1, <1>3 DEF GoodCall
  <1>5. QED
    BY <1>3, <1>4 DEF r

(* -------------------------------- types --------------------------------- *)

LEMMA Frames ==
    /\ OursOK /\ UNCHANGED ours => OursOK'
    /\ EntriesOK /\ UNCHANGED <<entries, round>> => EntriesOK'
    /\ ProcsOK /\ UNCHANGED procs => ProcsOK'
    /\ CountsOK /\ UNCHANGED counters /\ holes' \subseteq Holes => CountsOK'
    /\ DispOK /\ UNCHANGED <<disp, round>> => DispOK'
    /\ CallsOK /\ UNCHANGED call => CallsOK'
  <1>1. OursOK /\ UNCHANGED ours => OursOK'
    BY DEF OursOK, ours
  <1>2. EntriesOK /\ UNCHANGED <<entries, round>> => EntriesOK'
    BY DEF EntriesOK, entries
  <1>3. ProcsOK /\ UNCHANGED procs => ProcsOK'
    BY DEF ProcsOK, procs
  <1>4. CountsOK /\ UNCHANGED counters /\ holes' \subseteq Holes => CountsOK'
    BY DEF CountsOK, counters
  <1>5. DispOK /\ UNCHANGED <<disp, round>> => DispOK'
    BY DEF DispOK
  <1>6. CallsOK /\ UNCHANGED call => CallsOK'
    BY DEF CallsOK
  <1>7. QED
    BY <1>1, <1>2, <1>3, <1>4, <1>5, <1>6

(* The record of a thread.                                                   *)
LEMMA CallIs ==
  ASSUME CallsOK, NEW c \in Callers
  PROVE  /\ call[c] \in CallRecord /\ GoodData(call[c].ra)
         /\ call[c].base \in BaseData /\ call[c].item \in Items
         /\ call[c].m \in ModelSet \cup {"none", "synthesis"} /\ call[c].e \in Nat
         /\ Step(c) \in Ending => call[c].as \in Terminal
         /\ Step(c) = "launch" => call[c].ra.target \in Syntheses
         /\ ~Free(c) => Agenda(call[c].todo) /\ Step(c) = Head(call[c].todo)
  <1>1. GoodCall(call[c])
    BY DEF CallsOK
  <1>2. PICK r \in CallRecord : r = call[c] /\ GoodCall(r)
    BY <1>1 DEF GoodCall
  <1>3. /\ r.ra \in ActionData /\ r.base \in BaseData /\ r.item \in Items
        /\ r.m \in ModelSet \cup {"none", "synthesis"} /\ r.e \in Nat
    BY DEF CallRecord
  <1>4. GoodData(r.ra)
    BY <1>2, <1>3 DEF GoodCall, GoodData
  <1>5. Step(c) \in Ending => r.as \in Terminal
    <2> SUFFICES ASSUME Step(c) \in Ending PROVE r.as \in Terminal
      OBVIOUS
    <2>1. r.todo # <<>> /\ Head(r.todo) \in Ending
      BY <1>2 DEF Step, Free, Saves, Ending
    <2>2. r.todo \in Seq(Steps)
      BY <1>2 DEF GoodCall, Agenda
    <2>3. 1 \in DOMAIN r.todo /\ r.todo[1] \in Ending
      BY <2>1, <2>2, EmptySeq, LenProperties
    <2>4. QED
      BY <1>2, <2>3 DEF GoodCall, HasSaves
  <1>6. Step(c) = "launch" => r.ra.target \in Syntheses
    BY <1>2 DEF Step, Free, GoodCall
  <1>7. ~Free(c) => Agenda(r.todo) /\ Step(c) = Head(r.todo)
    BY <1>2 DEF Step, Free, GoodCall
  <1>8. QED
    BY <1>2, <1>3, <1>4, <1>5, <1>6, <1>7

LEMMA DataIs ==
  ASSUME NEW d, GoodData(d)
  PROVE  /\ d.queue \in Seq(Items) /\ OneOfAKind(d.queue)
         /\ d.target \in {Nothing, Topic} \cup Syntheses
         /\ \A t \in {Nothing, Topic} \cup Syntheses : GoodData([d EXCEPT !.target = t])
         /\ GoodData(Without(d)) /\ Without(d).queue = d.queue
  <1>1. d.queue \in Seq(Items) /\ OneOfAKind(d.queue) /\ d.target \in {Nothing, Topic} \cup Syntheses
    BY DEF GoodData, ActionData
  <1>2. ASSUME NEW t \in {Nothing, Topic} \cup Syntheses
        PROVE  GoodData([d EXCEPT !.target = t]) /\ [d EXCEPT !.target = t].queue = d.queue
    BY DEF GoodData, ActionData
  <1>3. QED
    BY <1>1, <1>2 DEF Without

LEMMA QueuedOK ==
  ASSUME GoodData(ra), NEW item \in Items
  PROVE  GoodData([ra EXCEPT !.queue = Queued(ra.queue, item)])
  <1> DEFINE q == ra.queue
             n == Queued(q, item)
  <1>1. q \in Seq(Items) /\ OneOfAKind(q) /\ ra \in ActionData
    BY DEF GoodData, ActionData
  <1> HIDE DEF q
  <1>2. n \in Seq(Items) /\ OneOfAKind(n)
    <2>1. CASE \E i \in DOMAIN q : q[i].kind = item.kind
      BY <1>1, <2>1 DEF Queued
    <2>2. CASE ~ \E i \in DOMAIN q : q[i].kind = item.kind
      <3>1. n = Append(q, item)
        BY <2>2 DEF Queued
      <3>2. /\ Append(q, item) \in Seq(Items) /\ Len(Append(q, item)) = Len(q) + 1
            /\ \A i \in 1..Len(q) : Append(q, item)[i] = q[i]
            /\ Append(q, item)[Len(q) + 1] = item
        BY <1>1, AppendProperties
      <3>3. Len(q) \in Nat /\ DOMAIN q = 1..Len(q) /\ DOMAIN Append(q, item) = 1..(Len(q) + 1)
        BY <1>1, <3>2, LenProperties
      <3>4. \A i \in DOMAIN Append(q, item) :
               \/ i \in DOMAIN q /\ Append(q, item)[i] = q[i]
               \/ i = Len(q) + 1 /\ Append(q, item)[i] = item
        BY <3>2, <3>3
      <3>5. OneOfAKind(Append(q, item))
        BY <1>1, <2>2, <3>4 DEF OneOfAKind
      <3>6. QED
        BY <3>1, <3>2, <3>5
    <2>3. QED
      BY <2>1, <2>2
  <1> HIDE DEF n
  <1>3. [ra EXCEPT !.queue = n] \in ActionData /\ [ra EXCEPT !.queue = n].queue = n
    BY <1>1, <1>2 DEF ActionData
  <1>4. GoodData([ra EXCEPT !.queue = n])
    BY <1>2, <1>3 DEF GoodData
  <1>5. QED
    BY <1>4 DEF n, q

LEMMA PoppedOK ==
  ASSUME GoodData(ra), ra.queue # <<>>
  PROVE  /\ GoodData([ra EXCEPT !.queue = Tail(ra.queue)])
         /\ Head(ra.queue) \in Items /\ Head(ra.queue) = ra.queue[1]
         /\ \A i \in DOMAIN ra.queue : i = 1 \/ (i - 1 \in DOMAIN Tail(ra.queue)
                                                /\ Tail(ra.queue)[i - 1] = ra.queue[i])
  <1> DEFINE q == ra.queue
             n == Tail(q)
  <1>1. q \in Seq(Items) /\ OneOfAKind(q) /\ ra \in ActionData
    BY DEF GoodData, ActionData
  <1> HIDE DEF q
  <1>2. /\ n \in Seq(Items) /\ Len(n) = Len(q) - 1 /\ Head(q) \in Items
        /\ \A i \in 1..Len(n) : n[i] = q[i + 1]
    BY <1>1, HeadTailProperties DEF q
  <1> HIDE DEF n
  <1>3. /\ Len(n) \in Nat /\ DOMAIN n = 1..Len(n) /\ DOMAIN q = 1..Len(q) /\ Len(q) \in Nat
        /\ Head(q) = q[1]
    BY <1>1, <1>2, LenProperties
  <1>4. \A i \in DOMAIN n : i + 1 \in DOMAIN q /\ n[i] = q[i + 1]
    BY <1>2, <1>3
  <1>5. \A i \in DOMAIN q : i = 1 \/ (i - 1 \in DOMAIN n /\ n[i - 1] = q[i])
    <2>1. ASSUME NEW i \in DOMAIN q, i # 1
          PROVE  i - 1 \in DOMAIN n /\ n[i - 1] = q[i]
      <3>1. i - 1 \in 1..Len(n) /\ (i - 1) + 1 = i
        BY <1>2, <1>3, <2>1
      <3>2. QED
        BY <1>2, <1>3, <3>1
    <2>2. QED
      BY <2>1
  <1>6. OneOfAKind(n)
    <2>1. ASSUME NEW i \in DOMAIN n, NEW j \in DOMAIN n, n[i].kind = n[j].kind
          PROVE  i = j
      <3>1. i + 1 = j + 1
        BY <1>1, <1>4, <2>1 DEF OneOfAKind
      <3>2. QED
        BY <1>3, <3>1
    <2>2. QED
      BY <2>1 DEF OneOfAKind
  <1>7. [ra EXCEPT !.queue = n] \in ActionData /\ [ra EXCEPT !.queue = n].queue = n
    BY <1>1, <1>2 DEF ActionData
  <1>8. GoodData([ra EXCEPT !.queue = n])
    BY <1>6, <1>7 DEF GoodData
  <1>9. QED
    BY <1>2, <1>3, <1>5, <1>8 DEF n, q
Statuses == {"none", "rerun", "launching", "active"} \cup Terminal

LEMMA BaseIs ==
  ASSUME NEW b \in BaseData
  PROVE  /\ b.status \in [ModelSet -> Statuses] /\ b.ids \subseteq ModelSet
         /\ [b EXCEPT !.triggered = TRUE] \in BaseData
         /\ \A m \in ModelSet, s \in Statuses : [b EXCEPT !.status[m] = s] \in BaseData
         /\ \A m \in ModelSet, put \in Statuses : Merged(b, m, put) \in BaseData
         /\ \A models \in SUBSET ModelSet : RerunMarks(b, models) \in BaseData
  <1>1. b.status \in [ModelSet -> Statuses] /\ b.ids \in SUBSET ModelSet /\ b.triggered \in BOOLEAN
    BY DEF BaseData, Statuses
  <1>2. [b EXCEPT !.triggered = TRUE] \in BaseData
    BY DEF BaseData
  <1>3. ASSUME NEW m \in ModelSet, NEW s \in Statuses
        PROVE  [b EXCEPT !.status[m] = s] \in BaseData
    <2>1. [b.status EXCEPT ![m] = s] \in [ModelSet -> Statuses]
      BY <1>1
    <2>2. QED
      BY <2>1 DEF BaseData, Statuses
  <1>4. ASSUME NEW m \in ModelSet, NEW put \in Statuses
        PROVE  Merged(b, m, put) \in BaseData
    <2> DEFINE s == IF b.status[m] \in Terminal /\ ~ put \in Terminal THEN b.status[m] ELSE put
               st == [b.status EXCEPT ![m] = s]
               ids == b.ids \cup {m}
    <2>1. s \in Statuses
      BY <1>1
    <2>2. Merged(b, m, put) = [b EXCEPT !.ids = ids, !.status = st]
      BY DEF Merged, BaseData
    <2> HIDE DEF s
    <2>3. st \in [ModelSet -> Statuses] /\ ids \in SUBSET ModelSet
      BY <1>1, <2>1
    <2> HIDE DEF st, ids
    <2>4. [b EXCEPT !.ids = ids, !.status = st] \in BaseData
      BY <2>3 DEF BaseData, Statuses
    <2>5. QED
      BY <2>2, <2>4
  <1>5. ASSUME NEW models \in SUBSET ModelSet
        PROVE  RerunMarks(b, models) \in BaseData
    <2> DEFINE st == [m \in ModelSet |->
                    CASE m \in models        -> "rerun"
                      [] b.status[m] = "none" -> "done"
                      [] OTHER               -> b.status[m]]
    <2>1. st \in [ModelSet -> Statuses]
      BY <1>1 DEF Statuses, Terminal
    <2>2. RerunMarks(b, models) = [b EXCEPT !.status = st, !.triggered = FALSE]
      BY DEF RerunMarks, Marked, BaseData
    <2> HIDE DEF st
    <2>3. [b EXCEPT !.status = st, !.triggered = FALSE] \in BaseData
      BY <2>1 DEF BaseData, Statuses
    <2>4. QED
      BY <2>2, <2>3
  <1>6. QED
    BY <1>1, <1>2, <1>3, <1>4, <1>5

LEMMA NoEntryOK ==
    /\ NoEntry \in SubEntry /\ NoEntry \in SynthEntry /\ NoEntry.id = 0
    /\ NoEntry.status = "none"
  BY DEF NoEntry, SubEntry, SynthEntry

LEMMA HolesOK == \A c : Overlap(c) \subseteq Holes /\ Crossed(c) \subseteq Holes
                        /\ \A m, e : Stale(m, e) \subseteq Holes
  BY DEF Overlap, Crossed, Stale, Holes

LEMMA EnqueueTypes ==
  ASSUME StateOK, NEW c \in Callers, Enqueue(c)
  PROVE  StateOK'
  <1>1. ~Free(c)
    BY DEF Enqueue, At, Free
  <1>2. CallsOK'
    BY <1>1, DoneOK DEF StateOK, Enqueue
  <1>3. call[c].item \in Items
    BY CallIs DEF StateOK
  <1>4. GoodData(ra') /\ UNCHANGED <<running, working>>
    BY <1>3, QueuedOK DEF StateOK, OursOK, Enqueue
  <1>5. OursOK'
    BY <1>4 DEF OursOK, StateOK
  <1>6. QED
    BY <1>2, <1>5, Frames DEF StateOK, Enqueue, CountsOK, counters

LEMMA DrainTypes ==
  ASSUME StateOK, NEW c \in Callers, Drain(c)
  PROVE  StateOK'
  <1> DEFINE more == IF MayDrain THEN <<"pop">> ELSE <<>>
  <1>1. ~Free(c) /\ Step(c) = "drain"
    BY AtStep DEF Drain, Steps
  <1>2. /\ Kept(c) \in CallRecord /\ Kept(c).ra = NewAction
        /\ HasSaves(Tail(call[c].todo)) => Kept(c).as \in Terminal
    BY <1>1, KeptOK DEF StateOK, Free
  <1>3. Agenda(more) /\ ~HasSaves(more) /\ (more # <<>> => Head(more) # "launch")
    BY Agendas DEF Steps, Saves, Ending
  <1>4. Do(c, more, Kept(c))
    BY DEF Drain
  <1>5. OneOfAKind(Kept(c).ra.queue)
    BY <1>2, NewDataOK DEF GoodData
  <1> DEFINE k == Kept(c)
  <1> HIDE DEF more, k
  <1>6. CallsOK'
    <2>1. /\ k \in CallRecord /\ OneOfAKind(k.ra.queue) /\ Do(c, more, k)
          /\ HasSaves(more) \/ HasSaves(Tail(call[c].todo)) => k.as \in Terminal
      BY <1>2, <1>3, <1>4, <1>5 DEF k
    <2>2. QED
      BY <1>1, <1>3, <2>1, DoOK DEF StateOK
  <1>7. holes' \subseteq Holes
    BY HolesOK DEF Drain, StateOK, CountsOK
  <1>8. QED
    BY <1>6, <1>7, Frames DEF StateOK, Drain, counters

LEMMA PopTypes ==
  ASSUME StateOK, NEW c \in Callers, Pop(c)
  PROVE  StateOK'
  <1>1. ~Free(c) /\ Step(c) = "pop"
    BY AtStep DEF Pop, Steps
  <1>2. CallsOK' /\ GoodData(ra')
    <2>1. CASE ra.queue = <<>>
      BY <1>1, <2>1, DoneOK DEF Pop, StateOK, OursOK
    <2>2. CASE ra.queue # <<>>
      <3> DEFINE item == Head(ra.queue)
                 k == [Kept(c) EXCEPT !.item = item, !.base = base]
                 more == <<item.kind>>
      <3>1. /\ Kept(c) \in CallRecord /\ Kept(c).ra = NewAction
            /\ HasSaves(Tail(call[c].todo)) => Kept(c).as \in Terminal
        BY <1>1, KeptOK DEF StateOK, Free
      <3>2. GoodData(ra') /\ item \in Items
        BY <2>2, PoppedOK DEF Pop, StateOK, OursOK
      <3>3. base \in BaseData
        BY DEF StateOK, EntriesOK
      <3>4. Do(c, more, k)
        BY <2>2 DEF Pop
      <3>5. item.kind \in Steps /\ item.kind \in {"run", "rerun", "synthesize"}
        BY <3>2 DEF Items, Steps
      <3> HIDE DEF item
      <3>6. k \in CallRecord /\ k.ra = NewAction /\ k.as = Kept(c).as
        BY <3>1, <3>2, <3>3 DEF CallRecord
      <3> HIDE DEF k
      <3>7. OneOfAKind(k.ra.queue)
        BY <3>6, NewDataOK DEF GoodData
      <3>8. Agenda(more) /\ more # <<>> /\ Head(more) # "launch" /\ ~HasSaves(more)
        BY <3>5, Agendas DEF Saves, Ending
      <3> HIDE DEF more
      <3>9. CallsOK'
        BY <1>1, <3>1, <3>4, <3>6, <3>7, <3>8, DoOK DEF StateOK
      <3>10. QED
        BY <3>2, <3>9
    <2>3. QED
      BY <2>1, <2>2
  <1>3. OursOK'
    BY <1>2 DEF OursOK, StateOK, Pop
  <1>4. QED
    BY <1>2, <1>3, Frames DEF StateOK, Pop, CountsOK, counters

LEMMA DispatchRunTypes ==
  ASSUME StateOK, NEW c \in Callers, DispatchRun(c)
  PROVE  StateOK'
  <1>1. ~Free(c)
    BY DEF DispatchRun, At, Free
  <1>2. CallsOK'
    BY <1>1, DoneOK DEF StateOK, DispatchRun
  <1>3. base' \in BaseData /\ topic' = "active"
    BY CallIs DEF StateOK, DispatchRun
  <1>4. GoodData(ra')
    BY DataIs DEF StateOK, OursOK, DispatchRun, TargetTopic
  <1>5. OursOK'
    BY <1>4 DEF OursOK, StateOK, DispatchRun
  <1>6. EntriesOK'
    BY <1>3 DEF EntriesOK, StateOK, DispatchRun, counters
  <1>7. QED
    BY <1>2, <1>5, <1>6, Frames DEF StateOK, DispatchRun, CountsOK, counters

LEMMA DispatchRerunTypes ==
  ASSUME StateOK, NEW c \in Callers, DispatchRerun(c)
  PROVE  StateOK'
  <1>1. ~Free(c)
    BY DEF DispatchRerun, At, Free
  <1>2. CallsOK'
    BY <1>1, DoneOK DEF StateOK, DispatchRerun
  <1>3. call[c].base \in BaseData /\ call[c].item \in Items
    BY CallIs DEF StateOK
  <1>4. call[c].item.models \in SUBSET ModelSet
    BY <1>3 DEF Items
  <1>5. base' \in BaseData /\ topic' = "active"
    BY <1>3, <1>4, BaseIs DEF DispatchRerun
  <1>6. GoodData(ra')
    BY DataIs DEF StateOK, OursOK, DispatchRerun, TargetTopic
  <1>7. OursOK'
    BY <1>6 DEF OursOK, StateOK, DispatchRerun
  <1>8. sub' \in [ModelSet -> SubEntry] /\ \A m \in ModelSet : sub'[m].id <= round'
    <2>1. round \in Nat /\ round' = round
      BY Numbers DEF StateOK, CountsOK, DispatchRerun, counters
    <2>2. QED
      BY <2>1, NoEntryOK DEF StateOK, EntriesOK, DispatchRerun
  <1>9. EntriesOK'
    BY <1>5, <1>8 DEF EntriesOK, StateOK, DispatchRerun
  <1>10. QED
    BY <1>2, <1>7, <1>9, Frames DEF StateOK, DispatchRerun, CountsOK, counters

LEMMA DispatchSynthesizeTypes ==
  ASSUME StateOK, NEW c \in Callers, DispatchSynthesize(c)
  PROVE  StateOK'
  <1>1. ~Free(c) /\ Step(c) = "synthesize"
    BY AtStep DEF DispatchSynthesize, Steps
  <1>2. CASE call[c].base.ids = {}
    <2>1. CallsOK'
      BY <1>1, <1>2, DoneOK DEF StateOK, DispatchSynthesize
    <2>2. UNCHANGED <<ours, entries, round>>
      BY <1>2 DEF DispatchSynthesize, ours, entries, counters
    <2>3. QED
      BY <2>1, <2>2, Frames DEF StateOK, DispatchSynthesize, CountsOK, counters
  <1>3. CASE call[c].base.ids # {}
    <2> DEFINE k == [Kept(c) EXCEPT !.ra = ra']
               s == synth'
    <2>1. synth.id \in Nat /\ base \in BaseData
      BY DEF StateOK, EntriesOK, SynthEntry
    <2>2. s = [status |-> "open", id |-> synth.id + 1]
      BY <1>3 DEF DispatchSynthesize
    <2>3. s \in SynthEntry /\ s.id \in Nat
      BY <2>1, <2>2 DEF SynthEntry
    <2>4. Synthesis(s.id) \in Syntheses
      BY <2>3 DEF Synthesis, Syntheses
    <2>5. ra' = [ra EXCEPT !.target = Synthesis(s.id)]
      BY <1>3 DEF DispatchSynthesize
    <2>6. GoodData(ra')
      BY <2>4, <2>5, DataIs DEF StateOK, OursOK
    <2>7. ra'.target \in Syntheses
      <3>1. ra \in ActionData
        BY DEF StateOK, OursOK, GoodData
      <3>2. ra'.target = Synthesis(s.id)
        BY <2>5, <3>1 DEF ActionData
      <3>3. QED
        BY <2>4, <3>2
    <2>8. base' \in BaseData
      BY <1>3, <2>1, BaseIs DEF DispatchSynthesize
    <2>9. /\ Kept(c) \in CallRecord /\ Kept(c).ra = NewAction
          /\ HasSaves(Tail(call[c].todo)) => Kept(c).as \in Terminal
      BY <1>1, KeptOK DEF StateOK, Free
    <2>10. Do(c, <<"launch">>, k)
      BY <1>3 DEF DispatchSynthesize
    <2>11. k \in CallRecord /\ k.ra = ra' /\ k.as = Kept(c).as
      BY <2>6, <2>9 DEF CallRecord, GoodData
    <2> HIDE DEF k, s
    <2>12. OneOfAKind(k.ra.queue) /\ k.ra.target \in Syntheses
      BY <2>6, <2>7, <2>11 DEF GoodData
    <2>13. Agenda(<<"launch">>) /\ ~HasSaves(<<"launch">>)
      BY Agendas DEF Steps, Saves, Ending
    <2>14. CallsOK'
      <3> DEFINE more == <<"launch">>
      <3> HIDE DEF more
      <3>1. Agenda(more) /\ ~HasSaves(more) /\ Do(c, more, k)
        BY <2>10, <2>13 DEF more
      <3>2. QED
        BY <1>1, <2>9, <2>11, <2>12, <3>1, DoOK DEF StateOK
    <2>15. OursOK'
      BY <2>6 DEF OursOK, StateOK, DispatchSynthesize
    <2>16. EntriesOK'
      BY <2>3, <2>8 DEF EntriesOK, StateOK, DispatchSynthesize, counters, s
    <2>17. QED
      BY <2>14, <2>15, <2>16, Frames DEF StateOK, DispatchSynthesize, CountsOK, counters
  <1>4. QED
    BY <1>2, <1>3

(* The agent is marked running on the target of a copy.                      *)
LEMMA DispatchAIOK ==
  ASSUME NEW copy, GoodData(copy), copy.target \in Syntheses \/ copy.target \in {Claude} \X Nat,
         DispatchAI(copy)
  PROVE  OursOK'
  <1>1. GoodData(ra')
    BY DataIs DEF DispatchAI
  <1>2. running' \in BOOLEAN /\ working' \in {"none", Claude, "synthesis"} \X Nat
    BY DEF DispatchAI, Syntheses
  <1>3. QED
    BY <1>1, <1>2 DEF OursOK

LEMMA LaunchSynthesisTypes ==
  ASSUME StateOK, NEW c \in Callers, LaunchSynthesis(c)
  PROVE  StateOK'
  <1>1. ~Free(c) /\ Step(c) = "launch"
    BY AtStep DEF LaunchSynthesis, Steps
  <1>2. CallsOK'
    BY <1>1, DoneOK DEF StateOK, LaunchSynthesis
  <1>3. GoodData(call[c].ra) /\ call[c].ra.target \in Syntheses
    BY <1>1, CallIs DEF StateOK
  <1>4. OursOK'
    BY <1>3, DispatchAIOK DEF LaunchSynthesis
  <1>5. ProcsOK'
    BY DEF ProcsOK, StateOK, LaunchSynthesis
  <1>6. QED
    BY <1>2, <1>4, <1>5, Frames DEF StateOK, LaunchSynthesis, CountsOK, counters

LEMMA SaveEntryTypes ==
  ASSUME StateOK, NEW c \in Callers, SaveEntry(c)
  PROVE  StateOK'
  <1>1. ~Free(c) /\ Step(c) = "save"
    BY AtStep DEF SaveEntry, Steps
  <1>2. CallsOK'
    BY <1>1, DoneOK DEF StateOK, SaveEntry
  <1>3. call[c].as \in Terminal
    BY <1>1, CallIs DEF StateOK, Saves, Ending
  <1>4. synth' \in SynthEntry
    BY <1>3 DEF SaveEntry, StateOK, EntriesOK, SynthEntry
  <1>5. sub' \in [ModelSet -> SubEntry] /\ \A m \in ModelSet : sub'[m].id = sub[m].id
    <2> DEFINE m == call[c].m
    <2>1. CASE m \in ModelSet /\ sub' = [sub EXCEPT ![m].status = call[c].as]
      <3>1. sub[m] \in SubEntry
        BY <2>1 DEF StateOK, EntriesOK
      <3>2. [sub[m] EXCEPT !.status = call[c].as] \in SubEntry
            /\ [sub[m] EXCEPT !.status = call[c].as].id = sub[m].id
        BY <1>3, <3>1 DEF SubEntry
      <3>3. sub' = [sub EXCEPT ![m] = [sub[m] EXCEPT !.status = call[c].as]]
        BY <2>1
      <3>4. QED
        BY <2>1, <3>2, <3>3 DEF StateOK, EntriesOK
    <2>2. CASE sub' = sub
      BY <2>2 DEF StateOK, EntriesOK
    <2>3. QED
      BY <2>1, <2>2 DEF SaveEntry
  <1>6. EntriesOK'
    BY <1>4, <1>5 DEF EntriesOK, StateOK, SaveEntry, counters
  <1>7. holes' \subseteq Holes
    BY HolesOK DEF SaveEntry, StateOK, CountsOK
  <1>8. QED
    BY <1>2, <1>6, <1>7, Frames DEF StateOK, SaveEntry, counters

LEMMA CompleteTypes ==
  ASSUME StateOK, NEW c \in Callers, Complete(c)
  PROVE  StateOK'
  <1> DEFINE more == IF AllTerminal(base') /\ ~base'.triggered THEN <<"trigger">> ELSE <<>>
             k == Kept(c)
  <1>1. ~Free(c) /\ Step(c) = "txn"
    BY AtStep DEF Complete, Steps
  <1>2. /\ Kept(c) \in CallRecord /\ Kept(c).ra = NewAction
        /\ HasSaves(Tail(call[c].todo)) => Kept(c).as \in Terminal
    BY <1>1, KeptOK DEF StateOK, Free
  <1>3. Agenda(more) /\ ~HasSaves(more) /\ (more # <<>> => Head(more) # "launch")
    BY Agendas DEF Steps, Saves, Ending
  <1>4. Do(c, more, Kept(c))
    BY DEF Complete
  <1>5. OneOfAKind(Kept(c).ra.queue)
    BY <1>2, NewDataOK DEF GoodData
  <1> HIDE DEF more, k
  <1>6. CallsOK'
    <2>1. /\ k \in CallRecord /\ OneOfAKind(k.ra.queue) /\ Do(c, more, k)
          /\ HasSaves(more) \/ HasSaves(Tail(call[c].todo)) => k.as \in Terminal
      BY <1>2, <1>3, <1>4, <1>5 DEF k
    <2>2. QED
      BY <1>1, <1>3, <2>1, DoOK DEF StateOK
  <1>7. call[c].as \in Statuses
    BY <1>1, CallIs DEF StateOK, Saves, Ending, Statuses
  <1>8. base' \in BaseData
    BY <1>7, BaseIs DEF Complete, Recorded, StateOK, EntriesOK
  <1>9. EntriesOK'
    BY <1>8 DEF EntriesOK, StateOK, Complete, counters
  <1>10. ProcsOK'
    BY DEF ProcsOK, StateOK, Complete
  <1>11. holes' \subseteq Holes
    BY HolesOK DEF Complete, StateOK, CountsOK
  <1>12. QED
    BY <1>6, <1>9, <1>10, <1>11, Frames DEF StateOK, Complete, counters

LEMMA TriggerTypes ==
  ASSUME StateOK, NEW c \in Callers, Trigger(c)
  PROVE  StateOK'
  <1>1. ~Free(c) /\ Step(c) = "trigger"
    BY AtStep DEF Trigger, Steps
  <1>2. CASE StillUntriggered
    <2> DEFINE k == [Kept(c) EXCEPT !.item = Item("synthesize", {})]
               more == <<"enqueue", "drain">>
    <2>1. /\ Kept(c) \in CallRecord /\ Kept(c).ra = NewAction
          /\ HasSaves(Tail(call[c].todo)) => Kept(c).as \in Terminal
      BY <1>1, KeptOK DEF StateOK, Free
    <2>2. Do(c, more, k)
      BY <1>2 DEF Trigger
    <2>3. k \in CallRecord /\ k.ra = NewAction /\ k.as = Kept(c).as
      BY <2>1, NewDataOK DEF CallRecord
    <2>4. Agenda(more) /\ ~HasSaves(more) /\ Head(more) # "launch"
      BY Agendas
    <2> HIDE DEF k, more
    <2>5. OneOfAKind(k.ra.queue)
      BY <2>3, NewDataOK DEF GoodData
    <2>6. CallsOK'
      BY <1>1, <2>1, <2>2, <2>3, <2>4, <2>5, DoOK DEF StateOK
    <2>7. base' \in BaseData
      BY <1>2, BaseIs DEF Trigger, StateOK, EntriesOK
    <2>8. QED
      BY <2>6, <2>7, Frames DEF StateOK, EntriesOK, Trigger, CountsOK, counters
  <1>3. CASE ~StillUntriggered
    <2>1. CallsOK'
      BY <1>1, <1>3, DoneOK DEF StateOK, Trigger
    <2>2. QED
      BY <1>3, <2>1, Frames DEF StateOK, EntriesOK, Trigger, CountsOK, counters
  <1>4. QED
    BY <1>2, <1>3

LEMMA PublishTypes ==
  ASSUME StateOK, NEW c \in Callers, Publish(c)
  PROVE  StateOK'
  <1>1. ~Free(c) /\ Step(c) = "publish"
    BY AtStep DEF Publish, Steps
  <1>2. CallsOK'
    BY <1>1, DoneOK DEF StateOK, Publish
  <1>3. topic' \in Terminal
    BY <1>1, CallIs DEF StateOK, Saves, Ending, Publish
  <1>4. EntriesOK'
    BY <1>3 DEF EntriesOK, StateOK, Publish, counters
  <1>5. QED
    BY <1>2, <1>4, Frames DEF StateOK, Publish, CountsOK, counters

LEMMA HealMarkTypes ==
  ASSUME StateOK, NEW c \in Callers, HealMark(c)
  PROVE  StateOK'
  <1> DEFINE more == IF HasLivePid(call[c].m) THEN <<>> ELSE <<"save", "txn">>
             k == call[c]
  <1>1. ~Free(c) /\ Step(c) = "healmark"
    BY AtStep DEF HealMark, Steps
  <1>2. Agenda(more) /\ (more # <<>> => Head(more) # "launch") /\ Do(c, more, k)
    BY Agendas DEF HealMark
  <1>3. k \in CallRecord /\ OneOfAKind(k.ra.queue) /\ k.as \in Terminal
    BY <1>1, CallIs DEF StateOK, GoodData, Ending
  <1> HIDE DEF more
  <1>4. CallsOK'
    BY <1>1, <1>2, <1>3, DoOK DEF StateOK
  <1>5. QED
    BY <1>4, Frames DEF StateOK, HealMark, CountsOK, counters

LEMMA RequestTypes ==
  ASSUME StateOK, NEW item \in Items, Request(item)
  PROVE  StateOK' /\ Step(Web)' = "enqueue"
         /\ \A d \in Callers \ {Web} : Step(d)' = Step(d) /\ call'[d] = call[d]
  <1> DEFINE r == [NoCall EXCEPT !.todo = <<"enqueue", "drain">>, !.item = item]
             t == <<"enqueue", "drain">>
  <1>1. Agenda(t) /\ t # <<>> /\ Head(t) = "enqueue" /\ ~HasSaves(t)
    BY Agendas
  <1>2. r = [NoCall EXCEPT !.todo = t, !.item = item]
    OBVIOUS
  <1> HIDE DEF t
  <1>3. GoodCall(r) /\ r.todo = t
    BY <1>1, <1>2, AskingOK
  <1>4. Start(Web, r)
    BY DEF Request
  <1> HIDE DEF r
  <1>5. CallsOK' /\ Step(Web)' = "enqueue"
        /\ \A d \in Callers \ {Web} : Step(d)' = Step(d) /\ call'[d] = call[d]
    BY <1>1, <1>3, <1>4, StartOK, Names DEF StateOK
  <1>6. CountsOK'
    BY Numbers DEF StateOK, CountsOK, Request
  <1>7. QED
    BY <1>5, <1>6, Frames DEF StateOK, Request

LEMMA FaultOK == CountsOK /\ Fault => faults' \in 0..MaxFaults
  BY Numbers DEF Fault, CountsOK

LEMMA ProcSet ==
  ASSUME ProcsOK, NEW m \in ModelSet, NEW r \in Rounds, NEW e \in Nat, e <= r,
         proc' = [proc EXCEPT ![m][r] = e]
  PROVE  /\ proc' \in [ModelSet -> [Rounds -> Nat]]
         /\ \A n \in ModelSet, s \in Rounds : proc'[n][s] <= s
         /\ proc'[m][r] = e
         /\ \A n \in ModelSet, s \in Rounds : n # m \/ s # r => proc'[n][s] = proc[n][s]
  <1>1. proc \in [ModelSet -> [Rounds -> Nat]] /\ proc[m] \in [Rounds -> Nat]
    BY DEF ProcsOK
  <1>2. proc' = [proc EXCEPT ![m] = [proc[m] EXCEPT ![r] = e]]
    OBVIOUS
  <1>3. [proc[m] EXCEPT ![r] = e] \in [Rounds -> Nat]
    BY <1>1
  <1>4. proc' \in [ModelSet -> [Rounds -> Nat]]
    BY <1>1, <1>2, <1>3
  <1>5. proc'[m][r] = e /\ \A n \in ModelSet, s \in Rounds : n # m \/ s # r => proc'[n][s] = proc[n][s]
    BY <1>1, <1>2
  <1>6. \A n \in ModelSet, s \in Rounds : proc'[n][s] <= s
    BY <1>5 DEF ProcsOK
  <1>7. QED
    BY <1>4, <1>5, <1>6

(* A process has ended.                                                      *)
LEMMA ProcEnds ==
  ASSUME ProcsOK, NEW m \in ModelSet, NEW r \in Rounds, proc' = [proc EXCEPT ![m][r] = 0]
  PROVE  /\ proc'[m][r] = 0
         /\ \A n \in ModelSet, s \in Rounds : n # m \/ s # r => proc'[n][s] = proc[n][s]
  <1>1. proc \in [ModelSet -> [Rounds -> Nat]]
    BY DEF ProcsOK
  <1>2. proc' = [proc EXCEPT ![m] = [proc[m] EXCEPT ![r] = 0]]
    OBVIOUS
  <1>3. QED
    BY <1>1, <1>2

LEMMA SubprocessEndsTypes ==
  ASSUME StateOK, NEW m \in ModelSet, NEW r \in Rounds, NEW ok \in BOOLEAN,
         SubprocessEnds(m, r, ok)
  PROVE  StateOK' /\ Step(<<m, r>>)' = "save"
         /\ \A d \in Callers \ {<<m, r>>} : Step(d)' = Step(d) /\ call'[d] = call[d]
  <1> DEFINE k == Completing(m, proc[m][r], Ended(ok), <<"save", "txn">>)
  <1>1. proc[m][r] \in Nat /\ Ended(ok) \in Terminal
    BY DEF StateOK, ProcsOK, Ended, Terminal
  <1>2. Agenda(<<"save", "txn">>) /\ Head(<<"save", "txn">>) = "save" /\ <<"save", "txn">> # <<>>
    BY Agendas
  <1>3. GoodCall(k) /\ k.todo = <<"save", "txn">>
    BY <1>1, <1>2, CompletingOK
  <1>4. Start(<<m, r>>, k)
    BY DEF SubprocessEnds
  <1> HIDE DEF k
  <1>5. CallsOK' /\ Step(<<m, r>>)' = "save"
        /\ \A d \in Callers \ {<<m, r>>} : Step(d)' = Step(d) /\ call'[d] = call[d]
    BY <1>2, <1>3, <1>4, StartOK, Names DEF StateOK
  <1>6. 0 \in Nat /\ 0 <= r
    BY Numbers
  <1>7. ProcsOK'
    BY <1>6, ProcSet DEF ProcsOK, StateOK, SubprocessEnds
  <1>8. QED
    BY <1>5, <1>7, Frames DEF StateOK, SubprocessEnds, CountsOK, counters

LEMMA AgentCompleteTypes ==
  ASSUME StateOK, NEW c \in Callers, NEW ok \in BOOLEAN, AgentComplete(c, ok)
  PROVE  /\ CallsOK' /\ OursOK' /\ Step(c)' = "drain" /\ Step(c) = "none"
         /\ \A d \in Callers \ {c} : Step(d)' = Step(d) /\ call'[d] = call[d]
  <1>1. /\ working[1] \in ModelSet \cup {"none", "synthesis"} /\ working[2] \in Nat
        /\ Ended(ok) \in Terminal
    BY Names DEF StateOK, OursOK, Ended, Terminal
  <1>2. Agenda(AfterAgent(ok)) /\ AfterAgent(ok) # <<>> /\ Head(AfterAgent(ok)) = "drain"
    BY AfterAgentAgenda
  <1> DEFINE k == Completing(working[1], working[2], Ended(ok), AfterAgent(ok))
  <1>3. GoodCall(k) /\ k.todo = AfterAgent(ok)
    <2>1. ASSUME NEW m \in ModelSet \cup {"none", "synthesis"}, NEW e \in Nat,
                 NEW as \in Terminal, NEW t, Agenda(t), t # <<>>, Head(t) = "drain"
          PROVE  GoodCall(Completing(m, e, as, t))
      BY <2>1, CompletingOK
    <2>2. GoodCall(k)
      BY <1>1, <1>2, <2>1
    <2>3. k.todo = AfterAgent(ok)
      BY DEF Completing, NoCall
    <2>4. QED
      BY <2>2, <2>3
  <1>4. Start(c, k)
    BY DEF AgentComplete
  <1> HIDE DEF k
  <1>5. CallsOK' /\ Step(c)' = "drain" /\ Step(c) = "none"
        /\ \A d \in Callers \ {c} : Step(d)' = Step(d) /\ call'[d] = call[d]
    BY <1>2, <1>3, <1>4, StartOK DEF StateOK
  <1>6. OursOK'
    BY DEF StateOK, OursOK, AgentComplete
  <1>7. QED
    BY <1>5, <1>6

LEMMA ClaudeEndsTypes ==
  ASSUME StateOK, NEW r \in Rounds, NEW ok \in BOOLEAN, ClaudeEnds(r, ok)
  PROVE  StateOK'
  <1>1. 0 \in Nat /\ 0 <= r
    BY Numbers
  <1>2. ProcsOK'
    BY <1>1, ProcSet, Names DEF ProcsOK, StateOK, ClaudeEnds, AgentComplete
  <1>3. CallsOK' /\ OursOK'
    BY AgentCompleteTypes, Names DEF ClaudeEnds
  <1>4. QED
    BY <1>2, <1>3, Frames DEF StateOK, ClaudeEnds, AgentComplete, CountsOK, counters

LEMMA SynthEndsTypes ==
  ASSUME StateOK, NEW ok \in BOOLEAN, SynthEnds(ok)
  PROVE  StateOK'
  <1>1. ProcsOK'
    BY DEF ProcsOK, StateOK, SynthEnds, AgentComplete
  <1>2. CallsOK' /\ OursOK'
    BY AgentCompleteTypes, Names DEF SynthEnds
  <1>3. QED
    BY <1>1, <1>2, Frames DEF StateOK, SynthEnds, AgentComplete, CountsOK, counters

LEMMA ModelDiesTypes ==
  ASSUME StateOK, NEW m \in ModelSet, NEW r \in Rounds, ModelDies(m, r)
  PROVE  StateOK' /\ Step(<<m, r>>)' = "none"
         /\ \A d \in Callers \ {<<m, r>>} : Step(d)' = Step(d) /\ call'[d] = call[d]
  <1>1. 0 \in Nat /\ 0 <= r /\ <<m, r>> \in Callers
    BY Numbers, Names
  <1>2. ProcsOK'
    BY <1>1, ProcSet DEF ProcsOK, StateOK, ModelDies
  <1>3. CallsOK' /\ Step(<<m, r>>)' = "none"
        /\ \A d \in Callers \ {<<m, r>>} : Step(d)' = Step(d) /\ call'[d] = call[d]
    BY <1>1, NoCallOK, CallSet DEF StateOK, ModelDies
  <1>4. CountsOK'
    <2>1. faults' \in 0..MaxFaults
      BY FaultOK DEF StateOK, ModelDies
    <2>2. holes' \subseteq Holes
      BY DEF ModelDies, StateOK, CountsOK, Holes
    <2>3. QED
      BY <2>1, <2>2 DEF StateOK, CountsOK, ModelDies
  <1>5. QED
    BY <1>2, <1>3, <1>4, Frames DEF StateOK, ModelDies

LEMMA SynthDiesTypes ==
  ASSUME StateOK, SynthDies
  PROVE  StateOK'
  <1>1. ProcsOK'
    BY DEF ProcsOK, StateOK, SynthDies
  <1>2. CountsOK'
    <2>1. faults' \in 0..MaxFaults
      BY FaultOK DEF StateOK, SynthDies
    <2>2. holes' \subseteq Holes
      BY DEF SynthDies, StateOK, CountsOK, Holes
    <2>3. QED
      BY <2>1, <2>2 DEF StateOK, CountsOK, SynthDies
  <1>3. QED
    BY <1>1, <1>2, Frames DEF StateOK, SynthDies

(* A healer begins to mark entry e of model m failed.                        *)
LEMMA HealStart ==
  ASSUME CallsOK, NEW c \in Callers, NEW m \in ModelSet, NEW e \in Nat,
         NEW t \in {<<"save", "txn">>, <<"healmark">>, <<"txn">>},
         Start(c, Completing(m, e, "failed", t))
  PROVE  /\ CallsOK' /\ Step(c)' = Head(t) /\ Step(c) = "none"
         /\ call'[c] = Completing(m, e, "failed", t)
         /\ \A d \in Callers \ {c} : Step(d)' = Step(d) /\ call'[d] = call[d]
         /\ Step(c)' \in {"save", "healmark", "txn"}
  <1> DEFINE k == Completing(m, e, "failed", t)
  <1>1. "failed" \in Terminal
    BY DEF Terminal
  <1>2. Agenda(t) /\ t # <<>> /\ Head(t) \in {"save", "healmark", "txn"}
    BY Agendas DEF Steps
  <1> HIDE DEF k
  <1>3. GoodCall(k) /\ k.todo = t
    BY <1>1, <1>2, CompletingOK DEF k
  <1>4. Start(c, k)
    BY DEF k
  <1>5. call' = [call EXCEPT ![c] = k]
    BY <1>4 DEF Start
  <1>6. QED
    BY <1>2, <1>3, <1>4, <1>5, StartOK, CallSet DEF k

LEMMA HealTypes ==
  ASSUME StateOK, NEW c \in Healers, NEW m \in ModelSet, HealPid(c, m) \/ HealList(c, m)
  PROVE  /\ StateOK' /\ UNCHANGED <<ours, entries, proc, synths, disp, counters, holes>>
         /\ \/ UNCHANGED call
            \/ /\ Step(c)' \in {"save", "healmark"} /\ Step(c) = "none"
               /\ \A d \in Callers \ {c} : Step(d)' = Step(d) /\ call'[d] = call[d]
  <1>1. c \in Callers /\ sub[m].id \in Nat
    BY Names DEF StateOK, EntriesOK, SubEntry
  <1>2. UNCHANGED <<ours, entries, proc, synths, disp, counters, holes>>
    BY DEF HealPid, HealList, procs
  <1>3. CASE HealPid(c, m) /\ Working(m)
    <2>1. Start(c, Completing(m, sub[m].id, "failed", <<"save", "txn">>)) /\ UNCHANGED pid
      BY <1>3 DEF HealPid, MarkFailed
    <2>2. CallsOK' /\ Step(c)' = "save" /\ Step(c) = "none"
          /\ \A d \in Callers \ {c} : Step(d)' = Step(d) /\ call'[d] = call[d]
      BY <1>1, <2>1, HealStart, Agendas DEF StateOK
    <2>3. QED
      BY <1>2, <2>1, <2>2, Frames DEF StateOK, CountsOK, procs, counters
  <1>4. CASE HealPid(c, m) /\ ~Working(m)
    <2>1. UNCHANGED call /\ pid' = [pid EXCEPT ![m] = 0]
      BY <1>4 DEF HealPid
    <2>2. ProcsOK'
      BY <1>2, <2>1 DEF StateOK, ProcsOK
    <2>3. QED
      BY <1>2, <2>1, <2>2, Frames DEF StateOK, CountsOK, counters
  <1>5. CASE HealList(c, m)
    <2>1. Start(c, Completing(m, sub[m].id, "failed", <<"healmark">>)) /\ UNCHANGED procs
      BY <1>5 DEF HealList
    <2>2. CallsOK' /\ Step(c)' = "healmark" /\ Step(c) = "none"
          /\ \A d \in Callers \ {c} : Step(d)' = Step(d) /\ call'[d] = call[d]
      BY <1>1, <2>1, HealStart, Agendas DEF StateOK, Steps
    <2>3. QED
      BY <1>2, <2>1, <2>2, Frames DEF StateOK, CountsOK, counters
  <1>6. QED
    BY <1>3, <1>4, <1>5

LEMMA HealAgentTypes ==
  ASSUME StateOK, HealAgent
  PROVE  /\ StateOK'
         /\ \/ UNCHANGED call
            \/ /\ Step(Agent)' = "save" /\ Step(Agent) = "none"
               /\ \A d \in Callers \ {Agent} : Step(d)' = Step(d) /\ call'[d] = call[d]
  <1>1. OursOK'
    BY DEF StateOK, OursOK, HealAgent
  <1>2. UNCHANGED <<entries, procs, disp, counters, holes>>
    BY DEF HealAgent
  <1>3. CASE UNCHANGED call
    BY <1>1, <1>2, <1>3, Frames DEF StateOK, CountsOK, counters
  <1>4. CASE Start(Agent, MarkFailed(Claude, working[2]))
    <2>1. working[2] \in Nat
      BY DEF StateOK, OursOK
    <2>2. Start(Agent, Completing(Claude, working[2], "failed", <<"save", "txn">>))
      BY <1>4 DEF MarkFailed
    <2>3. CallsOK' /\ Step(Agent)' = "save" /\ Step(Agent) = "none"
          /\ \A d \in Callers \ {Agent} : Step(d)' = Step(d) /\ call'[d] = call[d]
      BY <2>1, <2>2, HealStart, Agendas, Names DEF StateOK
    <2>4. QED
      BY <1>1, <1>2, <2>3, Frames DEF StateOK, CountsOK, counters
  <1>5. QED
    BY <1>3, <1>4 DEF HealAgent

LEMMA UnpinTypes ==
  ASSUME StateOK, Unpin
  PROVE  StateOK' /\ Step(Cron)' = "drain" /\ Step(Cron) = "none"
         /\ \A d \in Callers \ {Cron} : Step(d)' = Step(d) /\ call'[d] = call[d]
  <1> DEFINE k == [NoCall EXCEPT !.todo = <<"drain">>]
  <1>1. Agenda(<<"drain">>) /\ <<"drain">> # <<>> /\ Head(<<"drain">>) = "drain"
        /\ ~HasSaves(<<"drain">>)
    BY Agendas DEF Steps, Ending, Saves
  <1>2. NoCall \in CallRecord /\ OneOfAKind(NoCall.ra.queue)
    BY NoCallOK DEF GoodCall
  <1>3. k \in CallRecord /\ k.todo = <<"drain">> /\ k.ra = NoCall.ra
    BY <1>1, <1>2 DEF CallRecord, Agenda
  <1> HIDE DEF k
  <1>4. GoodCall(k)
    BY <1>1, <1>2, <1>3 DEF GoodCall
  <1>5. Start(Cron, k)
    BY DEF Unpin, k
  <1>6. CallsOK' /\ Step(Cron)' = "drain" /\ Step(Cron) = "none"
        /\ \A d \in Callers \ {Cron} : Step(d)' = Step(d) /\ call'[d] = call[d]
    BY <1>1, <1>3, <1>4, <1>5, StartOK, Names DEF StateOK
  <1>7. OursOK'
    BY DataIs DEF StateOK, OursOK, Unpin
  <1>8. QED
    BY <1>6, <1>7, Frames DEF StateOK, Unpin, CountsOK, counters

LEMMA ReconcileTypes ==
  ASSUME StateOK, Reconcile
  PROVE  StateOK' /\ UNCHANGED <<ours, base, sub, synth, procs, disp, counters, holes>>
         /\ \/ UNCHANGED call
            \/ /\ Step(Cron)' = "enqueue" /\ Step(Cron) = "none"
               /\ \A d \in Callers \ {Cron} : Step(d)' = Step(d) /\ call'[d] = call[d]
  <1> DEFINE t == <<"enqueue", "drain">>
             item == Item("synthesize", {})
             k == [NoCall EXCEPT !.todo = t, !.item = item]
  <1>1. UNCHANGED <<ours, base, sub, synth, procs, disp, counters, holes>>
    BY DEF Reconcile
  <1>2. CASE Start(Cron, k) /\ UNCHANGED topic
    <2>1. Agenda(t) /\ t # <<>> /\ Head(t) = "enqueue" /\ ~HasSaves(t)
      BY Agendas
    <2>2. item \in Items
      BY NewDataOK
    <2> HIDE DEF t, item
    <2>3. GoodCall(k) /\ k.todo = t
      BY <2>1, <2>2, AskingOK
    <2> HIDE DEF k
    <2>4. CallsOK' /\ Step(Cron)' = "enqueue" /\ Step(Cron) = "none"
          /\ \A d \in Callers \ {Cron} : Step(d)' = Step(d) /\ call'[d] = call[d]
      BY <1>2, <2>1, <2>3, StartOK, Names DEF StateOK
    <2>5. UNCHANGED <<entries, round>>
      BY <1>1, <1>2 DEF entries, counters
    <2>6. QED
      BY <1>1, <2>4, <2>5, Frames DEF StateOK, CountsOK
  <1>3. CASE synth.status \in Terminal /\ topic' = synth.status /\ UNCHANGED call
    <2>1. EntriesOK'
      BY <1>1, <1>3 DEF StateOK, EntriesOK, counters
    <2>2. QED
      BY <1>1, <1>3, <2>1, Frames DEF StateOK, CountsOK, counters
  <1>4. QED
    BY <1>1, <1>2, <1>3 DEF Reconcile

(* ----------------------------- the dispatcher --------------------------- *)

(* The model it is at is one that it has still to do, the first of them.     *)
LEMMA NextModel ==
  ASSUME disp.todo \subseteq ModelSet, disp.todo # {}
  PROVE  Next1 \in disp.todo
  <1> DEFINE S == {i \in DOMAIN Models : Models[i] \in disp.todo}
  <1>1. S \subseteq Nat /\ DOMAIN Models = 1..Len(Models) /\ Len(Models) \in Nat
    BY ResearchAssumption, LenProperties DEF ResearchAssumption
  <1>2. S # {}
    BY ModelsAre
  <1>3. \E i \in S : \A j \in S : i <= j
    <2>1. IsWellFoundedOn(OpToRel(<, Nat), Nat)
      BY NatLessThanWellFounded
    <2>2. PICK i \in S : \A j \in S : ~ (<<j, i>> \in OpToRel(<, Nat))
      BY <1>1, <1>2, <2>1, WFMin
    <2>3. \A x, y \in Nat : <<y, x>> \in OpToRel(<, Nat) <=> y < x
      BY DEF OpToRel
    <2>4. \A j \in S : ~ (j < i)
      BY <1>1, <2>2, <2>3
    <2>5. QED
      BY <1>1, <2>4
  <1>4. \E i \in DOMAIN Models : IsNext(i)
    <2>1. PICK i \in S : \A j \in S : i <= j
      BY <1>3
    <2>2. \A j \in 1..(i - 1) : j \in DOMAIN Models /\ ~(i <= j)
      BY <1>1, <2>1
    <2>3. IsNext(i)
      BY <2>1, <2>2 DEF IsNext
    <2>4. QED
      BY <2>1, <2>3
  <1>5. IsNext(CHOOSE i \in DOMAIN Models : IsNext(i))
    BY <1>4
  <1>6. QED
    BY <1>5 DEF Next1, IsNext

(* In the loop there is such a model.                                        *)
LEMMA AtModel ==
  ASSUME DispOK, disp.at \in Loop
  PROVE  /\ disp.todo \subseteq ModelSet /\ Next1 \in disp.todo /\ Next1 \in ModelSet
         /\ disp.e \in Nat /\ disp.read \in BaseData /\ round \in Rounds
         /\ disp.put \in Statuses
  <1>1. PICK d \in Dispatching : d = disp
    BY DEF DispOK
  <1>2. /\ d.todo \subseteq ModelSet /\ d.e \in Nat /\ d.read \in BaseData
        /\ d.put \in {"none", "launching", "active", "failed"}
    BY DEF Dispatching
  <1>3. disp.todo # {} /\ round \in Rounds
    BY DEF DispOK
  <1>4. Next1 \in disp.todo
    BY <1>1, <1>2, <1>3, NextModel
  <1>5. QED
    BY <1>1, <1>2, <1>3, <1>4 DEF Statuses, Terminal

LEMMA NoDispatchOK ==
    /\ NoDispatch \in Dispatching /\ OneOfAKind(NoDispatch.ra.queue)
    /\ NoDispatch.at = "idle" /\ NoDispatch.e = 0 /\ NoDispatch.agent = FALSE
  BY NewDataOK DEF NoDispatch, Dispatching, GoodData

(* The copy of the action that a dispatch holds is as good as the action.    *)
LEMMA HeldOK ==
  ASSUME DispOK
  PROVE  /\ disp \in Dispatching /\ disp.ra \in ActionData /\ GoodData(disp.ra)
         /\ GoodData(Without(disp.ra)) /\ disp.e \in Nat /\ disp.agent \in BOOLEAN
         /\ disp.failed \subseteq ModelSet \X Nat
  <1>1. disp \in Dispatching /\ OneOfAKind(disp.ra.queue)
    BY DEF DispOK
  <1>2. /\ disp.ra \in ActionData /\ disp.e \in Nat /\ disp.agent \in BOOLEAN
        /\ disp.failed \subseteq ModelSet \X Nat
    BY <1>1 DEF Dispatching
  <1>3. GoodData(disp.ra)
    BY <1>1, <1>2 DEF GoodData
  <1>4. QED
    BY <1>1, <1>2, <1>3, DataIs

LEMMA ListDueTypes ==
  ASSUME StateOK, ListDue
  PROVE  StateOK'
  <1>1. disp' = [NoDispatch EXCEPT !.at = "execute", !.ra = ra]
    BY DEF ListDue
  <1>2. ra \in ActionData /\ OneOfAKind(ra.queue) /\ ra.target # Nothing
    BY DEF StateOK, OursOK, GoodData, ListDue
  <1>3. /\ disp' \in Dispatching /\ disp'.ra = ra /\ disp'.e = 0 /\ disp'.at = "execute"
    BY <1>1, <1>2, NoDispatchOK DEF Dispatching
  <1>4. round' = round /\ round \in Nat
    BY Numbers DEF ListDue, counters, StateOK, CountsOK
  <1>5. DispOK'
    BY <1>2, <1>3, <1>4 DEF DispOK, Loop
  <1>6. holes' \subseteq Holes
    BY HolesOK DEF ListDue, StateOK, CountsOK, Holes
  <1>7. QED
    BY <1>5, <1>6, Frames DEF StateOK, ListDue, counters

LEMMA ExecuteTypes ==
  ASSUME StateOK, Execute
  PROVE  StateOK'
  <1>1. /\ disp \in Dispatching /\ OneOfAKind(disp.ra.queue) /\ disp.e <= round
        /\ disp.at = "execute" /\ disp.ra.target # Nothing
    BY DEF StateOK, DispOK, Execute, DispAt
  <1>2. OursOK'
    BY DEF StateOK, OursOK, Execute
  <1>3. round \in Nat /\ disp.e \in Nat
    BY Numbers, HeldOK DEF StateOK, CountsOK
  <1>4. disp.ra.target \in {Nothing, Topic} \cup Syntheses
    BY HeldOK, DataIs DEF StateOK
  <1>5. /\ DispOK' /\ round' \in {0} \cup Rounds /\ round <= round'
    <2>1. CASE disp.ra.target # Topic
      <3>1. disp' = [disp EXCEPT !.at = "synth"] /\ round' = round
        BY <2>1 DEF Execute
      <3>2. disp' \in Dispatching /\ disp'.ra = disp.ra /\ disp'.e = disp.e /\ disp'.at = "synth"
        BY <1>1, <3>1 DEF Dispatching
      <3>3. QED
        BY <1>1, <1>3, <1>4, <2>1, <3>1, <3>2 DEF DispOK, StateOK, CountsOK, Loop
    <2>2. CASE disp.ra.target = Topic /\ ToRun = {}
      <3>1. disp' = [disp EXCEPT !.at = "end"] /\ round' = round
        BY <2>2 DEF Execute
      <3>2. disp' \in Dispatching /\ disp'.ra = disp.ra /\ disp'.e = disp.e /\ disp'.at = "end"
        BY <1>1, <3>1 DEF Dispatching
      <3>3. QED
        BY <1>1, <1>3, <3>1, <3>2 DEF DispOK, StateOK, CountsOK, Loop
    <2>3. CASE disp.ra.target = Topic /\ ToRun # {}
      <3>1. disp' = [disp EXCEPT !.at = "sub", !.todo = ToRun]
            /\ round' = round + 1 /\ round + 1 \in Rounds
        BY <2>3 DEF Execute
      <3>2. ToRun \subseteq ModelSet
        BY DEF ToRun
      <3>3. /\ disp' \in Dispatching /\ disp'.ra = disp.ra /\ disp'.e = disp.e
            /\ disp'.at = "sub" /\ disp'.todo = ToRun
        BY <1>1, <3>1, <3>2 DEF Dispatching, Loop
      <3>4. QED
        BY <1>1, <1>3, <2>3, <3>1, <3>3 DEF DispOK, Loop
    <2>4. QED
      BY <2>1, <2>2, <2>3
  <1>6. EntriesOK'
    <2>1. \A m \in ModelSet : sub[m].id \in Nat /\ sub[m].id <= round
      BY DEF StateOK, EntriesOK, SubEntry
    <2>2. round' \in Nat
      BY <1>5, Numbers
    <2>3. QED
      BY <1>3, <1>5, <2>1, <2>2 DEF StateOK, EntriesOK, Execute, entries
  <1>7. QED
    BY <1>2, <1>5, <1>6, Frames DEF StateOK, Execute, CountsOK

LEMMA LaunchSynthTargetTypes ==
  ASSUME StateOK, LaunchSynthTarget
  PROVE  StateOK'
  <1>1. disp.at = "synth" /\ disp.ra.target \in Syntheses /\ disp \in Dispatching
    BY DEF StateOK, DispOK, LaunchSynthTarget, DispAt
  <1>2. OursOK'
    BY <1>1, HeldOK, DispatchAIOK DEF StateOK, LaunchSynthTarget
  <1>3. ProcsOK'
    BY DEF StateOK, ProcsOK, LaunchSynthTarget
  <1>4. disp' = [disp EXCEPT !.at = "last", !.agent = TRUE]
    BY DEF LaunchSynthTarget
  <1>5. disp' \in Dispatching /\ disp'.ra = disp.ra /\ disp'.e = disp.e /\ disp'.at = "last"
    BY <1>1, <1>4 DEF Dispatching
  <1>6. DispOK'
    BY <1>5 DEF StateOK, DispOK, LaunchSynthTarget, Loop, counters
  <1>7. QED
    BY <1>2, <1>3, <1>6, Frames DEF StateOK, LaunchSynthTarget, CountsOK, counters

(* Another sub-entry of the model the dispatcher is at.                      *)
LEMMA SubSet ==
  ASSUME EntriesOK, NEW m \in ModelSet, NEW s \in SubEntry, s.id <= round,
         sub' = [sub EXCEPT ![m] = s], round' = round,
         UNCHANGED <<topic, base, synth>>
  PROVE  EntriesOK' /\ sub'[m] = s /\ \A n \in ModelSet \ {m} : sub'[n] = sub[n]
  BY DEF EntriesOK

LEMMA SubStatus ==
  ASSUME EntriesOK, NEW m \in ModelSet, NEW st \in {"active"} \cup Terminal,
         sub' = [sub EXCEPT ![m].status = st], round' = round,
         UNCHANGED <<topic, base, synth>>
  PROVE  EntriesOK' /\ sub'[m].id = sub[m].id /\ sub'[m].status = st
         /\ \A n \in ModelSet \ {m} : sub'[n] = sub[n]
  <1> DEFINE s == [sub[m] EXCEPT !.status = st]
  <1>1. sub[m] \in SubEntry /\ sub[m].id <= round
    BY DEF EntriesOK
  <1>2. s \in SubEntry /\ s.id = sub[m].id /\ s.status = st
    BY <1>1 DEF SubEntry
  <1>3. sub' = [sub EXCEPT ![m] = s]
    OBVIOUS
  <1> HIDE DEF s
  <1>4. QED
    BY <1>1, <1>2, <1>3, SubSet

LEMMA MakeSubTypes ==
  ASSUME StateOK, MakeSub
  PROVE  StateOK'
  <1> DEFINE s == [status |-> "launching",
                   id |-> IF sub[Next1].id = 0 THEN round ELSE sub[Next1].id]
  <1>1. disp.at \in Loop /\ disp \in Dispatching /\ OneOfAKind(disp.ra.queue)
    BY DEF StateOK, DispOK, MakeSub, DispAt, Loop
  <1>2. Next1 \in ModelSet /\ Next1 \in disp.todo /\ round \in Rounds
    BY <1>1, AtModel DEF StateOK
  <1>3. sub[Next1] \in SubEntry /\ sub[Next1].id <= round /\ sub \in [ModelSet -> SubEntry]
    BY <1>2 DEF StateOK, EntriesOK
  <1>4. s \in SubEntry /\ s.id <= round /\ s.id \in Nat
    BY <1>2, <1>3, Numbers DEF SubEntry
  <1>5. sub' = [sub EXCEPT ![Next1] = s]
    BY <1>2, <1>3 DEF MakeSub
  <1>6. disp' = [disp EXCEPT !.at = "read", !.e = sub'[Next1].id, !.put = "launching"]
    BY DEF MakeSub
  <1>7. PICK m \in ModelSet : m = Next1
    BY <1>2
  <1> HIDE DEF s
  <1>8. EntriesOK' /\ sub'[Next1] = s
    BY <1>4, <1>5, <1>7, SubSet DEF StateOK, MakeSub, counters
  <1>9. /\ disp' \in Dispatching /\ disp'.ra = disp.ra /\ disp'.e = s.id /\ disp'.at = "read"
        /\ disp'.todo = disp.todo
    BY <1>1, <1>4, <1>6, <1>8 DEF Dispatching, Loop
  <1>10. DispOK'
    BY <1>1, <1>2, <1>4, <1>9 DEF DispOK, MakeSub, counters
  <1>11. QED
    BY <1>8, <1>10, Frames DEF StateOK, MakeSub, CountsOK, counters

LEMMA ReadBaseTypes ==
  ASSUME StateOK, ReadBase
  PROVE  StateOK'
  <1>1. disp.at \in Loop /\ disp \in Dispatching /\ base \in BaseData
    BY DEF StateOK, DispOK, EntriesOK, ReadBase, DispAt, Loop
  <1>2. disp' = [disp EXCEPT !.at = "write", !.read = base]
    BY DEF ReadBase
  <1>3. /\ disp' \in Dispatching /\ disp'.ra = disp.ra /\ disp'.e = disp.e
        /\ disp'.todo = disp.todo
    BY <1>1, <1>2 DEF Dispatching, Loop
  <1>4. DispOK'
    BY <1>1, <1>2, <1>3 DEF StateOK, DispOK, ReadBase, counters, Loop, Dispatching
  <1>5. QED
    BY <1>4, Frames DEF StateOK, ReadBase, CountsOK, counters

LEMMA WriteBaseTypes ==
  ASSUME StateOK, WriteBase
  PROVE  StateOK'
  <1>1. disp.at = "write" /\ disp \in Dispatching /\ OneOfAKind(disp.ra.queue) /\ disp.e <= round
    BY DEF StateOK, DispOK, WriteBase, DispAt
  <1>2. /\ Next1 \in ModelSet /\ Next1 \in disp.todo /\ disp.todo \subseteq ModelSet
        /\ disp.read \in BaseData /\ disp.put \in Statuses /\ round \in Rounds
    BY <1>1, AtModel DEF StateOK, Loop
  <1>3. base' \in BaseData
    BY <1>2, BaseIs DEF WriteBase
  <1>4. EntriesOK'
    BY <1>3 DEF StateOK, EntriesOK, WriteBase, counters
  <1>5. DispOK'
    <2>1. CASE disp.put = "launching"
      <3>1. disp' = [disp EXCEPT !.at = "launch", !.read = NewBase]
        BY <2>1 DEF WriteBase
      <3>2. /\ disp' \in Dispatching /\ disp'.ra = disp.ra /\ disp'.e = disp.e
            /\ disp'.todo = disp.todo /\ disp'.at = "launch"
        BY <1>1, <3>1, NewDataOK DEF Dispatching, Loop
      <3>3. QED
        BY <1>1, <1>2, <3>2 DEF DispOK, WriteBase, counters
    <2>2. CASE disp.put # "launching"
      <3> DEFINE rest == disp.todo \ {Next1}
      <3>1. disp' = [disp EXCEPT !.at = IF rest = {} THEN "fails" ELSE "sub",
                                 !.todo = rest, !.e = 0, !.put = "none", !.read = NewBase]
        BY <2>2 DEF WriteBase, AfterModel
      <3>2. rest \in SUBSET ModelSet
        BY <1>2
      <3> HIDE DEF rest
      <3>3. /\ disp' \in Dispatching /\ disp'.ra = disp.ra /\ disp'.e = 0 /\ disp'.todo = rest
            /\ disp'.at = IF rest = {} THEN "fails" ELSE "sub"
        BY <1>1, <3>1, <3>2, NewDataOK DEF Dispatching, Loop
      <3>4. round' = round /\ round \in Rounds /\ 0 <= round
        BY <1>2, Numbers DEF WriteBase, counters
      <3>5. QED
        BY <1>1, <3>3, <3>4 DEF DispOK, Loop
    <2>3. QED
      BY <2>1, <2>2
  <1>6. QED
    BY <1>4, <1>5, Frames DEF StateOK, WriteBase, CountsOK, counters

LEMMA EntryTarget ==
  ASSUME DispOK, disp.at \in Loop, Next1 = Claude,
         DispatchAI([disp.ra EXCEPT !.target = Entry1])
  PROVE  OursOK' /\ ra' = Without(disp.ra) /\ running' = TRUE
  <1> DEFINE copy == [disp.ra EXCEPT !.target = Entry1]
  <1>1. disp.ra \in ActionData /\ disp.e \in Nat /\ GoodData(Without(disp.ra))
    BY HeldOK
  <1>2. copy.target = <<Claude, disp.e>> /\ Without(copy) = Without(disp.ra)
    BY <1>1 DEF Entry1, Without, ActionData
  <1> HIDE DEF copy
  <1>3. running' = TRUE /\ working' = <<Claude, disp.e>> /\ ra' = Without(disp.ra)
    BY <1>2 DEF DispatchAI, copy
  <1>4. QED
    BY <1>1, <1>3 DEF OursOK

LEMMA LaunchClaudeTypes ==
  ASSUME StateOK, LaunchClaude
  PROVE  StateOK'
  <1>1. disp.at = "launch" /\ disp \in Dispatching /\ OneOfAKind(disp.ra.queue) /\ disp.e <= round
    BY DEF StateOK, DispOK, LaunchClaude, DispAt
  <1>2. round \in Rounds /\ disp.e \in Nat /\ Next1 = Claude
    BY <1>1, AtModel DEF StateOK, Loop, LaunchClaude
  <1>3. OursOK'
    BY <1>1, EntryTarget DEF StateOK, LaunchClaude, Loop
  <1>4. ProcsOK'
    BY <1>1, <1>2, ProcSet, Names DEF StateOK, ProcsOK, LaunchClaude
  <1>5. disp' = [disp EXCEPT !.at = "mark", !.agent = TRUE]
    BY DEF LaunchClaude
  <1>6. /\ disp' \in Dispatching /\ disp'.ra = disp.ra /\ disp'.e = disp.e
        /\ disp'.todo = disp.todo /\ disp'.at = "mark"
    BY <1>1, <1>5 DEF Dispatching, Loop
  <1>7. DispOK'
    BY <1>1, <1>6 DEF StateOK, DispOK, LaunchClaude, counters, Loop
  <1>8. QED
    BY <1>3, <1>4, <1>7, Frames DEF StateOK, LaunchClaude, CountsOK, counters

LEMMA LaunchSubprocessTypes ==
  ASSUME StateOK, LaunchSubprocess
  PROVE  StateOK'
  <1>1. disp.at = "launch" /\ disp \in Dispatching /\ OneOfAKind(disp.ra.queue) /\ disp.e <= round
    BY DEF StateOK, DispOK, LaunchSubprocess, DispAt
  <1>2. round \in Rounds /\ disp.e \in Nat /\ Next1 \in ModelSet
    BY <1>1, AtModel DEF StateOK, Loop
  <1>3. EntriesOK' /\ ProcsOK'
    <2>1. CASE EntryLives
      <3>1. sub' = [sub EXCEPT ![Next1].status = "active"] /\ proc' = [proc EXCEPT ![Next1][round] = disp.e]
            /\ round' = round /\ UNCHANGED <<topic, base, synth, pid, synths>>
        BY <2>1 DEF LaunchSubprocess, counters
      <3>2. PICK m \in ModelSet : m = Next1
        BY <1>2
      <3>3. EntriesOK'
        BY <3>1, <3>2, SubStatus DEF StateOK
      <3>4. ProcsOK'
        BY <1>1, <1>2, <3>1, <3>2, ProcSet DEF StateOK, ProcsOK
      <3>5. QED
        BY <3>3, <3>4
    <2>2. CASE ~EntryLives
      BY <2>2 DEF StateOK, EntriesOK, ProcsOK, LaunchSubprocess, counters
    <2>3. QED
      BY <2>1, <2>2
  <1>4. disp' = [disp EXCEPT !.at = "pid"]
    BY DEF LaunchSubprocess
  <1>5. /\ disp' \in Dispatching /\ disp'.ra = disp.ra /\ disp'.e = disp.e
        /\ disp'.todo = disp.todo /\ disp'.at = "pid"
    BY <1>1, <1>4 DEF Dispatching, Loop
  <1>6. DispOK'
    BY <1>1, <1>5 DEF StateOK, DispOK, LaunchSubprocess, counters, Loop
  <1>7. QED
    BY <1>3, <1>6, Frames DEF StateOK, LaunchSubprocess, CountsOK, counters

LEMMA RecordPidTypes ==
  ASSUME StateOK, RecordPid
  PROVE  StateOK'
  <1>1. disp.at = "pid" /\ disp \in Dispatching /\ OneOfAKind(disp.ra.queue) /\ disp.e <= round
    BY DEF StateOK, DispOK, RecordPid, DispAt
  <1>2. round \in Rounds /\ Next1 \in ModelSet
    BY <1>1, AtModel DEF StateOK, Loop
  <1>3. ProcsOK'
    BY <1>2 DEF StateOK, ProcsOK, RecordPid
  <1>4. disp' = [disp EXCEPT !.at = "mark"]
    BY DEF RecordPid
  <1>5. /\ disp' \in Dispatching /\ disp'.ra = disp.ra /\ disp'.e = disp.e
        /\ disp'.todo = disp.todo /\ disp'.at = "mark"
    BY <1>1, <1>4 DEF Dispatching, Loop
  <1>6. DispOK'
    BY <1>1, <1>5 DEF StateOK, DispOK, RecordPid, counters, Loop
  <1>7. QED
    BY <1>3, <1>6, Frames DEF StateOK, RecordPid, CountsOK, counters

LEMMA LaunchFailsTypes ==
  ASSUME StateOK, LaunchFails
  PROVE  StateOK'
  <1>1. disp.at = "launch" /\ disp \in Dispatching /\ OneOfAKind(disp.ra.queue) /\ disp.e <= round
    BY DEF StateOK, DispOK, LaunchFails, DispAt
  <1>2. Next1 \in ModelSet /\ disp.e \in Nat /\ round' = round
    BY <1>1, AtModel DEF StateOK, Loop, LaunchFails
  <1>3. OursOK'
    <2>1. CASE Next1 = Claude
      BY <1>1, <2>1, EntryTarget DEF StateOK, LaunchFails, Loop
    <2>2. CASE Next1 # Claude
      BY <2>2, Frames DEF StateOK, LaunchFails
    <2>3. QED
      BY <2>1, <2>2
  <1>4. EntriesOK'
    <2>1. CASE sub' = [sub EXCEPT ![Next1].status = "failed"]
      <3>1. PICK m \in ModelSet : m = Next1
        BY <1>2
      <3>2. "failed" \in {"active"} \cup Terminal
        BY DEF Terminal
      <3>3. QED
        BY <1>2, <2>1, <3>1, <3>2, SubStatus DEF StateOK, LaunchFails
    <2>2. CASE sub' = sub
      BY <1>2, <2>2 DEF StateOK, EntriesOK, LaunchFails
    <2>3. QED
      BY <2>1, <2>2 DEF LaunchFails
  <1>5. disp' = [disp EXCEPT !.at = "read", !.put = "failed", !.failed = disp.failed \cup {Entry1}]
    BY <1>1 DEF LaunchFails, Dispatching
  <1>6. disp.failed \cup {Entry1} \in SUBSET (ModelSet \X Nat)
    BY <1>2, HeldOK DEF StateOK, Entry1
  <1>7. /\ disp' \in Dispatching /\ disp'.ra = disp.ra /\ disp'.e = disp.e
        /\ disp'.todo = disp.todo /\ disp'.at = "read"
    BY <1>1, <1>5, <1>6 DEF Dispatching, Loop
  <1>8. DispOK'
    BY <1>1, <1>2, <1>7 DEF StateOK, DispOK, Loop
  <1>9. CountsOK'
    BY FaultOK DEF StateOK, CountsOK, LaunchFails
  <1>10. QED
    BY <1>3, <1>4, <1>8, <1>9, Frames DEF StateOK, LaunchFails

LEMMA MarkActiveTypes ==
  ASSUME StateOK, MarkActive
  PROVE  StateOK'
  <1>1. disp.at = "mark" /\ disp \in Dispatching /\ OneOfAKind(disp.ra.queue) /\ disp.e <= round
    BY DEF StateOK, DispOK, MarkActive, DispAt
  <1>2. Next1 \in ModelSet /\ round' = round
    BY <1>1, AtModel DEF StateOK, Loop, MarkActive, counters
  <1>3. EntriesOK'
    <2>1. CASE sub' = [sub EXCEPT ![Next1].status = "active"]
      <3>1. PICK m \in ModelSet : m = Next1
        BY <1>2
      <3>2. QED
        BY <1>2, <2>1, <3>1, SubStatus DEF StateOK, MarkActive
    <2>2. CASE sub' = sub
      BY <1>2, <2>2 DEF StateOK, EntriesOK, MarkActive
    <2>3. QED
      BY <2>1, <2>2 DEF MarkActive
  <1>4. disp' = [disp EXCEPT !.at = "read", !.put = "active"]
    BY DEF MarkActive
  <1>5. /\ disp' \in Dispatching /\ disp'.ra = disp.ra /\ disp'.e = disp.e
        /\ disp'.todo = disp.todo /\ disp'.at = "read"
    BY <1>1, <1>4 DEF Dispatching, Loop
  <1>6. DispOK'
    BY <1>1, <1>2, <1>5 DEF StateOK, DispOK, Loop
  <1>7. QED
    BY <1>3, <1>6, Frames DEF StateOK, MarkActive, CountsOK, counters

LEMMA CompleteFailedTypes ==
  ASSUME StateOK, CompleteFailed
  PROVE  /\ StateOK' /\ UNCHANGED <<ours, entries, procs, counters, holes>>
         /\ \/ UNCHANGED call
            \/ /\ Step(Agent)' = "txn" /\ Step(Agent) = "none"
               /\ \A d \in Callers \ {Agent} : Step(d)' = Step(d) /\ call'[d] = call[d]
  <1>1. disp.at = "fails" /\ disp \in Dispatching /\ OneOfAKind(disp.ra.queue) /\ disp.e <= round
    BY DEF StateOK, DispOK, CompleteFailed, DispAt
  <1>2. UNCHANGED <<ours, entries, procs, counters, holes>>
    BY DEF CompleteFailed
  <1>3. CASE disp' = [disp EXCEPT !.at = "end"] /\ UNCHANGED call
    <2>1. disp' \in Dispatching /\ disp'.ra = disp.ra /\ disp'.e = disp.e /\ disp'.at = "end"
      BY <1>1, <1>3 DEF Dispatching
    <2>2. DispOK'
      BY <1>1, <1>2, <2>1 DEF DispOK, counters, Loop
    <2>3. QED
      BY <1>2, <1>3, <2>2, Frames DEF StateOK, CountsOK, counters
  <1>4. CASE \E f \in disp.failed :
                /\ disp' = [disp EXCEPT !.failed = @ \ {f}]
                /\ Start(Agent, Completing(f[1], f[2], "failed", <<"txn">>))
    <2>1. PICK f \in disp.failed :
                /\ disp' = [disp EXCEPT !.failed = @ \ {f}]
                /\ Start(Agent, Completing(f[1], f[2], "failed", <<"txn">>))
      BY <1>4
    <2>2. disp.failed \subseteq ModelSet \X Nat
      BY HeldOK DEF StateOK
    <2>3. f[1] \in ModelSet /\ f[2] \in Nat /\ disp.failed \ {f} \in SUBSET (ModelSet \X Nat)
      BY <2>2
    <2>4. disp' \in Dispatching /\ disp'.ra = disp.ra /\ disp'.e = disp.e /\ disp'.at = "fails"
      BY <1>1, <2>1, <2>3 DEF Dispatching
    <2>5. DispOK'
      BY <1>1, <1>2, <2>4 DEF DispOK, counters, Loop
    <2>6. CallsOK' /\ Step(Agent)' = "txn" /\ Step(Agent) = "none"
          /\ \A d \in Callers \ {Agent} : Step(d)' = Step(d) /\ call'[d] = call[d]
      BY <2>1, <2>3, HealStart, Agendas, Names DEF StateOK, Steps
    <2>7. QED
      BY <1>2, <2>5, <2>6, Frames DEF StateOK, CountsOK, counters
  <1>5. QED
    BY <1>3, <1>4 DEF CompleteFailed

LEMMA EndDispatchTypes ==
  ASSUME StateOK, EndDispatch
  PROVE  StateOK'
  <1>1. disp.at = "end" /\ disp \in Dispatching /\ OneOfAKind(disp.ra.queue) /\ disp.e <= round
    BY DEF StateOK, DispOK, EndDispatch, DispAt
  <1>2. OursOK'
    BY HeldOK DEF StateOK, OursOK, EndDispatch
  <1>3. disp' = [disp EXCEPT !.at = "last"]
    BY DEF EndDispatch
  <1>4. disp' \in Dispatching /\ disp'.ra = disp.ra /\ disp'.e = disp.e /\ disp'.at = "last"
    BY <1>1, <1>3 DEF Dispatching
  <1>5. DispOK'
    BY <1>1, <1>4 DEF DispOK, EndDispatch, counters, Loop
  <1>6. QED
    BY <1>2, <1>5, Frames DEF StateOK, EndDispatch, CountsOK, counters

LEMMA LastRunTypes ==
  ASSUME StateOK, LastRun
  PROVE  StateOK'
  <1>1. GoodData(Without(disp.ra)) /\ disp.agent \in BOOLEAN
    BY HeldOK DEF StateOK
  <1>2. OursOK'
    BY <1>1 DEF StateOK, OursOK, LastRun
  <1>3. 0 <= round' /\ round' = round
    BY Numbers DEF StateOK, CountsOK, LastRun, counters
  <1>4. DispOK'
    BY <1>3, NoDispatchOK DEF DispOK, LastRun, Loop
  <1>5. QED
    BY <1>2, <1>4, Frames DEF StateOK, LastRun, CountsOK, counters

(* ------------------------------ every step ------------------------------ *)

LEMMA TurnOK ==
  ASSUME TurnsOK, NEW c \in Callers, Turn(c)
  PROVE  TurnsOK'
  <1>1. turn' \in Callers \cup {Nobody}
    BY DEF Turn
  <1>2. races' \in 0..MaxRaces
    BY Numbers DEF Turn, TurnsOK
  <1>3. QED
    BY <1>1, <1>2 DEF TurnsOK

LEMMA CallStepTypes ==
  ASSUME StateOK, NEW c \in Callers, CallStep(c)
  PROVE  StateOK'
  <1>1. CASE Enqueue(c)             BY <1>1, EnqueueTypes
  <1>2. CASE Drain(c)               BY <1>2, DrainTypes
  <1>3. CASE Pop(c)                 BY <1>3, PopTypes
  <1>4. CASE DispatchRun(c)         BY <1>4, DispatchRunTypes
  <1>5. CASE DispatchRerun(c)       BY <1>5, DispatchRerunTypes
  <1>6. CASE DispatchSynthesize(c)  BY <1>6, DispatchSynthesizeTypes
  <1>7. CASE LaunchSynthesis(c)     BY <1>7, LaunchSynthesisTypes
  <1>8. CASE SaveEntry(c)           BY <1>8, SaveEntryTypes
  <1>9. CASE Complete(c)            BY <1>9, CompleteTypes
  <1>10. CASE Trigger(c)            BY <1>10, TriggerTypes
  <1>11. CASE Publish(c)            BY <1>11, PublishTypes
  <1>12. CASE HealMark(c)           BY <1>12, HealMarkTypes
  <1>13. QED
    BY <1>1, <1>2, <1>3, <1>4, <1>5, <1>6, <1>7, <1>8, <1>9, <1>10, <1>11, <1>12 DEF CallStep

LEMMA DispatchTypes ==
  ASSUME StateOK, Dispatch
  PROVE  StateOK'
  <1>1. CASE Execute            BY <1>1, ExecuteTypes
  <1>2. CASE LaunchSynthTarget  BY <1>2, LaunchSynthTargetTypes
  <1>3. CASE MakeSub            BY <1>3, MakeSubTypes
  <1>4. CASE ReadBase           BY <1>4, ReadBaseTypes
  <1>5. CASE WriteBase          BY <1>5, WriteBaseTypes
  <1>6. CASE LaunchClaude       BY <1>6, LaunchClaudeTypes
  <1>7. CASE LaunchSubprocess   BY <1>7, LaunchSubprocessTypes
  <1>8. CASE RecordPid          BY <1>8, RecordPidTypes
  <1>9. CASE LaunchFails        BY <1>9, LaunchFailsTypes
  <1>10. CASE MarkActive        BY <1>10, MarkActiveTypes
  <1>11. CASE CompleteFailed    BY <1>11, CompleteFailedTypes
  <1>12. CASE EndDispatch       BY <1>12, EndDispatchTypes
  <1>13. CASE LastRun           BY <1>13, LastRunTypes
  <1>14. QED
    BY <1>1, <1>2, <1>3, <1>4, <1>5, <1>6, <1>7, <1>8, <1>9, <1>10, <1>11, <1>12, <1>13
       DEF Dispatch

(* The steps of Next, one by one, each with the thread that has its turn.    *)
LEMMA StepsOf ==
  ASSUME Next
  PROVE  \/ \E c \in Callers : CallStep(c)
         \/ \E item \in Items : Request(item)
         \/ ListDue
         \/ Dispatch
         \/ HealAgent
         \/ \E c \in Healers, m \in ModelSet : HealPid(c, m) \/ HealList(c, m)
         \/ Unpin
         \/ Reconcile
         \/ \E m \in ModelSet, r \in Rounds, ok \in BOOLEAN : SubprocessEnds(m, r, ok)
         \/ \E r \in Rounds, ok \in BOOLEAN : ClaudeEnds(r, ok)
         \/ \E ok \in BOOLEAN : SynthEnds(ok)
         \/ \E m \in ModelSet, r \in Rounds : ModelDies(m, r)
         \/ SynthDies
  BY DEF Next, Heal, Ends

LEMMA Turns ==
  ASSUME Next
  PROVE  \E c \in Callers : Turn(c)
  <1>1. \A m \in ModelSet, r \in Rounds : <<m, r>> \in Callers
    BY Names
  <1>2. Web \in Callers /\ Agent \in Callers /\ Cron \in Callers /\ Synth \in Callers
        /\ Healers \subseteq Callers
    BY Names
  <1>3. QED
    BY <1>1, <1>2 DEF Next

LEMMA NextTypes ==
  ASSUME ResearchInv, [Next]_vars
  PROVE  ResearchInv'
  <1>1. StateOK /\ TurnsOK
    BY DEF ResearchInv
  <1>2. CASE UNCHANGED vars
    <2>1. UNCHANGED <<ours, entries, procs, disp, call, counters, races, turn, holes>>
      BY <1>2 DEF vars, sched
    <2>2. TurnsOK'
      BY <1>1, <2>1 DEF TurnsOK
    <2>3. UNCHANGED <<entries, round>> /\ UNCHANGED <<disp, round>> /\ holes' \subseteq Holes
      BY <1>1, <2>1 DEF counters, StateOK, CountsOK
    <2>4. QED
      BY <1>1, <2>1, <2>2, <2>3, Frames DEF StateOK, ResearchInv
  <1>3. CASE Next
    <2>1. TurnsOK'
      BY <1>1, <1>3, Turns, TurnOK
    <2>2. StateOK'
      <3>1. CASE \E c \in Callers : CallStep(c)
        BY <1>1, <3>1, CallStepTypes
      <3>2. CASE \E item \in Items : Request(item)
        BY <1>1, <3>2, RequestTypes
      <3>3. CASE ListDue
        BY <1>1, <3>3, ListDueTypes
      <3>4. CASE Dispatch
        BY <1>1, <3>4, DispatchTypes
      <3>5. CASE HealAgent
        BY <1>1, <3>5, HealAgentTypes
      <3>6. CASE \E c \in Healers, m \in ModelSet : HealPid(c, m) \/ HealList(c, m)
        BY <1>1, <3>6, HealTypes
      <3>7. CASE Unpin
        BY <1>1, <3>7, UnpinTypes
      <3>8. CASE Reconcile
        BY <1>1, <3>8, ReconcileTypes
      <3>9. CASE \E m \in ModelSet, r \in Rounds, ok \in BOOLEAN : SubprocessEnds(m, r, ok)
        BY <1>1, <3>9, SubprocessEndsTypes
      <3>10. CASE \E r \in Rounds, ok \in BOOLEAN : ClaudeEnds(r, ok)
        BY <1>1, <3>10, ClaudeEndsTypes
      <3>11. CASE \E ok \in BOOLEAN : SynthEnds(ok)
        BY <1>1, <3>11, SynthEndsTypes
      <3>12. CASE \E m \in ModelSet, r \in Rounds : ModelDies(m, r)
        BY <1>1, <3>12, ModelDiesTypes
      <3>13. CASE SynthDies
        BY <1>1, <3>13, SynthDiesTypes
      <3>14. QED
        BY <1>3, <3>1, <3>2, <3>3, <3>4, <3>5, <3>6, <3>7, <3>8, <3>9, <3>10, <3>11, <3>12, <3>13, StepsOf
    <2>3. QED
      BY <2>1, <2>2 DEF ResearchInv
  <1>4. QED
    BY <1>2, <1>3

LEMMA InitTypes == Init => ResearchInv
  <1> SUFFICES ASSUME Init PROVE ResearchInv
    OBVIOUS
  <1>1. OursOK
    BY NewDataOK DEF Init, OursOK, Nothing
  <1>2. EntriesOK
    BY NewDataOK, NoEntryOK DEF Init, EntriesOK
  <1>3. ProcsOK
    BY Numbers DEF Init, ProcsOK
  <1>4. CountsOK
    BY Numbers DEF Init, CountsOK
  <1>5. DispOK
    BY NoDispatchOK DEF Init, DispOK, Loop
  <1>6. CallsOK
    BY NoCallOK DEF Init, CallsOK
  <1>7. TurnsOK
    BY Numbers DEF Init, TurnsOK
  <1>8. QED
    BY <1>1, <1>2, <1>3, <1>4, <1>5, <1>6, <1>7 DEF ResearchInv, StateOK

(* There are three kinds of item.                                            *)
LEMMA ShortQueue ==
  ASSUME NEW q \in Seq(Items), OneOfAKind(q)
  PROVE  Range(q) \subseteq Items /\ Len(q) <= 3
  <1>1. Len(q) \in Nat /\ DOMAIN q = 1..Len(q) /\ \A i \in 1..Len(q) : q[i] \in Items
    BY LenProperties
  <1>2. Range(q) \subseteq Items
    BY <1>1 DEF Range
  <1>3. \A i \in 1..Len(q) : q[i].kind \in Kinds
    BY <1>1 DEF Items, Kinds
  <1>4. Len(q) <= 3
    <2> SUFFICES ASSUME ~(Len(q) <= 3) PROVE FALSE
      OBVIOUS
    <2>1. 1 \in 1..Len(q) /\ 2 \in 1..Len(q) /\ 3 \in 1..Len(q) /\ 4 \in 1..Len(q)
      BY <1>1
    <2>2. /\ q[1].kind # q[2].kind /\ q[1].kind # q[3].kind /\ q[1].kind # q[4].kind
          /\ q[2].kind # q[3].kind /\ q[2].kind # q[4].kind /\ q[3].kind # q[4].kind
      BY <1>1, <2>1 DEF OneOfAKind
    <2>3. /\ q[1].kind \in Kinds /\ q[2].kind \in Kinds
          /\ q[3].kind \in Kinds /\ q[4].kind \in Kinds
      BY <1>3, <2>1
    <2>4. QED
      BY <2>2, <2>3 DEF Kinds
  <1>5. QED
    BY <1>2, <1>4

LEMMA InvTypes == ResearchInv => TypeOK
  <1> SUFFICES ASSUME ResearchInv PROVE TypeOK
    OBVIOUS
  <1>1. OursOK /\ EntriesOK /\ ProcsOK /\ CountsOK /\ DispOK /\ CallsOK /\ TurnsOK
    BY DEF ResearchInv, StateOK
  <1>2. /\ Range(ra.queue) \subseteq Items /\ Len(ra.queue) <= 3
        /\ ra.target \in {Nothing, Topic} \/ ra.target = Synthesis(ra.target[2])
        /\ running \in BOOLEAN
        /\ working[1] \in {"none", Claude, "synthesis"}
    <2>1. ra.queue \in Seq(Items) /\ OneOfAKind(ra.queue)
          /\ ra.target \in {Nothing, Topic} \cup Syntheses
      BY <1>1, DataIs DEF OursOK
    <2>2. ra.target \in {Nothing, Topic} \/ ra.target = Synthesis(ra.target[2])
      BY <2>1 DEF Syntheses, Synthesis
    <2>3. QED
      BY <1>1, <2>1, <2>2, ShortQueue DEF OursOK
  <1>3. /\ topic \in {"new", "active"} \cup Terminal
        /\ base \in BaseData
        /\ synth.status \in {"none", "open"} \cup Terminal
        /\ {synth.id, synths} \subseteq Nat
    BY <1>1 DEF EntriesOK, ProcsOK, SynthEntry
  <1>4. round \in Nat /\ round <= MaxRequests + MaxRaces
    BY <1>1, Numbers DEF CountsOK
  <1>5. ASSUME NEW m \in ModelSet
        PROVE  /\ sub[m].status \in {"none", "launching", "active"} \cup Terminal
               /\ sub[m].id \in {0} \cup Rounds /\ pid[m] \in {0} \cup Rounds
               /\ \A r \in Rounds : proc[m][r] \in 0..r
    <2>1. sub[m] \in SubEntry /\ sub[m].id <= round
      BY <1>1 DEF EntriesOK
    <2>2. sub[m].id \in Nat /\ sub[m].status \in {"none", "launching", "active"} \cup Terminal
      BY <2>1 DEF SubEntry
    <2>3. sub[m].id \in {0} \cup Rounds
      BY <1>4, <2>1, <2>2, Numbers
    <2>4. pid[m] \in {0} \cup Rounds /\ \A r \in Rounds : proc[m][r] \in 0..r
      BY <1>1, Numbers DEF ProcsOK
    <2>5. QED
      BY <2>2, <2>3, <2>4
  <1>6. disp.at \in {"idle", "execute", "sub", "read", "write", "launch", "pid",
                     "mark", "fails", "end", "last", "synth"}
    BY <1>1 DEF DispOK, Dispatching, Loop
  <1>7. \A c \in Callers : Range(call[c].todo) \subseteq Steps
    BY <1>1 DEF CallsOK, GoodCall, Agenda, Range
  <1>8. /\ round \in {0} \cup Rounds /\ requests \in 0..MaxRequests
        /\ faults \in 0..MaxFaults
        /\ races \in 0..MaxRaces /\ turn \in Callers \cup {Nobody}
        /\ holes \subseteq Holes
    BY <1>1 DEF CountsOK, TurnsOK
  <1>9. QED
    BY <1>2, <1>3, <1>5, <1>6, <1>7, <1>8 DEF TypeOK

(* Every variable has its type, for any models and bounds: the queue holds   *)
(* no kind of request twice, whatever copy of the action is put back.        *)
THEOREM ResearchTypeCorrect == Spec => []TypeOK
  <1>1. Init => ResearchInv
    BY InitTypes
  <1>2. ResearchInv /\ [Next]_vars => ResearchInv'
    BY NextTypes
  <1>3. ResearchInv => TypeOK
    BY InvTypes
  <1>4. QED
    BY <1>1, <1>2, <1>3, PTL DEF Spec

(* ------------------------------ one agent ------------------------------- *)

TakingUp == {"pop", "run", "rerun", "synthesize", "launch"}

LEMMA TakesUpIs ==
  ASSUME NEW c
  PROVE  /\ TakesUp(c) <=> Step(c) \in TakingUp
         /\ TakesUp(c)' <=> Step(c)' \in TakingUp
         /\ TakesUp(c) => ~Free(c)
  BY DEF TakesUp, TakingUp, At, Step, Free

(* The next model depends on what is to do and on nothing else.              *)
LEMMA NextStays == disp'.todo = disp.todo => Next1' = Next1
  BY DEF Next1, IsNext

(* A step that launches and drains nothing, whatever dies in it.             *)
LEMMA Fewer ==
  ASSUME AgentInv, NEW c \in Callers, \A d \in Callers \ {c} : call'[d] = call[d],
         TakesUp(c)' => TakesUp(c), c = Agent => disp.at \in {"idle", "fails"},
         UNCHANGED <<running, disp>>, OneAtMost => OneAtMost', NoAgent => NoAgent',
         "overlap" \in holes => "overlap" \in holes'
  PROVE  AgentInv'
  <1>1. \A d \in Callers \ {c} : (TakesUp(d)' <=> TakesUp(d)) /\ (Free(d)' <=> Free(d))
    BY DEF TakesUp, At, Free
  <1>2. \A d \in Callers : TakesUp(d)' => TakesUp(d)
    BY <1>1
  <1>3. LaunchesOnce'
    <2>1. ToLaunch' = ToLaunch
      BY NextStays DEF ToLaunch
    <2>2. QED
      BY <2>1 DEF AgentInv, LaunchesOnce
  <1>4. CompletesLast'
    BY <1>1, Names DEF AgentInv, CompletesLast
  <1>5. ASSUME "overlap" \notin holes'
        PROVE  (AgentRuns /\ DrainsAlone /\ ExecutesAlone /\ HoldsRunning)'
    <2>1. AgentRuns /\ DrainsAlone /\ ExecutesAlone /\ HoldsRunning
      BY <1>5 DEF AgentInv
    <2>2. AgentRuns'
      BY <2>1 DEF AgentRuns
    <2>3. \A d \in Callers : Draining(d)' => Draining(d)
      BY <1>2 DEF Draining, TakesUp
    <2>4. DrainsAlone' /\ ExecutesAlone'
      BY <1>2, <2>1, <2>3 DEF DrainsAlone, ExecutesAlone
    <2>5. HoldsRunning'
      BY <2>1 DEF HoldsRunning
    <2>6. QED
      BY <2>2, <2>4, <2>5
  <1>6. QED
    BY <1>3, <1>4, <1>5 DEF AgentInv

LEMMA Quiet ==
  ASSUME AgentInv, NEW c \in Callers, \A d \in Callers \ {c} : call'[d] = call[d],
         TakesUp(c)' => TakesUp(c), c = Agent => disp.at \in {"idle", "fails"},
         UNCHANGED <<running, synths, disp>>, Works' = Works,
         "overlap" \in holes => "overlap" \in holes'
  PROVE  AgentInv'
  <1>1. (OneAtMost => OneAtMost') /\ (NoAgent => NoAgent')
    BY DEF OneAtMost, NoAgent
  <1>2. QED
    BY <1>1, Fewer

(* A step of the dispatcher between two launches.                            *)
LEMMA Moved ==
  ASSUME AgentInv, disp.at \notin {"idle", "execute"}, disp'.at \notin {"idle", "execute"},
         disp'.agent = disp.agent,
         running' = running \/ (running' = TRUE /\ ~disp.agent),
         synths' = synths, Works' = Works, UNCHANGED <<call, holes>>,
         Claude \in ToLaunch' => Claude \in ToLaunch,
         disp'.at = "fails" \/ Free(Agent)
  PROVE  AgentInv'
  <1>1. LaunchesOnce'
    BY DEF AgentInv, LaunchesOnce
  <1>2. CompletesLast'
    BY DEF CompletesLast, Free
  <1>3. \A d \in Callers : (TakesUp(d)' <=> TakesUp(d)) /\ (Draining(d)' => Draining(d))
    BY DEF TakesUp, Draining, At
  <1>4. ASSUME "overlap" \notin holes
        PROVE  (AgentRuns /\ DrainsAlone /\ ExecutesAlone /\ HoldsRunning)'
    <2>1. AgentRuns /\ DrainsAlone /\ ExecutesAlone /\ HoldsRunning
      BY <1>4 DEF AgentInv
    <2>2. running' = running
      BY <2>1 DEF HoldsRunning
    <2>3. AgentRuns'
      BY <2>1, <2>2 DEF AgentRuns, OneAtMost, NoAgent
    <2>4. DrainsAlone' /\ ExecutesAlone'
      BY <1>3, <2>1, <2>2 DEF DrainsAlone, ExecutesAlone
    <2>5. HoldsRunning'
      BY <2>1, <2>2 DEF HoldsRunning, NoAgent
    <2>6. QED
      BY <2>3, <2>4, <2>5
  <1>5. QED
    BY <1>1, <1>2, <1>4 DEF AgentInv

(* A thread at work in the middle of its steps; the action agent has no such *)
(* work during the loop of a dispatch.                                       *)
LEMMA Busy ==
  ASSUME AgentInv, NEW c \in Callers, ~Free(c)
  PROVE  c = Agent => disp.at \in {"idle", "fails"}
  BY DEF AgentInv, CompletesLast

(* The steps of a thread that only ends what it does.                        *)
LEMMA DoneAgent ==
  ASSUME StateOK, AgentInv, NEW c \in Callers, ~Free(c), Done(c),
         UNCHANGED <<running, synths, disp, proc>>, holes \subseteq holes'
  PROVE  AgentInv'
  <1>1. Step(c)' \in Later \cup {"none"} /\ \A d \in Callers \ {c} : call'[d] = call[d]
    BY DoneOK DEF StateOK
  <1>2. ~TakesUp(c)'
    BY <1>1, TakesUpIs DEF Later, Saves, TakingUp
  <1>3. Works' = Works
    BY DEF Works
  <1>4. QED
    BY <1>1, <1>2, <1>3, Busy, Quiet

(* ... or goes on with what it began.                                        *)
LEMMA DoAgent ==
  ASSUME AgentInv, NEW c \in Callers, ~Free(c),
         Step(c)' \in TakingUp => Step(c) \in TakingUp,
         \A d \in Callers \ {c} : call'[d] = call[d],
         UNCHANGED <<running, synths, disp, proc>>, holes \subseteq holes'
  PROVE  AgentInv'
  <1>1. TakesUp(c)' => TakesUp(c)
    BY TakesUpIs
  <1>2. Works' = Works
    BY DEF Works
  <1>3. QED
    BY <1>1, <1>2, Busy, Quiet

LEMMA DrainAgent ==
  ASSUME StateOK, AgentInv, NEW c \in Callers, Drain(c)
  PROVE  AgentInv'
  <1>1. ~Free(c) /\ UNCHANGED <<running, synths, disp, proc>> /\ holes \subseteq holes'
    BY DEF Drain, At, Free, ours, procs
  <1>2. CASE ~MayDrain
    <2>1. Done(c)
      BY <1>2 DEF Drain, Done
    <2>2. QED
      BY <1>1, <2>1, DoneAgent
  <1>3. CASE MayDrain
    <2>1. Do(c, <<"pop">>, Kept(c)) /\ ~running /\ holes' = holes \cup Overlap(c) \cup Crossed(c)
      BY <1>3 DEF Drain, MayDrain
    <2>2. \A d \in Callers \ {c} : call'[d] = call[d]
      <3>1. \A r : call' = [call EXCEPT ![c] = r] =>
                     \A d \in Callers \ {c} : call'[d] = call[d]
        BY DEF StateOK, CallsOK
      <3>2. QED
        BY <2>1, <3>1 DEF Do
    <2>3. \A d \in Callers \ {c} : (TakesUp(d)' <=> TakesUp(d)) /\ (Free(d)' <=> Free(d))
      BY <2>2 DEF TakesUp, At, Free
    <2>4. LaunchesOnce'
      <3>1. ToLaunch' = ToLaunch
        BY <1>1, NextStays DEF ToLaunch
      <3>2. QED
        BY <1>1, <3>1 DEF AgentInv, LaunchesOnce
    <2>5. CompletesLast'
      BY <1>1, <2>3, Busy, Names DEF AgentInv, CompletesLast
    <2>6. ASSUME "overlap" \notin holes'
          PROVE  (AgentRuns /\ DrainsAlone /\ ExecutesAlone /\ HoldsRunning)'
      <3>1. AgentRuns /\ DrainsAlone /\ ExecutesAlone /\ HoldsRunning
        BY <1>1, <2>6 DEF AgentInv
      <3>2. \A d \in Callers \ {c} : ~Draining(d)
        BY <2>1, <2>6 DEF Overlap
      <3>3. \A d \in Callers \ {c} : ~TakesUp(d)
        BY <3>2 DEF Draining, TakesUp
      <3>4. disp.at # "execute"
        BY <1>1, <3>2, Busy, Names DEF Draining
      <3>5. \A d \in Callers \ {c} : ~Draining(d)' /\ ~TakesUp(d)'
        BY <1>1, <2>3, <3>3, <3>4 DEF Draining, TakesUp
      <3>6. AgentRuns' /\ HoldsRunning'
        BY <1>1, <3>1 DEF AgentRuns, OneAtMost, NoAgent, HoldsRunning, Works
      <3>7. DrainsAlone' /\ ExecutesAlone'
        BY <1>1, <2>1, <3>4, <3>5 DEF DrainsAlone, ExecutesAlone
      <3>8. QED
        BY <3>6, <3>7
    <2>7. QED
      BY <2>4, <2>5, <2>6 DEF AgentInv
  <1>4. QED
    BY <1>2, <1>3

(* A thread that takes up a synthesis launches the only agent.               *)
LEMMA LaunchSynthesisAgent ==
  ASSUME StateOK, AgentInv, NEW c \in Callers, LaunchSynthesis(c)
  PROVE  AgentInv'
  <1>1. /\ ~Free(c) /\ UNCHANGED <<disp, proc, holes>> /\ running' = TRUE
        /\ synths' = synths + 1 /\ Done(c)
    BY DEF LaunchSynthesis, At, Free, DispatchAI
  <1>2. Step(c)' \in Later \cup {"none"} /\ \A d \in Callers \ {c} : call'[d] = call[d]
    BY <1>1, DoneOK DEF StateOK
  <1>3. ~TakesUp(c)'
    BY <1>2, TakesUpIs DEF Later, Saves, TakingUp
  <1>4. \A d \in Callers \ {c} : (TakesUp(d)' <=> TakesUp(d)) /\ (Free(d)' <=> Free(d))
    BY <1>2 DEF TakesUp, At, Free
  <1>5. LaunchesOnce'
    <2>1. ToLaunch' = ToLaunch
      BY <1>1, NextStays DEF ToLaunch
    <2>2. QED
      BY <1>1, <2>1 DEF AgentInv, LaunchesOnce
  <1>6. CompletesLast'
    BY <1>1, <1>4, Busy, Names DEF AgentInv, CompletesLast
  <1>7. ASSUME "overlap" \notin holes
        PROVE  (AgentRuns /\ DrainsAlone /\ ExecutesAlone /\ HoldsRunning)'
    <2>1. AgentRuns /\ DrainsAlone /\ ExecutesAlone /\ HoldsRunning
      BY <1>7 DEF AgentInv
    <2>2. TakesUp(c)
      BY DEF LaunchSynthesis, TakesUp
    <2>3. ~running /\ NoAgent /\ \A d \in Callers \ {c} : ~Draining(d)
      BY <2>1, <2>2 DEF DrainsAlone, AgentRuns
    <2>4. AgentRuns'
      BY <1>1, <2>3 DEF AgentRuns, OneAtMost, NoAgent, Works
    <2>5. \A d \in Callers : ~TakesUp(d)'
      BY <1>3, <1>4, <2>3 DEF Draining, TakesUp
    <2>6. disp.at # "execute"
      BY <1>1, <2>3, Busy, Names DEF Draining
    <2>7. DrainsAlone' /\ ExecutesAlone'
      BY <1>1, <2>5, <2>6 DEF DrainsAlone, ExecutesAlone
    <2>8. HoldsRunning'
      BY <1>1, <2>1, <2>3 DEF HoldsRunning
    <2>9. QED
      BY <2>4, <2>7, <2>8
  <1>8. QED
    BY <1>1, <1>5, <1>6, <1>7 DEF AgentInv

LEMMA CallStepAgent ==
  ASSUME StateOK, AgentInv, NEW c \in Callers, CallStep(c)
  PROVE  AgentInv'
  <1>1. CASE Enqueue(c)
    BY <1>1, DoneAgent DEF Enqueue, At, Free, procs
  <1>2. CASE Drain(c)
    BY <1>2, DrainAgent
  <1>3. CASE Pop(c)
    <2>1. Step(c) = "pop" /\ ~Free(c)
      BY <1>3, AtStep DEF Pop, Steps
    <2>2. \A d \in Callers \ {c} : call'[d] = call[d]
      BY <1>3 DEF Pop, Do, Done, StateOK, CallsOK
    <2>3. QED
      BY <1>3, <2>1, <2>2, DoAgent DEF Pop, procs, TakingUp
  <1>4. CASE DispatchRun(c)
    BY <1>4, DoneAgent DEF DispatchRun, At, Free, procs
  <1>5. CASE DispatchRerun(c)
    BY <1>5, DoneAgent DEF DispatchRerun, At, Free, procs
  <1>6. CASE DispatchSynthesize(c)
    <2>1. Step(c) = "synthesize" /\ ~Free(c)
      BY <1>6, AtStep DEF DispatchSynthesize, Steps
    <2>2. \A d \in Callers \ {c} : call'[d] = call[d]
      BY <1>6 DEF DispatchSynthesize, Do, Done, StateOK, CallsOK
    <2>3. QED
      BY <1>6, <2>1, <2>2, DoAgent DEF DispatchSynthesize, procs, TakingUp
  <1>7. CASE LaunchSynthesis(c)
    BY <1>7, LaunchSynthesisAgent
  <1>8. CASE SaveEntry(c)
    BY <1>8, DoneAgent DEF SaveEntry, At, Free, procs, ours
  <1>9. CASE Complete(c)
    <2> DEFINE more == IF AllTerminal(base') /\ ~base'.triggered THEN <<"trigger">> ELSE <<>>
               k == Kept(c)
    <2>1. Step(c) = "txn" /\ ~Free(c) /\ Do(c, more, k)
      BY <1>9, AtStep DEF Complete, Steps
    <2>2. /\ k \in CallRecord /\ k.ra = NewAction
          /\ HasSaves(Tail(call[c].todo)) => k.as \in Terminal
      BY <2>1, KeptOK DEF StateOK, Free
    <2>3. Agenda(more) /\ ~HasSaves(more) /\ (more # <<>> => Head(more) = "trigger")
      BY Agendas DEF Steps, Saves, Ending
    <2>4. OneOfAKind(k.ra.queue)
      BY <2>2, NewDataOK DEF GoodData
    <2> HIDE DEF more, k
    <2>5. /\ \A d \in Callers \ {c} : call'[d] = call[d]
          /\ more # <<>> => Step(c)' = Head(more)
          /\ more = <<>> => Step(c)' \in Later \cup {"none"}
      BY <2>1, <2>2, <2>3, <2>4, DoOK DEF StateOK
    <2>6. Step(c)' \notin TakingUp
      BY <2>3, <2>5 DEF TakingUp, Later, Saves
    <2>7. QED
      BY <1>9, <2>1, <2>5, <2>6, DoAgent DEF Complete, ours
  <1>10. CASE Trigger(c)
    <2>1. ~Free(c) /\ UNCHANGED <<running, synths, disp, proc>> /\ holes \subseteq holes'
          /\ Step(c) = "trigger"
      BY <1>10, AtStep DEF Trigger, Steps, procs, ours
    <2>2. CASE ~StillUntriggered
      BY <1>10, <2>1, <2>2, DoneAgent DEF Trigger
    <2>3. CASE StillUntriggered
      <3> DEFINE k == [Kept(c) EXCEPT !.item = Item("synthesize", {})]
                 t == <<"enqueue", "drain">>
      <3>1. Do(c, t, k)
        BY <1>10, <2>3 DEF Trigger
      <3>2. Agenda(t) /\ t # <<>> /\ Head(t) = "enqueue" /\ ~HasSaves(t)
        BY Agendas
      <3>3. /\ Kept(c) \in CallRecord /\ Kept(c).ra = NewAction
            /\ HasSaves(Tail(call[c].todo)) => Kept(c).as \in Terminal
        BY <2>1, KeptOK DEF StateOK, Free
      <3>4. k \in CallRecord /\ k.ra = NewAction /\ k.as = Kept(c).as
        BY <3>3, NewDataOK DEF CallRecord
      <3> HIDE DEF k, t
      <3>5. OneOfAKind(k.ra.queue)
        BY <3>4, NewDataOK DEF GoodData
      <3>6. Step(c)' = "enqueue" /\ \A d \in Callers \ {c} : call'[d] = call[d]
        BY <2>1, <3>1, <3>2, <3>3, <3>4, <3>5, DoOK DEF StateOK
      <3>7. QED
        BY <2>1, <3>6, DoAgent DEF TakingUp
    <2>4. QED
      BY <2>2, <2>3
  <1>11. CASE Publish(c)
    BY <1>11, DoneAgent DEF Publish, At, Free, procs, ours
  <1>12. CASE HealMark(c)
    <2> DEFINE more == IF HasLivePid(call[c].m) THEN <<>> ELSE <<"save", "txn">>
               k == call[c]
    <2>1. ~Free(c) /\ Step(c) = "healmark"
      BY <1>12, AtStep DEF HealMark, Steps
    <2>2. Agenda(more) /\ (more # <<>> => Head(more) = "save") /\ Do(c, more, k)
      BY <1>12, Agendas DEF HealMark
    <2>3. k \in CallRecord /\ OneOfAKind(k.ra.queue) /\ k.as \in Terminal
      BY <2>1, CallIs DEF StateOK, GoodData, Ending
    <2> HIDE DEF more
    <2>4. /\ \A d \in Callers \ {c} : call'[d] = call[d]
          /\ more # <<>> => Step(c)' = Head(more)
          /\ more = <<>> => Step(c)' \in Later \cup {"none"}
      BY <2>1, <2>2, <2>3, DoOK DEF StateOK
    <2>5. Step(c)' \notin TakingUp
      BY <2>2, <2>4 DEF TakingUp, Later, Saves
    <2>6. QED
      BY <1>12, <2>1, <2>4, <2>5, DoAgent DEF HealMark, procs, ours
  <1>13. QED
    BY <1>1, <1>2, <1>3, <1>4, <1>5, <1>6, <1>7, <1>8, <1>9, <1>10, <1>11, <1>12 DEF CallStep

LEMMA ListDueAgent ==
  ASSUME StateOK, AgentInv, ListDue
  PROVE  AgentInv'
  <1>1. /\ disp' = [NoDispatch EXCEPT !.at = "execute", !.ra = ra] /\ Free(Agent) /\ ~running
        /\ UNCHANGED <<running, synths, proc, call>> /\ Overlap(Agent) \subseteq holes'
        /\ holes \subseteq holes'
    BY DEF ListDue, DispAt, ours, procs
  <1>2. disp'.at = "execute" /\ disp'.agent = FALSE
    BY <1>1 DEF NoDispatch
  <1>3. LaunchesOnce' /\ CompletesLast'
    BY <1>1, <1>2 DEF LaunchesOnce, CompletesLast, Free
  <1>4. ASSUME "overlap" \notin holes'
        PROVE  (AgentRuns /\ DrainsAlone /\ ExecutesAlone /\ HoldsRunning)'
    <2>1. AgentRuns
      BY <1>1, <1>4 DEF AgentInv
    <2>2. AgentRuns' /\ HoldsRunning'
      BY <1>1, <1>2, <2>1 DEF AgentRuns, OneAtMost, NoAgent, Works, HoldsRunning
    <2>3. \A d \in Callers \ {Agent} : ~TakesUp(d)
      BY <1>1, <1>4 DEF Overlap, Draining, TakesUp
    <2>4. \A d \in Callers : ~TakesUp(d)'
      BY <1>1, <2>3, TakesUpIs DEF TakesUp, At
    <2>5. DrainsAlone' /\ ExecutesAlone'
      BY <1>1, <2>4 DEF DrainsAlone, ExecutesAlone
    <2>6. QED
      BY <2>2, <2>5
  <1>5. QED
    BY <1>3, <1>4 DEF AgentInv

LEMMA ExecuteAgent ==
  ASSUME StateOK, AgentInv, Execute
  PROVE  AgentInv'
  <1>1. /\ disp.at = "execute" /\ running' = TRUE /\ UNCHANGED <<synths, proc, call, holes>>
        /\ disp \in Dispatching
    BY HeldOK DEF Execute, DispAt, procs, StateOK
  <1>2. ~disp.agent /\ Free(Agent)
    BY <1>1, Names DEF AgentInv, LaunchesOnce, ToLaunch, CompletesLast
  <1>3. disp'.at \in {"synth", "end", "sub"} /\ disp'.agent = disp.agent
    BY <1>1 DEF Execute, Dispatching
  <1>4. LaunchesOnce' /\ CompletesLast'
    BY <1>1, <1>2, <1>3 DEF LaunchesOnce, CompletesLast, Free
  <1>5. ASSUME "overlap" \notin holes
        PROVE  (AgentRuns /\ DrainsAlone /\ ExecutesAlone /\ HoldsRunning)'
    <2>1. AgentRuns /\ ~running /\ \A c \in Callers : ~TakesUp(c)
      BY <1>1, <1>5 DEF AgentInv, ExecutesAlone
    <2>2. NoAgent' /\ OneAtMost'
      BY <1>1, <2>1 DEF AgentRuns, NoAgent, OneAtMost, Works
    <2>3. \A c \in Callers : ~TakesUp(c)'
      BY <1>1, <2>1 DEF TakesUp, At
    <2>4. QED
      BY <1>1, <1>3, <2>2, <2>3 DEF AgentRuns, DrainsAlone, ExecutesAlone, HoldsRunning
  <1>6. QED
    BY <1>1, <1>4, <1>5 DEF AgentInv

LEMMA LaunchSynthTargetAgent ==
  ASSUME StateOK, AgentInv, LaunchSynthTarget
  PROVE  AgentInv'
  <1>1. /\ disp.at = "synth" /\ running' = TRUE /\ synths' = synths + 1
        /\ UNCHANGED <<proc, call, holes>> /\ disp \in Dispatching
        /\ disp' = [disp EXCEPT !.at = "last", !.agent = TRUE]
    BY HeldOK DEF LaunchSynthTarget, DispAt, StateOK, DispatchAI
  <1>2. disp'.at = "last"
    BY <1>1 DEF Dispatching
  <1>3. ~disp.agent /\ Free(Agent)
    BY <1>1, Names DEF AgentInv, LaunchesOnce, ToLaunch, CompletesLast
  <1>4. LaunchesOnce'
    BY <1>2 DEF LaunchesOnce, ToLaunch
  <1>5. CompletesLast'
    BY <1>1, <1>3 DEF CompletesLast, Free
  <1>6. ASSUME "overlap" \notin holes
        PROVE  (AgentRuns /\ DrainsAlone /\ ExecutesAlone /\ HoldsRunning)'
    <2>1. /\ running /\ NoAgent /\ \A c \in Callers : ~TakesUp(c)
      BY <1>1, <1>3, <1>6 DEF AgentInv, HoldsRunning, DrainsAlone
    <2>2. AgentRuns'
      BY <1>1, <2>1 DEF AgentRuns, NoAgent, OneAtMost, Works
    <2>3. \A c \in Callers : ~TakesUp(c)'
      BY <1>1, <2>1 DEF TakesUp, At
    <2>4. QED
      BY <1>1, <1>2, <2>2, <2>3 DEF DrainsAlone, ExecutesAlone, HoldsRunning, Dispatching
  <1>7. QED
    BY <1>1, <1>4, <1>5, <1>6 DEF AgentInv

(* Claude is launched by a dispatch that holds the running status and has    *)
(* launched no agent yet.                                                    *)
LEMMA LaunchClaudeAgent ==
  ASSUME StateOK, AgentInv, LaunchClaude
  PROVE  AgentInv'
  <1>1. /\ disp.at = "launch" /\ Next1 = Claude /\ running' = TRUE
        /\ UNCHANGED <<synths, call, holes>> /\ disp \in Dispatching
        /\ disp' = [disp EXCEPT !.at = "mark", !.agent = TRUE]
        /\ proc' = [proc EXCEPT ![Claude][round] = disp.e]
    BY HeldOK DEF LaunchClaude, DispAt, StateOK, DispatchAI
  <1>2. /\ disp'.at = "mark" /\ disp'.todo = disp.todo /\ disp.e \in Nat /\ disp.e <= round
        /\ round \in Rounds /\ Claude \in disp.todo
    BY <1>1, AtModel, HeldOK DEF Dispatching, StateOK, DispOK, Loop
  <1>3. ~disp.agent /\ Free(Agent)
    BY <1>1, <1>2, Names DEF AgentInv, LaunchesOnce, ToLaunch, CompletesLast
  <1>4. LaunchesOnce'
    <2>1. Next1' = Claude
      BY <1>1, <1>2, NextStays
    <2>2. QED
      BY <1>2, <2>1 DEF LaunchesOnce, ToLaunch
  <1>5. CompletesLast'
    BY <1>1, <1>3 DEF CompletesLast, Free
  <1>6. ASSUME "overlap" \notin holes
        PROVE  (AgentRuns /\ DrainsAlone /\ ExecutesAlone /\ HoldsRunning)'
    <2>1. /\ running /\ NoAgent /\ \A c \in Callers : ~TakesUp(c)
      BY <1>1, <1>3, <1>6 DEF AgentInv, HoldsRunning, DrainsAlone
    <2>2. \A r \in Rounds \ {round} : proc'[Claude][r] = proc[Claude][r]
      BY <1>1, <1>2, ProcSet, Names DEF StateOK
    <2>3. Works' \subseteq {round}
      BY <2>1, <2>2 DEF Works, NoAgent
    <2>4. AgentRuns'
      BY <1>1, <2>1, <2>3 DEF AgentRuns, NoAgent, OneAtMost
    <2>5. \A c \in Callers : ~TakesUp(c)'
      BY <1>1, <2>1 DEF TakesUp, At
    <2>6. QED
      BY <1>1, <1>2, <2>4, <2>5 DEF DrainsAlone, ExecutesAlone, HoldsRunning, Dispatching
  <1>7. QED
    BY <1>1, <1>4, <1>5, <1>6 DEF AgentInv

(* The other steps of a dispatch launch no agent.                            *)
LEMMA LoopAgent ==
  ASSUME StateOK, AgentInv,
         MakeSub \/ ReadBase \/ WriteBase \/ LaunchSubprocess \/ RecordPid \/ LaunchFails
         \/ MarkActive
  PROVE  AgentInv'
  <1>1. disp.at \in Loop /\ disp \in Dispatching
    BY HeldOK DEF MakeSub, ReadBase, WriteBase, LaunchSubprocess, RecordPid, LaunchFails,
       MarkActive, DispAt, Loop, StateOK
  <1>2. Next1 \in disp.todo /\ Next1 \in ModelSet /\ round \in Rounds /\ disp.e \in Nat
        /\ (disp.e <= round)
    BY <1>1, AtModel DEF StateOK, DispOK
  <1>3. Free(Agent) /\ disp.at \notin {"idle", "execute"}
    BY <1>1 DEF AgentInv, CompletesLast, Loop
  <1>4. UNCHANGED <<synths, call, holes>>
    BY DEF MakeSub, ReadBase, WriteBase, LaunchSubprocess, RecordPid, LaunchFails, MarkActive,
       procs
  <1>5. Works' = Works
    <2>1. CASE LaunchSubprocess /\ EntryLives
      <3>1. Next1 # Claude /\ proc' = [proc EXCEPT ![Next1][round] = disp.e]
        BY <2>1 DEF LaunchSubprocess
      <3>2. PICK m \in ModelSet : m = Next1
        BY <1>2
      <3>3. \A r \in Rounds : proc'[Claude][r] = proc[Claude][r]
        BY <1>2, <3>1, <3>2, ProcSet, Names DEF StateOK
      <3>4. QED
        BY <3>3 DEF Works
    <2>2. CASE proc' = proc
      BY <2>2 DEF Works
    <2>3. QED
      BY <2>1, <2>2 DEF MakeSub, ReadBase, WriteBase, LaunchSubprocess, RecordPid,
         LaunchFails, MarkActive, procs
  <1>6. /\ disp'.at \notin {"idle", "execute"} /\ disp'.agent = disp.agent
        /\ Claude \in ToLaunch' => Claude \in ToLaunch
    <2>1. CASE MakeSub
      <3>1. disp.at = "sub" /\ disp' = [disp EXCEPT !.at = "read", !.e = sub'[Next1].id, !.put = "launching"]
        BY <2>1 DEF MakeSub, DispAt
      <3>2. /\ disp'.at = "read" /\ disp'.put = "launching" /\ disp'.todo = disp.todo
            /\ disp'.agent = disp.agent
        BY <1>1, <3>1 DEF Dispatching
      <3>3. QED
        BY <3>1, <3>2 DEF ToLaunch
    <2>2. CASE ReadBase
      <3>1. disp.at = "read" /\ disp' = [disp EXCEPT !.at = "write", !.read = base]
        BY <2>2 DEF ReadBase, DispAt
      <3>2. /\ disp'.at = "write" /\ disp'.put = disp.put /\ disp'.todo = disp.todo
            /\ disp'.agent = disp.agent
        BY <1>1, <3>1 DEF Dispatching
      <3>3. Next1' = Next1
        BY <3>2, NextStays
      <3>4. QED
        BY <3>1, <3>2, <3>3 DEF ToLaunch
    <2>3. CASE WriteBase
      <3>1. CASE disp.put = "launching"
        <4>1. disp.at = "write" /\ disp' = [disp EXCEPT !.at = "launch", !.read = NewBase]
          BY <2>3, <3>1 DEF WriteBase, DispAt
        <4>2. /\ disp'.at = "launch" /\ disp'.todo = disp.todo /\ disp'.agent = disp.agent
          BY <1>1, <4>1 DEF Dispatching
        <4>3. QED
          BY <3>1, <4>1, <4>2 DEF ToLaunch
      <3>2. CASE disp.put # "launching"
        <4> DEFINE rest == disp.todo \ {Next1}
        <4>1. disp.at = "write"
              /\ disp' = [disp EXCEPT !.at = IF rest = {} THEN "fails" ELSE "sub",
                                 !.todo = rest, !.e = 0, !.put = "none", !.read = NewBase]
          BY <2>3, <3>2 DEF WriteBase, DispAt, AfterModel
        <4>2. /\ disp'.at \in {"fails", "sub"} /\ disp'.todo = rest /\ disp'.agent = disp.agent
          BY <1>1, <4>1 DEF Dispatching
        <4>3. QED
          BY <3>2, <4>1, <4>2 DEF ToLaunch
      <3>3. QED
        BY <3>1, <3>2
    <2>4. CASE LaunchSubprocess
      <3>1. disp.at = "launch" /\ disp' = [disp EXCEPT !.at = "pid"]
        BY <2>4 DEF LaunchSubprocess, DispAt
      <3>2. /\ disp'.at = "pid" /\ disp'.todo = disp.todo /\ disp'.agent = disp.agent
        BY <1>1, <3>1 DEF Dispatching
      <3>3. QED
        BY <3>1, <3>2 DEF ToLaunch
    <2>5. CASE RecordPid
      <3>1. disp.at = "pid" /\ disp' = [disp EXCEPT !.at = "mark"]
        BY <2>5 DEF RecordPid, DispAt
      <3>2. /\ disp'.at = "mark" /\ disp'.todo = disp.todo /\ disp'.agent = disp.agent
        BY <1>1, <3>1 DEF Dispatching
      <3>3. QED
        BY <3>1, <3>2 DEF ToLaunch
    <2>6. CASE LaunchFails
      <3>1. disp.at = "launch" /\ disp' = [disp EXCEPT !.at = "read", !.put = "failed",
                                                       !.failed = @ \cup {Entry1}]
        BY <2>6 DEF LaunchFails, DispAt
      <3>2. /\ disp'.at = "read" /\ disp'.put = "failed" /\ disp'.todo = disp.todo
            /\ disp'.agent = disp.agent
        BY <1>1, <3>1 DEF Dispatching
      <3>3. QED
        BY <3>1, <3>2 DEF ToLaunch
    <2>7. CASE MarkActive
      <3>1. disp.at = "mark" /\ disp' = [disp EXCEPT !.at = "read", !.put = "active"]
        BY <2>7 DEF MarkActive, DispAt
      <3>2. /\ disp'.at = "read" /\ disp'.put = "active" /\ disp'.todo = disp.todo
            /\ disp'.agent = disp.agent
        BY <1>1, <3>1 DEF Dispatching
      <3>3. Next1' = Next1
        BY <3>2, NextStays
      <3>4. QED
        BY <3>1, <3>2, <3>3 DEF ToLaunch
    <2>8. QED
      BY <2>1, <2>2, <2>3, <2>4, <2>5, <2>6, <2>7
  <1>7. running' = running \/ (running' = TRUE /\ ~disp.agent)
    <2>1. CASE LaunchFails /\ Next1 = Claude
      <3>1. disp.at = "launch" /\ running' = TRUE
        BY <2>1 DEF LaunchFails, DispAt, DispatchAI
      <3>2. Claude \in ToLaunch
        BY <1>2, <2>1, <3>1 DEF ToLaunch
      <3>3. QED
        BY <3>1, <3>2 DEF AgentInv, LaunchesOnce
    <2>2. CASE ~(LaunchFails /\ Next1 = Claude)
      BY <2>2 DEF MakeSub, ReadBase, WriteBase, LaunchSubprocess, RecordPid, LaunchFails,
         MarkActive, ours
    <2>3. QED
      BY <2>1, <2>2
  <1>8. QED
    BY <1>3, <1>4, <1>5, <1>6, <1>7, Moved

LEMMA CompleteFailedAgent ==
  ASSUME StateOK, AgentInv, CompleteFailed
  PROVE  AgentInv'
  <1>1. /\ disp.at = "fails" /\ Free(Agent) /\ UNCHANGED <<running, synths, proc, holes>>
        /\ disp \in Dispatching
    BY HeldOK DEF CompleteFailed, DispAt, StateOK, ours, procs
  <1>2. \/ UNCHANGED call
        \/ /\ Step(Agent)' = "txn"
           /\ \A d \in Callers \ {Agent} : call'[d] = call[d]
    BY CompleteFailedTypes
  <1>3. \A c \in Callers : TakesUp(c)' => TakesUp(c)
    <2>1. CASE UNCHANGED call
      BY <2>1 DEF TakesUp, At
    <2>2. CASE Step(Agent)' = "txn" /\ \A d \in Callers \ {Agent} : call'[d] = call[d]
      <3>1. ~TakesUp(Agent)'
        BY <2>2, TakesUpIs DEF TakingUp
      <3>2. \A d \in Callers \ {Agent} : TakesUp(d)' <=> TakesUp(d)
        BY <2>2 DEF TakesUp, At
      <3>3. QED
        BY <3>1, <3>2
    <2>3. QED
      BY <1>2, <2>1, <2>2
  <1>4. disp'.agent = disp.agent
        /\ (disp'.at = "fails" \/ (disp'.at = "end" /\ UNCHANGED call))
    BY <1>1 DEF CompleteFailed, Dispatching
  <1>5. LaunchesOnce' /\ CompletesLast'
    BY <1>1, <1>4 DEF LaunchesOnce, ToLaunch, CompletesLast, Free
  <1>6. ASSUME "overlap" \notin holes
        PROVE  (AgentRuns /\ DrainsAlone /\ ExecutesAlone /\ HoldsRunning)'
    <2>1. AgentRuns /\ DrainsAlone /\ HoldsRunning
      BY <1>6 DEF AgentInv
    <2>2. AgentRuns' /\ HoldsRunning'
      BY <1>1, <1>4, <2>1 DEF AgentRuns, OneAtMost, NoAgent, Works, HoldsRunning
    <2>3. \A c \in Callers : Draining(c)' => Draining(c)
      BY <1>3, <1>4 DEF Draining, TakesUp
    <2>4. DrainsAlone' /\ ExecutesAlone'
      BY <1>1, <1>3, <1>4, <2>1, <2>3 DEF DrainsAlone, ExecutesAlone
    <2>5. QED
      BY <2>2, <2>4
  <1>7. QED
    BY <1>1, <1>5, <1>6 DEF AgentInv

LEMMA EndDispatchAgent ==
  ASSUME StateOK, AgentInv, EndDispatch
  PROVE  AgentInv'
  <1>1. /\ disp.at = "end" /\ Free(Agent) /\ UNCHANGED <<running, synths, proc, call, holes>>
        /\ disp \in Dispatching /\ disp' = [disp EXCEPT !.at = "last"]
    BY HeldOK DEF EndDispatch, DispAt, StateOK, procs
  <1>2. disp'.at = "last" /\ disp'.agent = disp.agent
    BY <1>1 DEF Dispatching
  <1>3. Works' = Works /\ Claude \notin ToLaunch'
    BY <1>1, <1>2 DEF Works, ToLaunch
  <1>4. QED
    BY <1>1, <1>2, <1>3, Moved

(* A dispatch that launched no agent ends with none running.                 *)
LEMMA LastRunAgent ==
  ASSUME StateOK, AgentInv, LastRun
  PROVE  AgentInv'
  <1>1. /\ disp.at = "last" /\ running' = (running /\ disp.agent) /\ disp' = NoDispatch
        /\ UNCHANGED <<synths, proc, call, holes>>
    BY DEF LastRun, DispAt, procs
  <1>2. LaunchesOnce' /\ CompletesLast'
    BY <1>1, NoDispatchOK DEF LaunchesOnce, CompletesLast
  <1>3. ASSUME "overlap" \notin holes
        PROVE  (AgentRuns /\ DrainsAlone /\ ExecutesAlone /\ HoldsRunning)'
    <2>1. AgentRuns /\ DrainsAlone /\ HoldsRunning
      BY <1>3 DEF AgentInv
    <2>2. AgentRuns'
      BY <1>1, <2>1 DEF AgentRuns, OneAtMost, NoAgent, Works, HoldsRunning
    <2>3. HoldsRunning' /\ ExecutesAlone'
      BY <1>1, NoDispatchOK DEF HoldsRunning, ExecutesAlone
    <2>4. \A c \in Callers : (TakesUp(c)' <=> TakesUp(c)) /\ (Draining(c)' => Draining(c))
      BY <1>1, NoDispatchOK DEF TakesUp, At, Draining
    <2>5. DrainsAlone'
      BY <1>1, <2>1, <2>4 DEF DrainsAlone
    <2>6. QED
      BY <2>2, <2>3, <2>5
  <1>4. QED
    BY <1>1, <1>2, <1>3 DEF AgentInv

LEMMA DispatchAgent ==
  ASSUME StateOK, AgentInv, Dispatch
  PROVE  AgentInv'
  BY ExecuteAgent, LaunchSynthTargetAgent, LaunchClaudeAgent, LoopAgent, CompleteFailedAgent,
     EndDispatchAgent, LastRunAgent DEF Dispatch

(* An agent that ends, or is found dead, leaves none.                        *)
LEMMA GoneAgent ==
  ASSUME AgentInv, NEW c \in Callers, \A d \in Callers \ {c} : call'[d] = call[d],
         ~TakesUp(c)', c = Agent => disp.at \in {"idle", "fails"},
         running' = FALSE, UNCHANGED <<disp, holes>>,
         "overlap" \notin holes => NoAgent',
         "overlap" \notin holes => ~NoAgent \/ disp.at = "idle"
  PROVE  AgentInv'
  <1>1. \A d \in Callers \ {c} : (TakesUp(d)' <=> TakesUp(d)) /\ (Free(d)' <=> Free(d))
    BY DEF TakesUp, At, Free
  <1>2. LaunchesOnce'
    <2>1. ToLaunch' = ToLaunch
      BY NextStays DEF ToLaunch
    <2>2. QED
      BY <2>1 DEF AgentInv, LaunchesOnce
  <1>3. CompletesLast'
    BY <1>1, Names DEF AgentInv, CompletesLast
  <1>4. ASSUME "overlap" \notin holes
        PROVE  (AgentRuns /\ DrainsAlone /\ ExecutesAlone /\ HoldsRunning)'
    <2>1. AgentRuns /\ DrainsAlone /\ ExecutesAlone /\ HoldsRunning
      BY <1>4 DEF AgentInv
    <2>2. AgentRuns'
      BY <1>4 DEF AgentRuns, OneAtMost, NoAgent
    <2>3. \A d \in Callers : (TakesUp(d)' => TakesUp(d)) /\ (Draining(d)' => Draining(d))
      BY <1>1 DEF Draining, TakesUp
    <2>4. DrainsAlone' /\ ExecutesAlone'
      BY <2>1, <2>3 DEF DrainsAlone, ExecutesAlone
    <2>5. HoldsRunning'
      BY <1>4, <2>1 DEF HoldsRunning
    <2>6. QED
      BY <2>2, <2>4, <2>5
  <1>5. QED
    BY <1>2, <1>3, <1>4 DEF AgentInv

LEMMA ClaudeEndsAgent ==
  ASSUME StateOK, AgentInv, NEW r \in Rounds, NEW ok \in BOOLEAN, ClaudeEnds(r, ok)
  PROVE  AgentInv'
  <1> DEFINE c == <<Claude, r>>
  <1>1. c \in Callers /\ c # Agent /\ 0 \in Nat /\ 0 <= r
    BY Names, Numbers
  <1>2. AgentComplete(c, ok)
    BY DEF ClaudeEnds
  <1> HIDE DEF c
  <1>3. Step(c)' = "drain" /\ \A d \in Callers \ {c} : call'[d] = call[d]
    BY <1>1, <1>2, AgentCompleteTypes
  <1>4. ~TakesUp(c)'
    BY <1>3, TakesUpIs DEF TakingUp
  <1>5. /\ running' = FALSE /\ UNCHANGED <<disp, holes, synths>>
        /\ proc[Claude][r] # 0 /\ proc' = [proc EXCEPT ![Claude][r] = 0]
    BY DEF ClaudeEnds, AgentComplete
  <1>6. Works' = Works \ {r} /\ r \in Works
    <2>1. PICK m \in ModelSet : m = Claude
      BY Names
    <2>2. proc' = [proc EXCEPT ![m][r] = 0] /\ ProcsOK
      BY <1>5, <2>1 DEF StateOK
    <2>3. /\ proc'[m][r] = 0
          /\ \A n \in ModelSet, s \in Rounds : n # m \/ s # r => proc'[n][s] = proc[n][s]
      BY <2>2, ProcEnds
    <2>4. QED
      BY <1>5, <2>1, <2>3 DEF Works
  <1>7. "overlap" \notin holes => NoAgent' /\ ~NoAgent
    BY <1>5, <1>6 DEF AgentInv, AgentRuns, OneAtMost, NoAgent
  <1>8. QED
    BY <1>1, <1>3, <1>4, <1>5, <1>7, GoneAgent

LEMMA SynthEndsAgent ==
  ASSUME StateOK, AgentInv, NEW ok \in BOOLEAN, SynthEnds(ok)
  PROVE  AgentInv'
  <1>1. Step(Synth)' = "drain" /\ \A d \in Callers \ {Synth} : call'[d] = call[d]
    BY AgentCompleteTypes, Names DEF SynthEnds
  <1>2. ~TakesUp(Synth)'
    BY <1>1, TakesUpIs DEF TakingUp
  <1>3. /\ running' = FALSE /\ UNCHANGED <<disp, holes, proc>>
        /\ synths > 0 /\ synths' = synths - 1
    BY DEF SynthEnds, AgentComplete
  <1>4. "overlap" \notin holes => NoAgent' /\ ~NoAgent
    <2>1. Works' = Works
      BY <1>3 DEF Works
    <2>2. synths # 0
      BY <1>3
    <2>3. QED
      BY <1>3, <2>1, <2>2 DEF AgentInv, AgentRuns, OneAtMost, NoAgent
  <1>5. QED
    BY <1>1, <1>2, <1>3, <1>4, GoneAgent, Names

LEMMA HealAgentAgent ==
  ASSUME StateOK, AgentInv, HealAgent
  PROVE  AgentInv'
  <1>1. /\ disp.at = "idle" /\ Free(Agent) /\ running' = FALSE
        /\ UNCHANGED <<disp, holes, synths, proc>> /\ AgentGone
    BY DEF HealAgent, Settled, DispAt, procs
  <1>2. NoAgent'
    BY <1>1 DEF AgentGone, Alive, NoAgent, Works
  <1>3. /\ \A d \in Callers \ {Agent} : call'[d] = call[d]
        /\ ~TakesUp(Agent)'
    <2>1. CASE UNCHANGED call
      BY <1>1, <2>1 DEF TakesUp, At, Free
    <2>2. CASE Step(Agent)' = "save" /\ \A d \in Callers \ {Agent} : call'[d] = call[d]
      BY <2>2, TakesUpIs DEF TakingUp
    <2>3. QED
      BY <2>1, <2>2, HealAgentTypes
  <1>4. QED
    BY <1>1, <1>2, <1>3, GoneAgent, Names

(* The other beginnings launch, drain and end no agent.                      *)
LEMMA StartsAgent ==
  ASSUME AgentInv, NEW c \in Callers, UNCHANGED <<running, synths, disp, holes>>,
         Works' = Works, c = Agent => disp.at \in {"idle", "fails"},
         \/ UNCHANGED call
         \/ Step(c)' \notin TakingUp /\ \A d \in Callers \ {c} : call'[d] = call[d]
  PROVE  AgentInv'
  <1>1. TakesUp(c)' => TakesUp(c)
    <2>1. CASE UNCHANGED call
      BY <2>1 DEF TakesUp, At
    <2>2. CASE Step(c)' \notin TakingUp
      BY <2>2, TakesUpIs
    <2>3. QED
      BY <2>1, <2>2
  <1>2. \A d \in Callers \ {c} : call'[d] = call[d]
    OBVIOUS
  <1>3. QED
    BY <1>1, <1>2, Quiet

LEMMA RequestAgent ==
  ASSUME StateOK, AgentInv, NEW item \in Items, Request(item)
  PROVE  AgentInv'
  <1>1. Step(Web)' = "enqueue" /\ \A d \in Callers \ {Web} : call'[d] = call[d]
    BY RequestTypes
  <1>2. UNCHANGED <<running, synths, disp, holes>> /\ Works' = Works
    BY DEF Request, ours, procs, Works
  <1>3. QED
    BY <1>1, <1>2, StartsAgent, Names DEF TakingUp

LEMMA HealersAgent ==
  ASSUME StateOK, AgentInv, NEW c \in Healers, NEW m \in ModelSet,
         HealPid(c, m) \/ HealList(c, m)
  PROVE  AgentInv'
  <1>1. UNCHANGED <<running, synths, disp, holes>> /\ Works' = Works /\ disp.at = "idle"
    BY DEF HealPid, HealList, ours, procs, Works, Settled, DispAt
  <1>2. \/ UNCHANGED call
        \/ /\ Step(c)' \in {"save", "healmark"}
           /\ \A d \in Callers \ {c} : call'[d] = call[d]
    BY HealTypes
  <1>3. QED
    BY <1>1, <1>2, StartsAgent, Names DEF TakingUp

LEMMA CronAgent ==
  ASSUME StateOK, AgentInv, Unpin \/ Reconcile
  PROVE  AgentInv'
  <1>1. UNCHANGED <<running, synths, disp, holes>> /\ Works' = Works
    BY DEF Unpin, Reconcile, ours, procs, Works
  <1>2. \/ UNCHANGED call
        \/ /\ Step(Cron)' \in {"drain", "enqueue"}
           /\ \A d \in Callers \ {Cron} : call'[d] = call[d]
    BY UnpinTypes, ReconcileTypes
  <1>3. QED
    BY <1>1, <1>2, StartsAgent, Names DEF TakingUp

LEMMA SubprocessEndsAgent ==
  ASSUME StateOK, AgentInv, NEW m \in ModelSet, NEW r \in Rounds, NEW ok \in BOOLEAN,
         SubprocessEnds(m, r, ok)
  PROVE  AgentInv'
  <1>1. Step(<<m, r>>)' = "save" /\ \A d \in Callers \ {<<m, r>>} : call'[d] = call[d]
    BY SubprocessEndsTypes
  <1>2. UNCHANGED <<running, synths, disp, holes>>
    BY DEF SubprocessEnds, ours
  <1>3. Works' = Works
    <2>1. m # Claude /\ proc' = [proc EXCEPT ![m][r] = 0] /\ 0 \in Nat /\ 0 <= r
      BY Numbers DEF SubprocessEnds
    <2>2. \A s \in Rounds : proc'[Claude][s] = proc[Claude][s]
      BY <2>1, ProcSet, Names DEF StateOK
    <2>3. QED
      BY <2>2 DEF Works
  <1>4. QED
    BY <1>1, <1>2, <1>3, StartsAgent, Names DEF TakingUp

LEMMA ModelDiesAgent ==
  ASSUME StateOK, AgentInv, NEW m \in ModelSet, NEW r \in Rounds, ModelDies(m, r)
  PROVE  AgentInv'
  <1>1. Step(<<m, r>>)' = "none" /\ \A d \in Callers \ {<<m, r>>} : call'[d] = call[d]
    BY ModelDiesTypes
  <1>2. ~TakesUp(<<m, r>>)' /\ <<m, r>> \in Callers /\ <<m, r>> # Agent
    BY <1>1, TakesUpIs, Names DEF TakingUp
  <1>3. UNCHANGED <<running, synths, disp>> /\ proc' = [proc EXCEPT ![m][r] = 0]
        /\ holes \subseteq holes' /\ 0 \in Nat /\ 0 <= r
    BY Numbers DEF ModelDies, ours
  <1>4. Works' \subseteq Works
    <2>1. proc'[m][r] = 0
          /\ \A n \in ModelSet, s \in Rounds : n # m \/ s # r => proc'[n][s] = proc[n][s]
      BY <1>3, ProcEnds DEF StateOK
    <2>2. QED
      BY <2>1, Names DEF Works
  <1>5. (OneAtMost => OneAtMost') /\ (NoAgent => NoAgent')
    BY <1>3, <1>4 DEF OneAtMost, NoAgent
  <1>6. QED
    BY <1>1, <1>2, <1>3, <1>5, Fewer

LEMMA SynthDiesAgent ==
  ASSUME StateOK, AgentInv, SynthDies
  PROVE  AgentInv'
  <1>1. /\ UNCHANGED <<running, disp, call, proc>> /\ holes \subseteq holes'
        /\ synths > 0 /\ synths' = synths - 1 /\ synths \in Nat
    BY DEF SynthDies, ours, StateOK, ProcsOK
  <1>2. (OneAtMost => OneAtMost') /\ (NoAgent => NoAgent')
    BY <1>1 DEF OneAtMost, NoAgent, Works
  <1>3. TakesUp(Web)' => TakesUp(Web)
    BY <1>1 DEF TakesUp, At
  <1>4. QED
    BY <1>1, <1>2, <1>3, Fewer, Names

LEMMA NextAgent ==
  ASSUME ResearchInv, AgentInv, [Next]_vars
  PROVE  AgentInv'
  <1>1. StateOK
    BY DEF ResearchInv
  <1>2. CASE UNCHANGED vars
    <2>1. UNCHANGED <<running, synths, disp, holes, proc, call>>
      BY <1>2 DEF vars, ours, procs
    <2>2. Works' = Works
      BY <2>1 DEF Works
    <2>3. QED
      BY <2>1, <2>2, StartsAgent, Names
  <1>3. CASE Next
    <2>1. CASE \E c \in Callers : CallStep(c)
      BY <1>1, <2>1, CallStepAgent
    <2>2. CASE \E item \in Items : Request(item)
      BY <1>1, <2>2, RequestAgent
    <2>3. CASE ListDue
      BY <1>1, <2>3, ListDueAgent
    <2>4. CASE Dispatch
      BY <1>1, <2>4, DispatchAgent
    <2>5. CASE HealAgent
      BY <1>1, <2>5, HealAgentAgent
    <2>6. CASE \E c \in Healers, m \in ModelSet : HealPid(c, m) \/ HealList(c, m)
      BY <1>1, <2>6, HealersAgent
    <2>7. CASE Unpin \/ Reconcile
      BY <1>1, <2>7, CronAgent
    <2>8. CASE \E m \in ModelSet, r \in Rounds, ok \in BOOLEAN : SubprocessEnds(m, r, ok)
      BY <1>1, <2>8, SubprocessEndsAgent
    <2>9. CASE \E r \in Rounds, ok \in BOOLEAN : ClaudeEnds(r, ok)
      BY <1>1, <2>9, ClaudeEndsAgent
    <2>10. CASE \E ok \in BOOLEAN : SynthEnds(ok)
      BY <1>1, <2>10, SynthEndsAgent
    <2>11. CASE \E m \in ModelSet, r \in Rounds : ModelDies(m, r)
      BY <1>1, <2>11, ModelDiesAgent
    <2>12. CASE SynthDies
      BY <1>1, <2>12, SynthDiesAgent
    <2>13. QED
      BY <1>3, <2>1, <2>2, <2>3, <2>4, <2>5, <2>6, <2>7, <2>8, <2>9, <2>10, <2>11, <2>12,
         StepsOf
  <1>4. QED
    BY <1>2, <1>3

LEMMA InitAgent == Init => AgentInv
  <1> SUFFICES ASSUME Init PROVE AgentInv
    OBVIOUS
  <1>1. /\ disp.at = "idle" /\ disp.agent = FALSE /\ synths = 0
        /\ \A c \in Callers : Free(c)
    BY NoDispatchOK, NoCallOK DEF Init, Free
  <1>2. Works = {}
    BY Names DEF Init, Works
  <1>3. \A c \in Callers : ~TakesUp(c)
    BY <1>1, TakesUpIs
  <1>4. QED
    BY <1>1, <1>2, <1>3 DEF AgentInv, LaunchesOnce, CompletesLast, AgentRuns, OneAtMost,
       NoAgent, DrainsAlone, ExecutesAlone, HoldsRunning

LEMMA AgentOne == ResearchInv /\ AgentInv => OneAgent
  <1> SUFFICES ASSUME ResearchInv, AgentInv, "overlap" \notin holes
               PROVE  Agents <= 1 /\ (Agents = 1 => running)
    BY DEF OneAgent
  <1>1. OneAtMost /\ (~NoAgent => running)
    BY DEF AgentInv, AgentRuns
  <1>2. Agents = Cardinality(Works) + synths
    BY DEF Agents, Works
  <1>3. CASE Works = {}
    <2>1. Cardinality(Works) = 0 /\ synths \in {0, 1}
      BY <1>1, <1>3, FS_EmptySet DEF OneAtMost
    <2>2. QED
      BY <1>1, <1>2, <2>1 DEF NoAgent
  <1>4. CASE Works # {}
    <2>1. synths = 0 /\ \A r, s \in Works : r = s
      BY <1>1, <1>4 DEF OneAtMost
    <2>2. PICK r \in Works : Works = {r}
      BY <1>4, <2>1
    <2>3. Cardinality(Works) = 1
      BY <2>2, FS_Singleton
    <2>4. QED
      BY <1>1, <1>2, <1>4, <2>1, <2>3 DEF NoAgent
  <1>5. QED
    BY <1>3, <1>4

(* Two threads never have a research agent each, and while one runs the      *)
(* status says so: is_running, next_target and the single action agent are   *)
(* enough, for any number of models, requests, faults and races, as long as  *)
(* no two threads pass the checks before either has acted on them.           *)
THEOREM ResearchOneAgent == Spec => []OneAgent
  <1>1. Init => ResearchInv /\ AgentInv
    BY InitTypes, InitAgent
  <1>2. ResearchInv /\ AgentInv /\ [Next]_vars => (ResearchInv /\ AgentInv)'
    BY NextTypes, NextAgent
  <1>3. ResearchInv /\ AgentInv => OneAgent
    BY AgentOne
  <1>4. QED
    BY <1>1, <1>2, <1>3, PTL DEF Spec

(* ------------------------------ the queue ------------------------------- *)

LEMMA EnqueueKeeps ==
  ASSUME StateOK, NEW c \in Callers, Enqueue(c), NEW item, Lists(ra.queue, item)
  PROVE  Lists(ra'.queue, item)
  <1> DEFINE q == ra.queue
             new == call[c].item
  <1>1. q \in Seq(Items) /\ ra \in ActionData
    BY DEF StateOK, OursOK, GoodData, ActionData
  <1>2. ra'.queue = Queued(q, new)
    BY <1>1 DEF Enqueue, ActionData
  <1> HIDE DEF q, new
  <1>3. PICK i \in DOMAIN q : q[i] = item
    BY DEF Lists, q
  <1>4. new \in Items
    BY CallIs DEF StateOK, new
  <1>5. i \in DOMAIN Queued(q, new) /\ Queued(q, new)[i] = item
    <2>1. CASE Queued(q, new) = q
      BY <1>3, <2>1
    <2>2. CASE Queued(q, new) = Append(q, new)
      <3>1. /\ Append(q, new) \in Seq(Items) /\ Len(Append(q, new)) = Len(q) + 1
            /\ \A j \in 1..Len(q) : Append(q, new)[j] = q[j]
        BY <1>1, <1>4, AppendProperties
      <3>2. Len(q) \in Nat /\ DOMAIN q = 1..Len(q) /\ DOMAIN Append(q, new) = 1..(Len(q) + 1)
        BY <1>1, <3>1, LenProperties
      <3>3. QED
        BY <1>3, <2>2, <3>1, <3>2
    <2>3. QED
      BY <2>1, <2>2 DEF Queued
  <1>6. QED
    BY <1>2, <1>5 DEF Lists

(* Who pops an item has it in hand and goes on to dispatch it.               *)
LEMMA PopKeeps ==
  ASSUME StateOK, NEW c \in Callers, Pop(c), NEW item,
         Lists(ra.queue, item), ~Lists(ra'.queue, item)
  PROVE  Head(ra.queue) = item /\ At(c, "pop") /\ At(c, item.kind)'
  <1>1. ra.queue # <<>>
    BY DEF Pop
  <1>2. ra \in ActionData /\ GoodData(ra)
    BY DEF StateOK, OursOK, GoodData
  <1>3. ra'.queue = Tail(ra.queue)
    BY <1>1, <1>2 DEF Pop, ActionData
  <1>4. Head(ra.queue) = item
    <2>1. PICK i \in DOMAIN ra.queue : ra.queue[i] = item
      BY DEF Lists
    <2>2. i = 1
      BY <1>1, <1>2, <1>3, <2>1, PoppedOK DEF Lists
    <2>3. QED
      BY <1>1, <1>2, <2>1, <2>2, PoppedOK
  <1>5. At(c, item.kind)'
    <2> DEFINE kind == item.kind
               more == <<kind>>
               rest == more \o Tail(call[c].todo)
               k == [Kept(c) EXCEPT !.item = item, !.base = base]
    <2>1. Do(c, more, k)
      BY <1>1, <1>4 DEF Pop
    <2>2. kind \in Steps
      BY <1>1, <1>2, <1>4, PoppedOK DEF Items, Steps
    <2>3. GoodCall(call[c]) /\ Step(c) = "pop" /\ ~Free(c)
      BY AtStep DEF StateOK, CallsOK, Pop, Steps
    <2>4. PICK t : t = call[c].todo
      OBVIOUS
    <2>5. Agenda(t) /\ t # <<>> /\ Head(t) = "pop"
      BY <2>3, <2>4 DEF GoodCall, Step, Free
    <2>6. Agenda(more) /\ more # <<>> /\ Head(more) = kind
      BY <2>2, Agendas
    <2> HIDE DEF more
    <2>7. rest # <<>> /\ Head(rest) = kind /\ Agenda(rest)
      BY <2>4, <2>5, <2>6, RestOf
    <2>8. Kept(c) \in CallRecord
      BY <2>3, KeptOK DEF StateOK, Free
    <2> HIDE DEF rest
    <2>9. [k EXCEPT !.todo = rest].todo = rest
      BY <2>8 DEF CallRecord
    <2>10. call'[c] = [k EXCEPT !.todo = rest]
      BY <2>1, <2>7 DEF Do, rest, StateOK, CallsOK
    <2> HIDE DEF k
    <2>11. call'[c].todo = rest
      BY <2>9, <2>10
    <2>12. QED
      BY <2>7, <2>11 DEF At
  <1>6. QED
    BY <1>4, <1>5 DEF Pop

LEMMA NextQueue ==
  ASSUME ResearchInv, [Next]_vars, NEW item \in Items,
         Lists(ra.queue, item), ~Lists(ra'.queue, item)
  PROVE  \/ Head(ra.queue) = item /\ \E c \in Callers : At(c, "pop") /\ At(c, item.kind)'
         \/ ~DispAt("idle")
         \/ \E c \in Callers : At(c, "launch")
  <1>1. StateOK /\ ra \in ActionData
    BY DEF ResearchInv, StateOK, OursOK, GoodData
  <1>2. ra'.queue # ra.queue
    OBVIOUS
  <1>3. Next
    BY <1>2 DEF vars, ours
  <1>4. CASE \E c \in Callers : CallStep(c)
    <2>1. PICK c \in Callers : CallStep(c)
      BY <1>4
    <2>2. CASE Pop(c)
      BY <1>1, <2>2, PopKeeps
    <2>3. CASE Enqueue(c)
      BY <1>1, <2>3, EnqueueKeeps
    <2>4. CASE LaunchSynthesis(c)
      BY <2>4 DEF LaunchSynthesis
    <2>5. CASE DispatchRun(c) \/ DispatchRerun(c) \/ DispatchSynthesize(c)
      <3>1. ra'.queue = ra.queue
        BY <1>1, <2>5 DEF DispatchRun, DispatchRerun, DispatchSynthesize, TargetTopic,
           ActionData
      <3>2. QED
        BY <1>2, <3>1
    <2>6. CASE Drain(c) \/ SaveEntry(c) \/ Complete(c) \/ Trigger(c) \/ Publish(c) \/ HealMark(c)
      BY <1>2, <2>6 DEF Drain, SaveEntry, Complete, Trigger, Publish, HealMark, ours
    <2>7. QED
      BY <2>1, <2>2, <2>3, <2>4, <2>5, <2>6 DEF CallStep
  <1>5. CASE Dispatch
    BY <1>5 DEF Dispatch, Execute, LaunchSynthTarget, MakeSub, ReadBase, WriteBase,
       LaunchClaude, LaunchSubprocess, RecordPid, LaunchFails, MarkActive, CompleteFailed,
       EndDispatch, LastRun, DispAt
  <1>6. CASE Unpin
    <2>1. ra'.queue = ra.queue
      BY <1>1, <1>6 DEF Unpin, Without, ActionData
    <2>2. QED
      BY <1>2, <2>1
  <1>7. CASE \/ \E i \in Items : Request(i)
             \/ ListDue \/ HealAgent \/ Reconcile \/ SynthDies
             \/ \E c \in Healers, m \in ModelSet : HealPid(c, m) \/ HealList(c, m)
             \/ \E m \in ModelSet, r \in Rounds : ModelDies(m, r)
    BY <1>2, <1>7 DEF Request, ListDue, HealAgent, Reconcile, SynthDies, HealPid, HealList,
       ModelDies, ours
  <1>8. CASE \/ \E m \in ModelSet, r \in Rounds, ok \in BOOLEAN : SubprocessEnds(m, r, ok)
             \/ \E r \in Rounds, ok \in BOOLEAN : ClaudeEnds(r, ok)
             \/ \E ok \in BOOLEAN : SynthEnds(ok)
    BY <1>2, <1>8 DEF SubprocessEnds, ClaudeEnds, SynthEnds, AgentComplete, ours
  <1>9. QED
    BY <1>3, <1>4, <1>5, <1>6, <1>7, <1>8, StepsOf

(* A queued request is never lost: no enqueue, reconciliation or healing     *)
(* drops it.  It leaves by being popped for its dispatch, or when the copy   *)
(* of the whole action that a dispatch or a launch holds is put back.        *)
THEOREM ResearchQueueKept == Spec => QueueKept
  <1>1. Init => ResearchInv
    BY InitTypes
  <1>2. ResearchInv /\ [Next]_vars => ResearchInv'
    BY NextTypes
  <1>3. ResearchInv /\ [Next]_vars =>
          [\A item \in Items :
             Lists(ra.queue, item) /\ ~Lists(ra.queue', item)
               => \/ Head(ra.queue) = item /\ \E c \in Callers : At(c, "pop") /\ At(c, item.kind)'
                  \/ ~DispAt("idle")
                  \/ \E c \in Callers : At(c, "launch")]_vars
    BY NextQueue
  <1>4. QED
    BY <1>1, <1>2, <1>3, PTL DEF Spec, QueueKept

(* --------------------------- the synthesis waits ------------------------- *)

(* While nothing has crossed a dispatch, taken up the queue twice or ended   *)
(* for a deleted entry, a model at work is on record as open: in the base    *)
(* entry, but for the moment in which the dispatch has made its entry and    *)
(* not yet said so, and in the copy that a drain will put back.              *)
Calm == holes \cap {"crossed", "stale", "overlap"} = {}

Open(data, m) == m \in data.ids /\ data.status[m] \notin {"none"} \cup Terminal
Saving == disp.at \in {"read", "write"}
Unsaid(m) == Saving /\ disp.put = "launching" /\ m = Next1
OpenOK == \A m \in ModelSet : Working(m) => Open(base, m) \/ Unsaid(m)
CopiesOpen ==
    \A c \in Callers : Step(c) \in {"run", "rerun"} =>
        \A m \in ModelSet : Working(m) => Open(call[c].base, m)

(* An entry whose model is recorded next has ended; nobody works when the    *)
(* synthesis is triggered.                                                   *)
Over(m, e) == m \in ModelSet /\ sub[m].id = e => ~Working(m)
SavedFirst == \A c \in Callers : Step(c) = "txn" => Over(call[c].m, call[c].e)
NobodyWorks == \A m \in ModelSet : ~Working(m)
ReadyOK == \A c \in Callers : Step(c) = "trigger" => NobodyWorks

(* Nobody else is in the middle of anything during a dispatch.               *)
Amid == TakingUp \cup {"txn", "trigger"}
Undisturbed == disp.at # "idle" => \A c \in Callers \ {Agent} : Step(c) \notin Amid

(* What the dispatch has still to do it does for models on record as not     *)
(* ended, and the entry it has read is the one it saves over.                *)
LoopOK ==
    /\ disp.at \in Loop => \A m \in disp.todo : base.status[m] \notin Terminal
    /\ disp.at \in {"launch", "pid", "mark"} \/ (Saving /\ disp.put = "active")
         => Open(base, Next1)
    /\ disp.at \in Loop \ {"sub"} => sub[Next1].id = disp.e
    /\ disp.at = "write" => disp.read = base
    /\ Saving => disp.put # "none" /\ (disp.put = "failed" => ~Working(Next1))
FailedOK ==
    /\ disp.at = "execute" => disp.failed = {}
    /\ \A f \in disp.failed :
          /\ Over(f[1], f[2])
          /\ f[1] \in disp.todo => Saving /\ disp.put = "failed" /\ f[1] = Next1

Waits == OpenOK /\ CopiesOpen /\ SavedFirst /\ ReadyOK /\ Undisturbed /\ LoopOK /\ FailedOK
WaitInv == Calm => Waits

(* A thread is done with a step, or has found nothing to do: the others and   *)
(* the dispatch stay where they are, and no model begins to work.            *)
LEMMA Onward ==
  ASSUME Waits, NEW c \in Callers, \A d \in Callers \ {c} : call'[d] = call[d],
         disp' = disp, OpenOK',
         \A m \in ModelSet : sub'[m] = sub[m] \/ ~Working(m)',
         disp.at \in Loop => UNCHANGED <<sub, base>>,
         Step(c)' \in {"run", "rerun"} =>
            \A m \in ModelSet : Working(m)' => Open(call'[c].base, m),
         Step(c)' = "txn" => Over(call[c].m, call[c].e)',
         Step(c)' = "trigger" => NobodyWorks',
         disp.at # "idle" /\ c # Agent => Step(c)' \notin Amid
  PROVE  Waits'
  <1>1. \A m \in ModelSet : Working(m)' => Working(m) /\ sub'[m] = sub[m]
    BY DEF Working
  <1>2. \A m, e : Over(m, e) => Over(m, e)'
    BY <1>1 DEF Over
  <1>3. \A d \in Callers \ {c} : Step(d)' = Step(d)
    BY DEF Step, Free
  <1>4. CopiesOpen'
    BY <1>1, <1>3 DEF Waits, CopiesOpen
  <1>5. SavedFirst'
    <2>1. SUFFICES ASSUME NEW d \in Callers, Step(d)' = "txn"
                   PROVE  Over(call[d].m, call[d].e)'
      BY DEF SavedFirst
    <2>2. CASE d = c
      BY <2>1, <2>2
    <2>3. CASE d # c
      BY <1>2, <1>3, <2>1, <2>3 DEF Waits, SavedFirst
    <2>4. QED
      BY <2>2, <2>3
  <1>6. NobodyWorks => NobodyWorks'
    BY <1>1 DEF NobodyWorks
  <1>7. ReadyOK' /\ Undisturbed'
    BY <1>3, <1>6 DEF Waits, ReadyOK, Undisturbed
  <1>8. Next1' = Next1
    BY NextStays
  <1>9. LoopOK'
    <2>1. CASE disp.at \in Loop
      BY <1>8, <2>1 DEF Waits, LoopOK, Saving, Working
    <2>2. CASE disp.at \notin Loop
      BY <2>2 DEF LoopOK, Saving, Loop
    <2>3. QED
      BY <2>1, <2>2
  <1>10. FailedOK'
    BY <1>2, <1>8 DEF Waits, FailedOK, Saving
  <1>11. QED
    BY <1>4, <1>5, <1>7, <1>9, <1>10 DEF Waits

LEMMA SameOpen ==
  ASSUME OpenOK, disp' = disp,
         \A m \in ModelSet : Working(m)' => Working(m) /\ (Open(base, m) => Open(base', m))
  PROVE  OpenOK'
  <1>1. Next1' = Next1
    BY NextStays
  <1>2. \A m \in ModelSet : Unsaid(m) => Unsaid(m)'
    BY <1>1 DEF Unsaid, Saving
  <1>3. QED
    BY <1>2 DEF OpenOK

LEMMA StaysCalm ==
  ASSUME holes \subseteq holes', Calm'
  PROVE  Calm
  BY DEF Calm

(* A thread comes to a step that asks for nothing.                           *)
LEMMA StillWaits ==
  ASSUME WaitInv, NEW c \in Callers, \A d \in Callers \ {c} : call'[d] = call[d],
         UNCHANGED <<sub, base, disp>>, holes \subseteq holes', Step(c)' \notin Amid
  PROVE  WaitInv'
  <1> SUFFICES ASSUME Calm' PROVE Waits'
    BY DEF WaitInv
  <1>1. Waits
    BY StaysCalm DEF WaitInv
  <1>2. \A m \in ModelSet : sub'[m] = sub[m] /\ (Working(m)' => Working(m))
    BY DEF Working
  <1>3. OpenOK'
    BY <1>1, <1>2, SameOpen DEF Waits
  <1>4. Step(c)' \notin {"run", "rerun", "txn", "trigger"}
    BY DEF Amid, TakingUp
  <1>5. QED
    BY <1>1, <1>2, <1>3, <1>4, Onward

LEMMA DoneWaits ==
  ASSUME StateOK, WaitInv, NEW c \in Callers, ~Free(c), Done(c), Step(c) # "save",
         UNCHANGED <<sub, base, disp>>, holes \subseteq holes'
  PROVE  WaitInv'
  <1>1. /\ Step(c)' \in Later \cup {"none"} /\ Step(c)' # "txn"
        /\ \A d \in Callers \ {c} : call'[d] = call[d]
    BY DoneOK DEF StateOK
  <1>2. Step(c)' \notin Amid
    BY <1>1 DEF Later, Saves, Amid, TakingUp
  <1>3. QED
    BY <1>1, <1>2, StillWaits

(* A thread in the middle of something has no dispatch's loop beside it.     *)
LEMMA NoLoop ==
  ASSUME Waits, AgentInv, NEW c \in Callers, Step(c) \in Amid
  PROVE  disp.at \in {"idle", "fails"} /\ (c # Agent => disp.at = "idle")
         /\ disp.at \notin Loop /\ ~Free(c)
  <1>1. ~Free(c)
    BY DEF Step, Amid, TakingUp
  <1>2. c # Agent => disp.at = "idle"
    BY DEF Waits, Undisturbed
  <1>3. QED
    BY <1>1, <1>2, Busy DEF Loop

LEMMA DrainWaits ==
  ASSUME StateOK, AgentInv, WaitInv, NEW c \in Callers, Drain(c)
  PROVE  WaitInv'
  <1>1. /\ ~Free(c) /\ Step(c) = "drain" /\ UNCHANGED <<sub, base, disp>>
        /\ holes \subseteq holes'
    BY AtStep DEF Drain, Steps, entries
  <1>2. CASE ~MayDrain
    <2>1. Done(c)
      BY <1>2 DEF Drain, Done
    <2>2. QED
      BY <1>1, <2>1, DoneWaits
  <1>3. CASE MayDrain
    <2>1. SUFFICES ASSUME Calm' PROVE Waits'
      BY DEF WaitInv
    <2>2. Waits
      BY <1>1, <2>1, StaysCalm DEF WaitInv
    <2>3. c # Agent => disp.at = "idle"
      BY <1>3, <2>1 DEF Drain, Calm, Crossed, DispAt
    <2>4. disp.at \notin Loop
      BY <1>1, <2>3, Busy DEF Loop
    <2> DEFINE k == Kept(c)
               more == <<"pop">>
    <2>5. /\ Agenda(more) /\ Head(more) = "pop" /\ more # <<>> /\ ~HasSaves(more)
      BY Agendas DEF Steps, Ending, Saves
    <2>6. Do(c, more, k) /\ k \in CallRecord /\ k.ra = NewAction
          /\ (HasSaves(Tail(call[c].todo)) => k.as \in Terminal)
      BY <1>1, <1>3, KeptOK DEF Drain, StateOK, Free
    <2>7. OneOfAKind(k.ra.queue)
      BY <2>6, NewDataOK DEF GoodData
    <2> HIDE DEF k, more
    <2>8. Step(c)' = "pop" /\ \A d \in Callers \ {c} : call'[d] = call[d]
      BY <1>1, <2>5, <2>6, <2>7, DoOK DEF StateOK
    <2>9. \A m \in ModelSet : sub'[m] = sub[m] /\ (Working(m)' => Working(m))
      BY <1>1 DEF Working
    <2>10. OpenOK'
      BY <1>1, <2>2, <2>9, SameOpen DEF Waits
    <2>11. QED
      BY <1>1, <2>2, <2>3, <2>8, <2>9, <2>10, Onward
  <1>4. QED
    BY <1>2, <1>3

(* What a drain reads at its pop is the base entry as it is.                 *)
LEMMA PopWaits ==
  ASSUME StateOK, AgentInv, WaitInv, NEW c \in Callers, Pop(c)
  PROVE  WaitInv'
  <1>1. /\ ~Free(c) /\ Step(c) = "pop" /\ UNCHANGED <<sub, base, disp, holes>>
    BY AtStep DEF Pop, Steps, entries
  <1>2. CASE ra.queue = <<>>
    BY <1>1, <1>2, DoneWaits DEF Pop
  <1>3. CASE ra.queue # <<>>
    <2>1. SUFFICES ASSUME Calm' PROVE Waits'
      BY DEF WaitInv
    <2>2. Waits
      BY <1>1, <2>1, StaysCalm DEF WaitInv
    <2>3. /\ disp.at \in {"idle", "fails"} /\ (c # Agent => disp.at = "idle")
          /\ disp.at \notin Loop
      BY <1>1, <2>2, NoLoop DEF Amid, TakingUp
    <2> DEFINE item == Head(ra.queue)
               k == [Kept(c) EXCEPT !.item = item, !.base = base]
               more == <<item.kind>>
    <2>4. /\ Kept(c) \in CallRecord /\ Kept(c).ra = NewAction
          /\ HasSaves(Tail(call[c].todo)) => Kept(c).as \in Terminal
      BY <1>1, KeptOK DEF StateOK, Free
    <2>5. item \in Items
      BY <1>3, PoppedOK DEF Pop, StateOK, OursOK
    <2>6. base \in BaseData
      BY DEF StateOK, EntriesOK
    <2>7. Do(c, more, k)
      BY <1>3 DEF Pop
    <2>8. item.kind \in Steps /\ item.kind \in {"run", "rerun", "synthesize"}
      BY <2>5 DEF Items, Steps
    <2> HIDE DEF item
    <2>9. k \in CallRecord /\ k.ra = NewAction /\ k.as = Kept(c).as /\ k.base = base
      BY <2>4, <2>5, <2>6 DEF CallRecord
    <2> HIDE DEF k
    <2>10. OneOfAKind(k.ra.queue)
      BY <2>9, NewDataOK DEF GoodData
    <2>11. Agenda(more) /\ more # <<>> /\ Head(more) = item.kind /\ ~HasSaves(more)
      BY <2>8, Agendas DEF Saves, Ending
    <2> HIDE DEF more
    <2>12. /\ Step(c)' = item.kind /\ call'[c].base = base
           /\ \A d \in Callers \ {c} : call'[d] = call[d]
      BY <1>1, <2>4, <2>7, <2>8, <2>9, <2>10, <2>11, DoOK DEF StateOK
    <2>13. \A m \in ModelSet : sub'[m] = sub[m] /\ (Working(m)' => Working(m))
      BY <1>1 DEF Working
    <2>14. OpenOK'
      BY <1>1, <2>2, <2>13, SameOpen DEF Waits
    <2>15. \A m \in ModelSet : Working(m) => Open(base, m)
      BY <2>2, <2>3 DEF Waits, OpenOK, Unsaid, Saving
    <2>16. Step(c)' \notin {"txn", "trigger"}
      BY <2>8, <2>12
    <2>17. QED
      BY <1>1, <2>2, <2>3, <2>12, <2>13, <2>14, <2>15, <2>16, Onward
  <1>4. QED
    BY <1>2, <1>3

(* The copy of a drain goes back: what works is open in it, and a model that  *)
(* is rerun has no entry to work on.                                          *)
LEMMA DispatchRunWaits ==
  ASSUME StateOK, AgentInv, WaitInv, NEW c \in Callers, DispatchRun(c)
  PROVE  WaitInv'
  <1>1. /\ ~Free(c) /\ Step(c) = "run" /\ Done(c) /\ base' = call[c].base
        /\ UNCHANGED <<sub, disp, holes>>
    BY AtStep DEF DispatchRun, Steps
  <1> SUFFICES ASSUME Calm' PROVE Waits'
    BY DEF WaitInv
  <1>2. Waits
    BY <1>1, StaysCalm DEF WaitInv
  <1>3. disp.at \notin Loop
    BY <1>1, <1>2, NoLoop DEF Amid, TakingUp
  <1>4. /\ Step(c)' \in Later \cup {"none"} /\ Step(c)' # "txn"
        /\ \A d \in Callers \ {c} : call'[d] = call[d]
    BY <1>1, DoneOK DEF StateOK
  <1>5. Step(c)' \notin Amid /\ Step(c)' \notin {"run", "rerun", "txn", "trigger"}
    BY <1>4 DEF Later, Saves, Amid, TakingUp
  <1>6. \A m \in ModelSet : sub'[m] = sub[m] /\ (Working(m)' => Working(m))
    BY <1>1 DEF Working
  <1>7. OpenOK'
    BY <1>1, <1>2, <1>6 DEF Waits, CopiesOpen, OpenOK
  <1>8. QED
    BY <1>1, <1>2, <1>3, <1>4, <1>5, <1>6, <1>7, Onward

LEMMA RerunOpen ==
  ASSUME NEW b \in BaseData, NEW models \in SUBSET ModelSet, NEW m \in ModelSet \ models,
         Open(b, m)
  PROVE  Open(RerunMarks(b, models), m)
  <1> DEFINE st == [n \in ModelSet |->
                  CASE n \in models         -> "rerun"
                    [] b.status[n] = "none" -> "done"
                    [] OTHER                -> b.status[n]]
  <1>1. RerunMarks(b, models) = [b EXCEPT !.status = st, !.triggered = FALSE]
    BY DEF RerunMarks, Marked, BaseData
  <1>2. st[m] = b.status[m]
    BY DEF Open
  <1> HIDE DEF st
  <1>3. RerunMarks(b, models).status = st /\ RerunMarks(b, models).ids = b.ids
    BY <1>1 DEF BaseData
  <1>4. QED
    BY <1>2, <1>3 DEF Open

LEMMA DispatchRerunWaits ==
  ASSUME StateOK, AgentInv, WaitInv, NEW c \in Callers, DispatchRerun(c)
  PROVE  WaitInv'
  <1> DEFINE models == call[c].item.models
  <1>1. /\ ~Free(c) /\ Step(c) = "rerun" /\ Done(c) /\ UNCHANGED <<disp, holes>>
        /\ base' = RerunMarks(call[c].base, models)
        /\ sub' = [m \in ModelSet |-> IF m \in models THEN NoEntry ELSE sub[m]]
    BY AtStep DEF DispatchRerun, Steps
  <1> SUFFICES ASSUME Calm' PROVE Waits'
    BY DEF WaitInv
  <1>2. Waits
    BY <1>1, StaysCalm DEF WaitInv
  <1>3. disp.at \notin Loop
    BY <1>1, <1>2, NoLoop DEF Amid, TakingUp
  <1>4. /\ Step(c)' \in Later \cup {"none"} /\ Step(c)' # "txn"
        /\ \A d \in Callers \ {c} : call'[d] = call[d]
    BY <1>1, DoneOK DEF StateOK
  <1>5. Step(c)' \notin Amid /\ Step(c)' \notin {"run", "rerun", "txn", "trigger"}
    BY <1>4 DEF Later, Saves, Amid, TakingUp
  <1>6. call[c].base \in BaseData /\ models \in SUBSET ModelSet
    <2>1. call[c].base \in BaseData /\ call[c].item \in Items
      BY CallIs DEF StateOK
    <2>2. QED
      BY <2>1 DEF Items
  <1> HIDE DEF models
  <1>7. \A m \in ModelSet : IF m \in models THEN ~Working(m)'
                            ELSE sub'[m] = sub[m] /\ (Working(m)' => Working(m))
    BY <1>1, NoEntryOK DEF Working
  <1>8. OpenOK'
    <2> SUFFICES ASSUME NEW m \in ModelSet, Working(m)' PROVE Open(base', m)
      BY DEF OpenOK
    <2>1. m \notin models /\ Working(m)
      BY <1>7
    <2>2. Open(call[c].base, m)
      BY <1>1, <1>2, <2>1 DEF Waits, CopiesOpen
    <2>3. QED
      BY <1>1, <1>6, <2>1, <2>2, RerunOpen
  <1>9. QED
    BY <1>1, <1>2, <1>3, <1>4, <1>5, <1>7, <1>8, Onward

LEMMA TriggeredOpen ==
  ASSUME NEW b \in BaseData, NEW m
  PROVE  Open([b EXCEPT !.triggered = TRUE], m) <=> Open(b, m)
  BY DEF BaseData, Open

LEMMA DispatchSynthesizeWaits ==
  ASSUME StateOK, AgentInv, WaitInv, NEW c \in Callers, DispatchSynthesize(c)
  PROVE  WaitInv'
  <1>1. ~Free(c) /\ Step(c) = "synthesize" /\ UNCHANGED <<sub, disp, holes>>
    BY AtStep DEF DispatchSynthesize, Steps
  <1>2. CASE call[c].base.ids = {}
    BY <1>1, <1>2, DoneWaits DEF DispatchSynthesize
  <1>3. CASE call[c].base.ids # {}
    <2> SUFFICES ASSUME Calm' PROVE Waits'
      BY DEF WaitInv
    <2>1. Waits
      BY <1>1, StaysCalm DEF WaitInv
    <2>2. disp.at \notin Loop /\ (c # Agent => disp.at = "idle")
      BY <1>1, <2>1, NoLoop DEF Amid, TakingUp
    <2>3. Step(c)' = "launch" /\ \A d \in Callers \ {c} : call'[d] = call[d]
      <3> DEFINE k == [Kept(c) EXCEPT !.ra = ra']
                 more == <<"launch">>
                 t == more \o Tail(call[c].todo)
      <3>1. /\ Kept(c) \in CallRecord /\ Agenda(call[c].todo) /\ call[c].todo # <<>>
            /\ Head(call[c].todo) # "save"
        BY <1>1, KeptOK, CallIs DEF StateOK, Free
      <3>2. Agenda(more) /\ more # <<>> /\ Head(more) = "launch"
        BY Agendas DEF Steps
      <3> HIDE DEF more
      <3>3. t # <<>> /\ Head(t) = "launch" /\ Agenda(t)
        BY <3>1, <3>2, RestOf
      <3>4. t \in Seq(Steps)
        BY <3>3 DEF Agenda
      <3>5. Do(c, more, k)
        BY <1>3 DEF DispatchSynthesize, more
      <3> HIDE DEF t
      <3>6. call' = [call EXCEPT ![c] = [k EXCEPT !.todo = t]]
        BY <3>3, <3>5 DEF Do, t
      <3>7. [k EXCEPT !.todo = t].todo = t
        BY <3>1, <3>4 DEF CallRecord
      <3> HIDE DEF k
      <3>8. /\ call'[c].todo = t /\ \A d \in Callers \ {c} : call'[d] = call[d]
        BY <3>6, <3>7 DEF StateOK, CallsOK
      <3>9. QED
        BY <3>3, <3>8 DEF Step, Free
    <2>4. base' = [base EXCEPT !.triggered = TRUE] /\ base \in BaseData
      BY <1>3 DEF DispatchSynthesize, StateOK, EntriesOK
    <2>5. \A m \in ModelSet : /\ sub'[m] = sub[m] /\ (Working(m)' => Working(m))
                              /\ Open(base, m) => Open(base', m)
      BY <1>1, <2>4, TriggeredOpen DEF Working
    <2>6. OpenOK'
      BY <1>1, <2>1, <2>5, SameOpen DEF Waits
    <2>7. QED
      BY <1>1, <2>1, <2>2, <2>3, <2>5, <2>6, Onward
  <1>4. QED
    BY <1>2, <1>3

(* An entry is saved as ended; then its model is recorded.                   *)
LEMMA SaveEntryWaits ==
  ASSUME StateOK, AgentInv, WaitInv, NEW c \in Callers, SaveEntry(c)
  PROVE  WaitInv'
  <1> DEFINE m == call[c].m
  <1>1. /\ ~Free(c) /\ Step(c) = "save" /\ Done(c) /\ UNCHANGED <<base, disp>>
        /\ holes' = holes \cup Crossed(c)
        /\ sub' = IF m \in ModelSet /\ sub[m].id = call[c].e
                  THEN [sub EXCEPT ![m].status = call[c].as] ELSE sub
    BY AtStep DEF SaveEntry, Steps
  <1> SUFFICES ASSUME Calm' PROVE Waits'
    BY DEF WaitInv
  <1>2. Waits
    BY <1>1, StaysCalm DEF WaitInv
  <1>3. c # Agent => disp.at = "idle"
    BY <1>1 DEF Calm, Crossed, DispAt
  <1>4. disp.at \notin Loop
    BY <1>1, <1>3, Busy DEF Loop
  <1>5. Step(c)' \in Later \cup {"none"} /\ \A d \in Callers \ {c} : call'[d] = call[d]
    BY <1>1, DoneOK DEF StateOK
  <1>6. Step(c)' \notin {"run", "rerun", "trigger"}
    BY <1>5 DEF Later, Saves
  <1>7. call[c].as \in Terminal
    BY <1>1, CallIs DEF StateOK, Ending, Saves
  <1>8. /\ \A n \in ModelSet : sub'[n] = sub[n] \/ ~Working(n)'
        /\ \A n \in ModelSet : n = m /\ sub[n].id = call[c].e => ~Working(n)'
        /\ \A n \in ModelSet : sub'[n].id = sub[n].id
    <2>1. CASE m \in ModelSet /\ sub[m].id = call[c].e
      <3>1. PICK n \in ModelSet : n = m
        BY <2>1
      <3>2. sub[n] \in SubEntry /\ sub \in [ModelSet -> SubEntry]
        BY DEF StateOK, EntriesOK
      <3>3. sub' = [sub EXCEPT ![n].status = call[c].as]
        BY <1>1, <2>1, <3>1
      <3>4. /\ sub'[n].status = call[c].as /\ sub'[n].id = sub[n].id
            /\ \A o \in ModelSet \ {n} : sub'[o] = sub[o]
        BY <3>2, <3>3 DEF SubEntry
      <3>5. ~Working(n)'
        BY <1>7, <3>4 DEF Working, Terminal
      <3>6. QED
        BY <3>1, <3>4, <3>5
    <2>2. CASE ~(m \in ModelSet /\ sub[m].id = call[c].e)
      BY <1>1, <2>2
    <2>3. QED
      BY <2>1, <2>2
  <1>9. OpenOK'
    <2>1. \A n \in ModelSet : Working(n)' => Working(n) /\ (Open(base, n) => Open(base', n))
      BY <1>1, <1>8 DEF Working
    <2>2. QED
      BY <1>1, <1>2, <2>1, SameOpen DEF Waits
  <1>10. Step(c)' = "txn" => Over(call[c].m, call[c].e)'
    <2>1. SUFFICES ASSUME Step(c)' = "txn"
                   PROVE  call'[c].m = m /\ call'[c].e = call[c].e
      BY <1>8 DEF Over
    <2> DEFINE t == Tail(call[c].todo)
               k == [NoCall EXCEPT !.m = call[c].m, !.e = call[c].e, !.as = call[c].as]
               r == [Kept(c) EXCEPT !.todo = t]
    <2>2. call[c].todo \in Seq(Steps) /\ call[c].todo # <<>>
      BY <1>1, CallIs DEF StateOK, Free, Agenda
    <2>3. t \in Seq(Steps) /\ <<>> \o t = t
      BY <2>2
    <2>4. call' = [call EXCEPT ![c] = IF t = <<>> THEN NoCall ELSE r]
      BY <1>1, <2>3 DEF Done, Do
    <2>5. call'[c] = IF t = <<>> THEN NoCall ELSE r
      BY <2>4 DEF StateOK, CallsOK
    <2>6. NoCall.todo = <<>> /\ NoCall \in CallRecord
      BY NoCallOK DEF GoodCall
    <2>7. t # <<>>
      BY <2>1, <2>5, <2>6 DEF Step, Free
    <2>8. Kept(c) \in CallRecord
      BY <1>1, KeptOK DEF StateOK, Free
    <2>9. r.todo = t /\ r.m = Kept(c).m /\ r.e = Kept(c).e
      BY <2>8 DEF CallRecord
    <2>10. Head(t) = "txn"
      BY <2>1, <2>5, <2>7, <2>9 DEF Step, Free
    <2>11. Range(t) \cap {"save", "txn", "publish"} # {}
      <3>1. 1 \in DOMAIN t /\ t[1] = "txn"
        BY <2>3, <2>7, <2>10
      <3>2. QED
        BY <3>1 DEF Range
    <2>12. Kept(c) = k
      BY <2>11 DEF Kept
    <2>13. k.m = call[c].m /\ k.e = call[c].e
      BY <2>6 DEF CallRecord
    <2>14. QED
      BY <2>5, <2>7, <2>9, <2>12, <2>13
  <1>11. QED
    BY <1>1, <1>2, <1>3, <1>4, <1>5, <1>6, <1>8, <1>9, <1>10, Onward

(* A completion records a model that has ended; if it finds every one ended, *)
(* nobody works, for who works is on record as open.                         *)
LEMMA CompleteWaits ==
  ASSUME StateOK, AgentInv, WaitInv, NEW c \in Callers, Complete(c)
  PROVE  WaitInv'
  <1> DEFINE more == IF AllTerminal(base') /\ ~base'.triggered THEN <<"trigger">> ELSE <<>>
             k == Kept(c)
  <1>1. /\ ~Free(c) /\ Step(c) = "txn" /\ Do(c, more, k) /\ UNCHANGED <<sub, disp>>
        /\ base' = Recorded(call[c].m, call[c].as)
        /\ holes' = holes \cup Crossed(c) \cup Stale(call[c].m, call[c].e)
    BY AtStep DEF Complete, Steps
  <1> SUFFICES ASSUME Calm' PROVE Waits'
    BY DEF WaitInv
  <1>2. Waits
    BY <1>1, StaysCalm DEF WaitInv
  <1>3. c # Agent => disp.at = "idle"
    BY <1>1 DEF Calm, Crossed, DispAt
  <1>4. disp.at \notin Loop
    BY <1>1, <1>3, Busy DEF Loop
  <1>5. call[c].m \in ModelSet => ~Working(call[c].m)
    <2>1. call[c].m \in ModelSet => sub[call[c].m].id = call[c].e
      BY <1>1 DEF Calm, Stale
    <2>2. QED
      BY <1>1, <1>2, <2>1 DEF Waits, SavedFirst, Over
  <1>6. \A n \in ModelSet : Working(n) => Open(base, n)
    BY <1>2, <1>4 DEF Waits, OpenOK, Unsaid, Saving, Loop
  <1>7. \A n \in ModelSet : Working(n) => Open(base', n)
    <2> SUFFICES ASSUME NEW n \in ModelSet, Working(n) PROVE Open(base', n)
      OBVIOUS
    <2>1. n # call[c].m /\ Open(base, n)
      BY <1>5, <1>6
    <2>2. PICK b \in BaseData : b = base
      BY DEF StateOK, EntriesOK
    <2>3. b.status \in [ModelSet -> Statuses]
      BY BaseIs
    <2>4. base'.ids = b.ids /\ base'.status[n] = b.status[n]
      BY <1>1, <2>1, <2>2, <2>3 DEF Recorded, BaseData
    <2>5. QED
      BY <2>1, <2>2, <2>4 DEF Open
  <1>8. /\ Agenda(more) /\ ~HasSaves(more)
        /\ more # <<>> => Head(more) = "trigger" /\ AllTerminal(base')
    BY Agendas DEF Steps, Saves, Ending
  <1>9. k \in CallRecord /\ k.ra = NewAction /\ (HasSaves(Tail(call[c].todo)) => k.as \in Terminal)
    BY <1>1, KeptOK DEF StateOK, Free
  <1>10. OneOfAKind(k.ra.queue)
    BY <1>9, NewDataOK DEF GoodData
  <1> HIDE DEF more, k
  <1>11. /\ \A d \in Callers \ {c} : call'[d] = call[d]
         /\ more # <<>> => Step(c)' = "trigger"
         /\ more = <<>> => Step(c)' \in Later \cup {"none"} /\ Step(c)' # "txn"
    BY <1>1, <1>8, <1>9, <1>10, DoOK DEF StateOK
  <1>12. Step(c)' \notin {"run", "rerun", "txn"}
    BY <1>11 DEF Later, Saves
  <1>13. Step(c)' = "trigger" => AllTerminal(base')
    BY <1>8, <1>11 DEF Later, Saves
  <1>14. \A n \in ModelSet : sub'[n] = sub[n] /\ (Working(n)' <=> Working(n))
    BY <1>1 DEF Working
  <1>15. Step(c)' = "trigger" => NobodyWorks'
    BY <1>7, <1>13, <1>14 DEF AllTerminal, NobodyWorks, Open
  <1>16. OpenOK'
    BY <1>7, <1>14 DEF OpenOK
  <1>17. c # Agent => disp.at = "idle"
    BY <1>3
  <1>18. QED
    BY <1>1, <1>2, <1>4, <1>11, <1>12, <1>14, <1>15, <1>16, <1>17, Onward

LEMMA TriggerWaits ==
  ASSUME StateOK, AgentInv, WaitInv, NEW c \in Callers, Trigger(c)
  PROVE  WaitInv'
  <1>1. ~Free(c) /\ Step(c) = "trigger" /\ UNCHANGED <<sub, disp, holes>>
    BY AtStep DEF Trigger, Steps
  <1>2. CASE ~StillUntriggered
    BY <1>1, <1>2, DoneWaits DEF Trigger
  <1>3. CASE StillUntriggered
    <2> DEFINE k == [Kept(c) EXCEPT !.item = Item("synthesize", {})]
               t == <<"enqueue", "drain">>
    <2> SUFFICES ASSUME Calm' PROVE Waits'
      BY DEF WaitInv
    <2>1. Waits
      BY <1>1, StaysCalm DEF WaitInv
    <2>2. disp.at \notin Loop
      BY <1>1, <2>1, NoLoop DEF Amid
    <2>3. Do(c, t, k)
      BY <1>3 DEF Trigger
    <2>4. Agenda(t) /\ t # <<>> /\ Head(t) = "enqueue" /\ ~HasSaves(t)
      BY Agendas
    <2>5. /\ Kept(c) \in CallRecord /\ Kept(c).ra = NewAction
          /\ HasSaves(Tail(call[c].todo)) => Kept(c).as \in Terminal
      BY <1>1, KeptOK DEF StateOK, Free
    <2>6. k \in CallRecord /\ k.ra = NewAction /\ k.as = Kept(c).as
      BY <2>5, NewDataOK DEF CallRecord
    <2> HIDE DEF k, t
    <2>7. OneOfAKind(k.ra.queue)
      BY <2>6, NewDataOK DEF GoodData
    <2>8. Step(c)' = "enqueue" /\ \A d \in Callers \ {c} : call'[d] = call[d]
      BY <1>1, <2>3, <2>4, <2>5, <2>6, <2>7, DoOK DEF StateOK
    <2>9. base' = [base EXCEPT !.triggered = TRUE] /\ base \in BaseData
      BY <1>3 DEF Trigger, StateOK, EntriesOK
    <2>10. \A m \in ModelSet : /\ sub'[m] = sub[m] /\ (Working(m)' => Working(m))
                               /\ Open(base, m) => Open(base', m)
      BY <1>1, <2>9, TriggeredOpen DEF Working
    <2>11. OpenOK'
      BY <1>1, <2>1, <2>10, SameOpen DEF Waits
    <2>12. Step(c)' \notin Amid /\ Step(c)' \notin {"run", "rerun", "txn", "trigger"}
      BY <2>8 DEF Amid, TakingUp
    <2>13. QED
      BY <1>1, <2>1, <2>2, <2>8, <2>10, <2>11, <2>12, Onward
  <1>4. QED
    BY <1>2, <1>3

LEMMA HealMarkWaits ==
  ASSUME StateOK, WaitInv, NEW c \in Callers, HealMark(c)
  PROVE  WaitInv'
  <1> DEFINE more == IF HasLivePid(call[c].m) THEN <<>> ELSE <<"save", "txn">>
             k == call[c]
  <1>1. /\ ~Free(c) /\ Step(c) = "healmark" /\ UNCHANGED <<sub, base, disp, holes>>
    BY AtStep DEF HealMark, Steps, entries
  <1>2. Agenda(more) /\ (more # <<>> => Head(more) = "save") /\ Do(c, more, k)
    BY Agendas DEF HealMark
  <1>3. k \in CallRecord /\ OneOfAKind(k.ra.queue) /\ k.as \in Terminal
    BY <1>1, CallIs DEF StateOK, GoodData, Ending
  <1> HIDE DEF more
  <1>4. /\ \A d \in Callers \ {c} : call'[d] = call[d]
        /\ more # <<>> => Step(c)' = Head(more)
        /\ more = <<>> => Step(c)' \in Later \cup {"none"} /\ Step(c)' # "txn"
    BY <1>1, <1>2, <1>3, DoOK DEF StateOK
  <1>5. Step(c)' \notin Amid
    BY <1>2, <1>4 DEF Amid, TakingUp, Later, Saves
  <1>6. QED
    BY <1>1, <1>4, <1>5, StillWaits

LEMMA CallStepWaits ==
  ASSUME StateOK, AgentInv, WaitInv, NEW c \in Callers, CallStep(c)
  PROVE  WaitInv'
  <1>1. CASE Enqueue(c)
    <2>1. ~Free(c) /\ Step(c) = "enqueue" /\ Done(c) /\ UNCHANGED <<sub, base, disp, holes>>
      BY <1>1, AtStep DEF Enqueue, Steps, entries
    <2>2. QED
      BY <2>1, DoneWaits
  <1>2. CASE Drain(c)               BY <1>2, DrainWaits
  <1>3. CASE Pop(c)                 BY <1>3, PopWaits
  <1>4. CASE DispatchRun(c)         BY <1>4, DispatchRunWaits
  <1>5. CASE DispatchRerun(c)       BY <1>5, DispatchRerunWaits
  <1>6. CASE DispatchSynthesize(c)  BY <1>6, DispatchSynthesizeWaits
  <1>7. CASE LaunchSynthesis(c)
    <2>1. ~Free(c) /\ Step(c) = "launch" /\ Done(c) /\ UNCHANGED <<sub, base, disp, holes>>
      BY <1>7, AtStep DEF LaunchSynthesis, Steps, entries
    <2>2. QED
      BY <2>1, DoneWaits
  <1>8. CASE SaveEntry(c)           BY <1>8, SaveEntryWaits
  <1>9. CASE Complete(c)            BY <1>9, CompleteWaits
  <1>10. CASE Trigger(c)            BY <1>10, TriggerWaits
  <1>11. CASE Publish(c)
    <2>1. ~Free(c) /\ Step(c) = "publish" /\ Done(c) /\ UNCHANGED <<sub, base, disp, holes>>
      BY <1>11, AtStep DEF Publish, Steps
    <2>2. QED
      BY <2>1, DoneWaits
  <1>12. CASE HealMark(c)           BY <1>12, HealMarkWaits
  <1>13. QED
    BY <1>1, <1>2, <1>3, <1>4, <1>5, <1>6, <1>7, <1>8, <1>9, <1>10, <1>11, <1>12 DEF CallStep

(* Beside a dispatch that is not at its completions nobody is in the middle  *)
(* of anything.                                                              *)
LEMMA NobodyElse ==
  ASSUME Waits, AgentInv, disp.at \notin {"idle", "fails"}, UNCHANGED call
  PROVE  CopiesOpen' /\ SavedFirst' /\ ReadyOK' /\ Undisturbed'
  <1>1. ASSUME NEW c \in Callers PROVE Step(c) \notin Amid
    BY NoLoop
  <1>2. \A c \in Callers : Step(c)' = Step(c)
    BY DEF Step, Free
  <1>3. \A c \in Callers : Step(c)' \notin {"run", "rerun", "txn", "trigger"} /\ Step(c)' \notin Amid
    BY <1>1, <1>2 DEF Amid, TakingUp
  <1>4. QED
    BY <1>3 DEF CopiesOpen, SavedFirst, ReadyOK, Undisturbed

(* A dispatch outside its loop.                                              *)
LEMMA OutsideWaits ==
  ASSUME Waits, disp.at \notin Loop, disp'.at \notin Loop \cup {"execute"},
         UNCHANGED <<sub, base>>, disp'.failed \subseteq disp.failed, disp'.todo = disp.todo
  PROVE  OpenOK' /\ LoopOK' /\ FailedOK'
  <1>1. \A m \in ModelSet : (Working(m)' => Working(m)) /\ ~Unsaid(m)
    BY DEF Working, Unsaid, Saving, Loop
  <1>2. OpenOK'
    BY <1>1 DEF Waits, OpenOK
  <1>3. LoopOK'
    BY DEF LoopOK, Saving, Loop
  <1>4. \A f \in disp'.failed : f[1] \notin disp'.todo
    BY DEF Waits, FailedOK, Saving, Loop
  <1>5. \A m, e : Over(m, e) => Over(m, e)'
    BY <1>1 DEF Over
  <1>6. FailedOK'
    BY <1>4, <1>5 DEF Waits, FailedOK
  <1>7. QED
    BY <1>2, <1>3, <1>6

(* A dispatch begins while nobody else is in the middle of anything.         *)
LEMMA ListDueWaits ==
  ASSUME StateOK, AgentInv, WaitInv, ListDue
  PROVE  WaitInv'
  <1>1. /\ disp.at = "idle" /\ Free(Agent) /\ UNCHANGED <<sub, base, call>>
        /\ disp' = [NoDispatch EXCEPT !.at = "execute", !.ra = ra]
        /\ holes' = holes \cup Overlap(Agent)
                          \cup (IF \E c \in Callers \ {Agent} : Completes(c)
                                THEN {"crossed"} ELSE {})
    BY DEF ListDue, DispAt, entries
  <1> SUFFICES ASSUME Calm' PROVE Waits'
    BY DEF WaitInv
  <1>2. Waits
    BY <1>1, StaysCalm DEF WaitInv
  <1>3. \A c \in Callers \ {Agent} : ~Draining(c) /\ ~Completes(c)
    BY <1>1 DEF Calm, Overlap
  <1>4. \A c \in Callers : Step(c)' = Step(c)
    BY <1>1 DEF Step, Free
  <1>5. \A c \in Callers \ {Agent} : Step(c) \notin Amid
    BY <1>3 DEF Draining, Completes, Amid, TakingUp, At, Step, Free
  <1>6. Step(Agent) = "none"
    BY <1>1 DEF Step
  <1>7. \A c \in Callers : Step(c)' \notin {"run", "rerun", "txn", "trigger"} /\ Step(c)' \notin Amid
    BY <1>4, <1>5, <1>6 DEF Amid, TakingUp
  <1>8. CopiesOpen' /\ SavedFirst' /\ ReadyOK' /\ Undisturbed'
    BY <1>7 DEF CopiesOpen, SavedFirst, ReadyOK, Undisturbed
  <1>9. disp'.at = "execute" /\ disp'.failed = {}
    BY <1>1 DEF NoDispatch
  <1>10. LoopOK' /\ FailedOK'
    BY <1>9 DEF LoopOK, FailedOK, Saving, Loop
  <1>11. \A m \in ModelSet : (Working(m)' => Working(m)) /\ ~Unsaid(m)
    BY <1>1 DEF Working, Unsaid, Saving
  <1>12. OpenOK'
    BY <1>1, <1>2, <1>11 DEF Waits, OpenOK
  <1>13. QED
    BY <1>8, <1>10, <1>12 DEF Waits

LEMMA ExecuteWaits ==
  ASSUME StateOK, AgentInv, WaitInv, Execute
  PROVE  WaitInv'
  <1>1. disp.at = "execute" /\ disp \in Dispatching /\ UNCHANGED <<sub, base, call, holes>>
    BY HeldOK DEF Execute, DispAt, entries, StateOK
  <1> SUFFICES ASSUME Calm' PROVE Waits'
    BY DEF WaitInv
  <1>2. Waits /\ disp.failed = {}
    BY <1>1, StaysCalm DEF WaitInv, Waits, FailedOK
  <1>3. CopiesOpen' /\ SavedFirst' /\ ReadyOK' /\ Undisturbed'
    BY <1>1, <1>2, NobodyElse
  <1>4. OpenOK' /\ LoopOK' /\ FailedOK'
    <2>1. CASE disp'.at \in {"synth", "end"} /\ disp'.failed = disp.failed /\ disp'.todo = disp.todo
      BY <1>1, <1>2, <2>1, OutsideWaits DEF Loop
    <2>2. CASE disp'.at = "sub" /\ disp'.failed = disp.failed /\ disp'.todo = ToRun
      <3>1. \A m \in ModelSet : (Working(m)' => Working(m)) /\ ~Unsaid(m)
        BY <1>1 DEF Working, Unsaid, Saving
      <3>2. OpenOK'
        BY <1>1, <1>2, <3>1 DEF Waits, OpenOK
      <3>3. LoopOK'
        BY <1>1, <2>2 DEF LoopOK, Saving, ToRun, Terminal
      <3>4. FailedOK'
        BY <1>2, <2>2 DEF FailedOK
      <3>5. QED
        BY <3>2, <3>3, <3>4
    <2>3. QED
      BY <1>1, <2>1, <2>2 DEF Execute, Dispatching
  <1>5. QED
    BY <1>3, <1>4 DEF Waits

LEMMA OtherDispatchWaits ==
  ASSUME StateOK, AgentInv, WaitInv, LaunchSynthTarget \/ EndDispatch \/ LastRun
  PROVE  WaitInv'
  <1>1. /\ disp.at \in {"synth", "end", "last"} /\ disp \in Dispatching
        /\ UNCHANGED <<sub, base, call, holes>>
    BY HeldOK DEF LaunchSynthTarget, EndDispatch, LastRun, DispAt, entries, StateOK
  <1> SUFFICES ASSUME Calm' PROVE Waits'
    BY DEF WaitInv
  <1>2. Waits
    BY <1>1, StaysCalm DEF WaitInv
  <1>3. CopiesOpen' /\ SavedFirst' /\ ReadyOK' /\ Undisturbed'
    BY <1>1, <1>2, NobodyElse
  <1>4. CASE LaunchSynthTarget \/ EndDispatch
    <2>1. disp'.at = "last" /\ disp'.failed = disp.failed /\ disp'.todo = disp.todo
      BY <1>1, <1>4 DEF LaunchSynthTarget, EndDispatch, Dispatching
    <2>2. QED
      BY <1>1, <1>2, <1>3, <2>1, OutsideWaits DEF Waits, Loop
  <1>5. CASE LastRun
    <2>1. disp'.at = "idle" /\ disp'.failed = {} /\ disp.at = "last"
      BY <1>5 DEF LastRun, NoDispatch, DispAt
    <2>2. LoopOK' /\ FailedOK'
      BY <2>1 DEF LoopOK, FailedOK, Saving, Loop
    <2>3. \A m \in ModelSet : (Working(m)' => Working(m)) /\ ~Unsaid(m)
      BY <1>1, <2>1 DEF Working, Unsaid, Saving
    <2>4. OpenOK'
      BY <1>1, <1>2, <2>3 DEF Waits, OpenOK
    <2>5. QED
      BY <1>3, <2>2, <2>4 DEF Waits
  <1>6. QED
    BY <1>4, <1>5

(* After the loop the failed launches complete: their entries have ended.    *)
LEMMA CompleteFailedWaits ==
  ASSUME StateOK, AgentInv, WaitInv, CompleteFailed
  PROVE  WaitInv'
  <1>1. /\ disp.at = "fails" /\ disp \in Dispatching /\ UNCHANGED <<sub, base, holes>>
        /\ Free(Agent) /\ disp.failed \subseteq ModelSet \X Nat
    BY HeldOK DEF CompleteFailed, DispAt, entries, StateOK
  <1> SUFFICES ASSUME Calm' PROVE Waits'
    BY DEF WaitInv
  <1>2. Waits
    BY <1>1, StaysCalm DEF WaitInv
  <1>3. CASE disp.failed = {}
    <2>1. /\ disp' = [disp EXCEPT !.at = "end"] /\ UNCHANGED call
      BY <1>3 DEF CompleteFailed
    <2>2. disp'.at = "end" /\ disp'.failed = disp.failed /\ disp'.todo = disp.todo
      BY <1>1, <2>1 DEF Dispatching
    <2>3. OpenOK' /\ LoopOK' /\ FailedOK'
      BY <1>1, <1>2, <2>2, OutsideWaits DEF Loop
    <2>4. \A c \in Callers : Step(c)' = Step(c) /\ (c # Agent => Step(c) \notin Amid)
      BY <1>1, <1>2, <2>1 DEF Step, Free, Waits, Undisturbed
    <2>5. Step(Agent) = "none"
      BY <1>1 DEF Step
    <2>6. \A c \in Callers : Step(c)' \notin {"run", "rerun", "txn", "trigger"} /\ Step(c)' \notin Amid
      BY <2>4, <2>5 DEF Amid, TakingUp
    <2>7. CopiesOpen' /\ SavedFirst' /\ ReadyOK' /\ Undisturbed'
      BY <2>6 DEF CopiesOpen, SavedFirst, ReadyOK, Undisturbed
    <2>8. QED
      BY <2>3, <2>7 DEF Waits
  <1>4. CASE disp.failed # {}
    <2>1. PICK f \in disp.failed :
            /\ disp' = [disp EXCEPT !.failed = @ \ {f}]
            /\ Start(Agent, Completing(f[1], f[2], "failed", <<"txn">>))
      BY <1>4 DEF CompleteFailed
    <2> DEFINE t == <<"txn">>
               r == Completing(f[1], f[2], "failed", t)
    <2>2. f[1] \in ModelSet /\ f[2] \in Nat /\ Agenda(t) /\ t # <<>> /\ Head(t) = "txn"
          /\ "failed" \in Terminal
      BY <1>1, Agendas DEF Steps, Terminal
    <2>3. r.m = f[1] /\ r.e = f[2]
      <3>1. NoCall \in CallRecord
        BY NoCallOK DEF GoodCall
      <3>2. QED
        BY <3>1 DEF Completing, CallRecord
    <2> HIDE DEF t
    <2>4. GoodCall(r) /\ r.todo = t
      BY <2>2, CompletingOK
    <2> HIDE DEF r
    <2>5. Start(Agent, r)
      BY <2>1 DEF r, t
    <2>6. /\ Step(Agent)' = "txn" /\ \A d \in Callers \ {Agent} : call'[d] = call[d]
      BY <2>2, <2>4, <2>5, StartOK, Names DEF StateOK
    <2>7. call'[Agent] = r
      BY <2>4, <2>5, CallSet, Names DEF Start, StateOK
    <2>8. disp'.at = disp.at /\ disp'.failed \subseteq disp.failed /\ disp'.todo = disp.todo
      BY <1>1, <2>1 DEF Dispatching
    <2>9. OpenOK' /\ LoopOK' /\ FailedOK'
      BY <1>1, <1>2, <2>8, OutsideWaits DEF Loop
    <2>10. Over(f[1], f[2]) /\ \A m \in ModelSet : Working(m)' = Working(m)
      BY <1>1, <1>2 DEF Waits, FailedOK, Working
    <2>11. Over(call[Agent].m, call[Agent].e)'
      BY <1>1, <2>3, <2>7, <2>10 DEF Over
    <2>12. \A c \in Callers \ {Agent} : Step(c)' = Step(c) /\ Step(c) \notin Amid
      BY <1>1, <1>2, <2>6 DEF Step, Free, Waits, Undisturbed
    <2>13. \A c \in Callers : /\ Step(c)' \notin {"run", "rerun", "trigger"}
                              /\ Step(c)' = "txn" => c = Agent
                              /\ c # Agent => Step(c)' \notin Amid
      BY <2>6, <2>12 DEF Amid, TakingUp
    <2>14. CopiesOpen' /\ SavedFirst' /\ ReadyOK' /\ Undisturbed'
      BY <2>11, <2>13 DEF CopiesOpen, SavedFirst, ReadyOK, Undisturbed
    <2>15. QED
      BY <2>9, <2>14 DEF Waits
  <1>5. QED
    BY <1>3, <1>4

(* Steps of the loop.                                                        *)

(* Nobody else moves and nothing goes wrong in a step of the loop.           *)
LEMMA LoopOnward ==
  ASSUME AgentInv, WaitInv, disp.at \in Loop, UNCHANGED <<call, holes>>,
         Waits => OpenOK' /\ LoopOK' /\ FailedOK'
  PROVE  WaitInv'
  <1> SUFFICES ASSUME Calm' PROVE Waits'
    BY DEF WaitInv
  <1>1. Waits
    BY StaysCalm DEF WaitInv
  <1>2. CopiesOpen' /\ SavedFirst' /\ ReadyOK' /\ Undisturbed'
    BY <1>1, NobodyElse DEF Loop
  <1>3. QED
    BY <1>1, <1>2 DEF Waits

(* A step about the model that the dispatch is at leaves the others alone,   *)
(* and no launch of that model has failed unless it is just saying so.       *)
LEMMA SameModel ==
  ASSUME Waits, disp.at \in Loop, Next1 \in disp.todo,
         disp'.at \in Loop, disp'.todo = disp.todo, base' = base,
         \A m \in ModelSet \ {Next1} : sub'[m] = sub[m],
         \A m \in ModelSet : m = Next1 /\ Working(m)'
                               => Open(base, m) \/ (Saving' /\ disp'.put = "launching")
  PROVE  /\ Next1' = Next1 /\ OpenOK'
         /\ \A m \in disp'.todo : base'.status[m] \notin Terminal
         /\ disp.at \notin {"read", "write"} \/ disp.put # "failed" =>
              \A f \in disp.failed : Over(f[1], f[2])' /\ f[1] \notin disp'.todo
  <1>1. Next1' = Next1
    BY NextStays
  <1>2. OpenOK'
    <2>1. SUFFICES ASSUME NEW m \in ModelSet, Working(m)'
                   PROVE  Open(base', m) \/ Unsaid(m)'
      BY DEF OpenOK
    <2>2. CASE m = Next1
      BY <1>1, <2>1, <2>2 DEF Unsaid
    <2>3. CASE m # Next1
      BY <2>1, <2>3 DEF Waits, OpenOK, Unsaid, Working
    <2>4. QED
      BY <2>2, <2>3
  <1>3. \A m \in disp'.todo : base'.status[m] \notin Terminal
    BY DEF Waits, LoopOK
  <1>4. ASSUME disp.at \notin {"read", "write"} \/ disp.put # "failed", NEW f \in disp.failed
        PROVE  Over(f[1], f[2])' /\ f[1] \notin disp'.todo
    <2>1. Over(f[1], f[2]) /\ f[1] \notin disp.todo
      BY <1>4 DEF Waits, FailedOK, Saving
    <2>2. QED
      BY <2>1 DEF Over, Working
  <1>5. QED
    BY <1>1, <1>2, <1>3, <1>4

LEMMA MakeSubWaits ==
  ASSUME StateOK, AgentInv, WaitInv, MakeSub
  PROVE  WaitInv'
  <1>1. /\ disp.at = "sub" /\ disp.at \in Loop /\ disp \in Dispatching
        /\ Next1 \in disp.todo /\ Next1 \in ModelSet
        /\ UNCHANGED <<base, call, holes>>
    BY HeldOK, AtModel DEF MakeSub, DispAt, Loop, StateOK
  <1>2. /\ disp'.at = "read" /\ disp'.put = "launching" /\ disp'.e = sub'[Next1].id
        /\ disp'.todo = disp.todo /\ disp'.failed = disp.failed
    <2>1. disp' = [disp EXCEPT !.at = "read", !.e = sub'[Next1].id, !.put = "launching"]
      BY DEF MakeSub
    <2>2. QED
      BY <1>1, <2>1 DEF Dispatching
  <1>3. \A m \in ModelSet \ {Next1} : sub'[m] = sub[m]
    BY DEF MakeSub, StateOK, EntriesOK
  <1>4. ASSUME Waits PROVE OpenOK' /\ LoopOK' /\ FailedOK'
    <2>1. Saving' /\ disp'.at \in Loop
      BY <1>2 DEF Saving, Loop
    <2>2. /\ Next1' = Next1 /\ OpenOK'
          /\ \A m \in disp'.todo : base'.status[m] \notin Terminal
          /\ \A f \in disp.failed : Over(f[1], f[2])' /\ f[1] \notin disp'.todo
      BY <1>1, <1>2, <1>3, <1>4, <2>1, SameModel
    <2>3. LoopOK'
      BY <1>2, <2>2 DEF LoopOK, Saving
    <2>4. FailedOK'
      BY <1>2, <2>2 DEF FailedOK
    <2>5. QED
      BY <2>2, <2>3, <2>4
  <1>5. QED
    BY <1>1, <1>4, LoopOnward

LEMMA ReadBaseWaits ==
  ASSUME StateOK, AgentInv, WaitInv, ReadBase
  PROVE  WaitInv'
  <1>1. /\ disp.at = "read" /\ disp.at \in Loop /\ disp \in Dispatching
        /\ Next1 \in disp.todo /\ Next1 \in ModelSet
        /\ UNCHANGED <<sub, base, call, holes>>
    BY HeldOK, AtModel DEF ReadBase, DispAt, Loop, StateOK, entries
  <1>2. /\ disp'.at = "write" /\ disp'.put = disp.put /\ disp'.e = disp.e /\ disp'.read = base
        /\ disp'.todo = disp.todo /\ disp'.failed = disp.failed
    BY <1>1 DEF ReadBase, Dispatching
  <1>3. ASSUME Waits PROVE OpenOK' /\ LoopOK' /\ FailedOK'
    <2>1. Saving' /\ Saving /\ disp'.at \in Loop
      BY <1>1, <1>2 DEF Saving, Loop
    <2>2. \A m \in ModelSet : m = Next1 /\ Working(m)'
                               => Open(base, m) \/ (Saving' /\ disp'.put = "launching")
      BY <1>1, <1>2, <1>3, <2>1 DEF Waits, OpenOK, Working, Unsaid
    <2>3. /\ Next1' = Next1 /\ OpenOK'
          /\ \A m \in disp'.todo : base'.status[m] \notin Terminal
      BY <1>1, <1>2, <1>3, <2>1, <2>2, SameModel
    <2>4. LoopOK'
      <3>1. /\ disp.put = "active" => Open(base, Next1)
            /\ sub[Next1].id = disp.e
            /\ disp.put # "none" /\ (disp.put = "failed" => ~Working(Next1))
        BY <1>1, <1>3, <2>1 DEF Waits, LoopOK
      <3>2. QED
        BY <1>1, <1>2, <2>3, <3>1 DEF LoopOK, Open, Working
    <2>5. FailedOK'
      BY <1>1, <1>2, <1>3, <2>1, <2>3 DEF Waits, FailedOK, Over, Working
    <2>6. QED
      BY <2>3, <2>4, <2>5
  <1>4. QED
    BY <1>1, <1>3, LoopOnward

LEMMA MergedIs ==
  ASSUME NEW b \in BaseData, NEW m \in ModelSet, NEW put \in Statuses
  PROVE  /\ Merged(b, m, put).ids = b.ids \cup {m}
         /\ Merged(b, m, put).status[m] =
              IF b.status[m] \in Terminal /\ ~ put \in Terminal THEN b.status[m] ELSE put
         /\ \A n \in ModelSet \ {m} : Merged(b, m, put).status[n] = b.status[n]
  BY DEF Merged, BaseData

LEMMA WriteBaseWaits ==
  ASSUME StateOK, AgentInv, WaitInv, WriteBase
  PROVE  WaitInv'
  <1>1. /\ disp.at = "write" /\ disp.at \in Loop /\ disp \in Dispatching /\ Saving
        /\ Next1 \in disp.todo /\ Next1 \in ModelSet /\ disp.todo \subseteq ModelSet
        /\ disp.put \in Statuses /\ base \in BaseData
        /\ UNCHANGED <<sub, call, holes>>
    BY HeldOK, AtModel DEF WriteBase, DispAt, Loop, StateOK, EntriesOK, Saving
  <1>2. ASSUME Waits PROVE OpenOK' /\ LoopOK' /\ FailedOK'
    <2>1. /\ disp.put # "none" /\ (disp.put = "failed" => ~Working(Next1))
          /\ disp.put = "active" => Open(base, Next1)
          /\ sub[Next1].id = disp.e /\ disp.read = base
          /\ \A m \in disp.todo : base.status[m] \notin Terminal
      BY <1>1, <1>2 DEF Waits, LoopOK
    <2>2. /\ base'.ids = base.ids \cup {Next1} /\ base'.status[Next1] = disp.put
          /\ \A m \in ModelSet \ {Next1} : base'.status[m] = base.status[m]
      <3>1. base' = Merged(base, Next1, disp.put)
        BY <2>1 DEF WriteBase
      <3>2. PICK m \in ModelSet : m = Next1
        BY <1>1
      <3>3. QED
        BY <1>1, <2>1, <3>1, <3>2, MergedIs
    <2>3. \A m \in ModelSet \ {Next1} : Working(m)' => Open(base', m)
      BY <1>1, <1>2, <2>2 DEF Waits, OpenOK, Open, Unsaid, Working
    <2>4. \A f \in disp.failed : /\ Over(f[1], f[2])'
                                 /\ f[1] \in disp.todo => disp.put = "failed" /\ f[1] = Next1
      BY <1>1, <1>2 DEF Waits, FailedOK, Over, Working
    <2>5. CASE disp.put = "launching"
      <3>1. /\ disp'.at = "launch" /\ disp'.todo = disp.todo /\ disp'.e = disp.e
            /\ disp'.failed = disp.failed
        BY <1>1, <2>5 DEF WriteBase, Dispatching
      <3>2. Next1' = Next1
        BY <3>1, NextStays
      <3>3. Open(base', Next1)
        BY <2>2, <2>5 DEF Open, Terminal
      <3>4. OpenOK'
        BY <2>3, <3>3 DEF OpenOK
      <3>5. LoopOK'
        <4>1. \A m \in disp.todo : base'.status[m] \notin Terminal
          BY <1>1, <2>1, <2>2, <2>5 DEF Terminal
        <4>2. QED
          BY <1>1, <2>1, <3>1, <3>2, <3>3, <4>1 DEF LoopOK, Saving
      <3>6. FailedOK'
        BY <2>4, <2>5, <3>1 DEF FailedOK
      <3>7. QED
        BY <3>4, <3>5, <3>6
    <2>6. CASE disp.put # "launching"
      <3> DEFINE rest == disp.todo \ {Next1}
      <3>1. /\ disp'.at \in {"fails", "sub"} /\ disp'.todo = rest
            /\ disp'.failed = disp.failed
        BY <1>1, <2>6 DEF WriteBase, AfterModel, Dispatching
      <3>2. ASSUME NEW m \in ModelSet, m = Next1, Working(m)'
            PROVE  Open(base', m)
        <4>1. Working(Next1)
          BY <1>1, <3>2 DEF Working
        <4>2. disp.put = "active"
          BY <1>1, <2>1, <2>6, <4>1 DEF Dispatching
        <4>3. QED
          BY <2>2, <3>2, <4>2 DEF Open, Terminal
      <3>3. OpenOK'
        BY <2>3, <3>2 DEF OpenOK
      <3>4. LoopOK'
        BY <1>1, <2>1, <2>2, <3>1 DEF LoopOK, Saving, Loop
      <3>5. FailedOK'
        BY <2>4, <3>1 DEF FailedOK
      <3>6. QED
        BY <3>3, <3>4, <3>5
    <2>7. QED
      BY <2>5, <2>6
  <1>3. QED
    BY <1>1, <1>2, LoopOnward

LEMMA LaunchWaits ==
  ASSUME StateOK, AgentInv, WaitInv, LaunchClaude \/ LaunchSubprocess \/ RecordPid
  PROVE  WaitInv'
  <1>1. /\ disp.at \in {"launch", "pid"} /\ disp.at \in Loop /\ disp \in Dispatching
        /\ Next1 \in disp.todo /\ Next1 \in ModelSet
        /\ UNCHANGED <<base, call, holes>>
    BY HeldOK, AtModel DEF LaunchClaude, LaunchSubprocess, RecordPid, DispAt, Loop, StateOK,
       entries
  <1>2. /\ disp'.at \in {"pid", "mark"} /\ disp'.e = disp.e
        /\ disp'.todo = disp.todo /\ disp'.failed = disp.failed
    BY <1>1 DEF LaunchClaude, LaunchSubprocess, RecordPid, Dispatching
  <1>3. /\ sub'[Next1].id = sub[Next1].id
        /\ \A m \in ModelSet \ {Next1} : sub'[m] = sub[m]
    <2>1. CASE sub' = [sub EXCEPT ![Next1].status = "active"]
      BY <1>1, <2>1 DEF StateOK, EntriesOK, SubEntry
    <2>2. CASE sub' = sub
      BY <2>2
    <2>3. QED
      BY <2>1, <2>2 DEF LaunchClaude, LaunchSubprocess, RecordPid, entries
  <1>4. ASSUME Waits PROVE OpenOK' /\ LoopOK' /\ FailedOK'
    <2>1. ~Saving' /\ disp'.at \in Loop
      BY <1>2 DEF Saving, Loop
    <2>2. Open(base, Next1) /\ sub[Next1].id = disp.e
      BY <1>1, <1>4 DEF Waits, LoopOK
    <2>3. \A m \in ModelSet : m = Next1 /\ Working(m)'
                               => Open(base, m) \/ (Saving' /\ disp'.put = "launching")
      BY <2>2
    <2>4. /\ Next1' = Next1 /\ OpenOK'
          /\ \A m \in disp'.todo : base'.status[m] \notin Terminal
          /\ \A f \in disp.failed : Over(f[1], f[2])' /\ f[1] \notin disp'.todo
      BY <1>1, <1>2, <1>3, <1>4, <2>1, <2>3, SameModel
    <2>5. LoopOK'
      BY <1>1, <1>2, <1>3, <2>1, <2>2, <2>4 DEF LoopOK
    <2>6. FailedOK'
      BY <1>2, <2>4 DEF FailedOK
    <2>7. QED
      BY <2>4, <2>5, <2>6
  <1>5. QED
    BY <1>1, <1>4, LoopOnward

(* A launch that fails leaves an entry that has ended.                       *)
LEMMA LaunchFailsWaits ==
  ASSUME StateOK, AgentInv, WaitInv, LaunchFails
  PROVE  WaitInv'
  <1>1. /\ disp.at = "launch" /\ disp.at \in Loop /\ disp \in Dispatching
        /\ Next1 \in disp.todo /\ Next1 \in ModelSet
        /\ UNCHANGED <<base, call, holes>>
    BY HeldOK, AtModel DEF LaunchFails, DispAt, Loop, StateOK
  <1>2. /\ disp'.at = "read" /\ disp'.put = "failed" /\ disp'.e = disp.e
        /\ disp'.todo = disp.todo /\ disp'.failed = disp.failed \cup {Entry1}
    BY <1>1 DEF LaunchFails, Dispatching
  <1>3. ASSUME Waits PROVE OpenOK' /\ LoopOK' /\ FailedOK'
    <2>1. sub[Next1].id = disp.e
      BY <1>1, <1>3 DEF Waits, LoopOK
    <2>2. sub' = [sub EXCEPT ![Next1].status = "failed"]
      BY <2>1 DEF LaunchFails, EntryLives
    <2>3. /\ sub'[Next1].id = disp.e /\ sub'[Next1].status = "failed"
          /\ \A m \in ModelSet \ {Next1} : sub'[m] = sub[m]
      BY <1>1, <2>1, <2>2 DEF StateOK, EntriesOK, SubEntry
    <2>4. Saving' /\ disp'.at \in Loop
      BY <1>2 DEF Saving, Loop
    <2>5. \A m \in ModelSet : m = Next1 => ~Working(m)'
      BY <2>3 DEF Working
    <2>6. /\ Next1' = Next1 /\ OpenOK'
          /\ \A m \in disp'.todo : base'.status[m] \notin Terminal
          /\ \A f \in disp.failed : Over(f[1], f[2])' /\ f[1] \notin disp'.todo
      BY <1>1, <1>2, <1>3, <2>3, <2>4, <2>5, SameModel
    <2>7. LoopOK'
      BY <1>2, <2>3, <2>6 DEF LoopOK, Saving, Working
    <2>8. FailedOK'
      <3>1. SUFFICES ASSUME NEW f \in disp'.failed
                     PROVE  /\ Over(f[1], f[2])'
                            /\ f[1] \in disp'.todo => f[1] = Next1
        BY <1>2, <2>4, <2>6 DEF FailedOK
      <3>2. CASE f \in disp.failed
        BY <2>6, <3>2
      <3>3. CASE f = Entry1
        BY <2>3, <3>3 DEF Entry1, Over, Working
      <3>4. QED
        BY <1>2, <3>1, <3>2, <3>3
    <2>9. QED
      BY <2>6, <2>7, <2>8
  <1>4. QED
    BY <1>1, <1>3, LoopOnward

LEMMA MarkActiveWaits ==
  ASSUME StateOK, AgentInv, WaitInv, MarkActive
  PROVE  WaitInv'
  <1>1. /\ disp.at = "mark" /\ disp.at \in Loop /\ disp \in Dispatching
        /\ Next1 \in disp.todo /\ Next1 \in ModelSet
        /\ UNCHANGED <<base, call, holes>>
    BY HeldOK, AtModel DEF MarkActive, DispAt, Loop, StateOK
  <1>2. /\ disp'.at = "read" /\ disp'.put = "active" /\ disp'.e = disp.e
        /\ disp'.todo = disp.todo /\ disp'.failed = disp.failed
    BY <1>1 DEF MarkActive, Dispatching
  <1>3. /\ sub'[Next1].id = sub[Next1].id
        /\ \A m \in ModelSet \ {Next1} : sub'[m] = sub[m]
    <2>1. CASE sub' = [sub EXCEPT ![Next1].status = "active"]
      BY <1>1, <2>1 DEF StateOK, EntriesOK, SubEntry
    <2>2. CASE sub' = sub
      BY <2>2
    <2>3. QED
      BY <2>1, <2>2 DEF MarkActive
  <1>4. ASSUME Waits PROVE OpenOK' /\ LoopOK' /\ FailedOK'
    <2>1. Saving' /\ disp'.at \in Loop
      BY <1>2 DEF Saving, Loop
    <2>2. Open(base, Next1) /\ sub[Next1].id = disp.e
      BY <1>1, <1>4 DEF Waits, LoopOK
    <2>3. \A m \in ModelSet : m = Next1 /\ Working(m)'
                               => Open(base, m) \/ (Saving' /\ disp'.put = "launching")
      BY <2>2
    <2>4. /\ Next1' = Next1 /\ OpenOK'
          /\ \A m \in disp'.todo : base'.status[m] \notin Terminal
          /\ \A f \in disp.failed : Over(f[1], f[2])' /\ f[1] \notin disp'.todo
      BY <1>1, <1>2, <1>3, <1>4, <2>1, <2>3, SameModel
    <2>5. LoopOK'
      BY <1>1, <1>2, <1>3, <2>1, <2>2, <2>4 DEF LoopOK
    <2>6. FailedOK'
      BY <1>2, <2>4 DEF FailedOK
    <2>7. QED
      BY <2>4, <2>5, <2>6
  <1>5. QED
    BY <1>1, <1>4, LoopOnward

LEMMA DispatchWaits ==
  ASSUME StateOK, AgentInv, WaitInv, Dispatch
  PROVE  WaitInv'
  <1>1. CASE Execute
    BY <1>1, ExecuteWaits
  <1>2. CASE LaunchSynthTarget \/ EndDispatch \/ LastRun
    BY <1>2, OtherDispatchWaits
  <1>3. CASE LaunchClaude \/ LaunchSubprocess \/ RecordPid
    BY <1>3, LaunchWaits
  <1>4. CASE MakeSub \/ ReadBase \/ WriteBase \/ LaunchFails \/ MarkActive
    BY <1>4, MakeSubWaits, ReadBaseWaits, WriteBaseWaits, LaunchFailsWaits, MarkActiveWaits
  <1>5. CASE CompleteFailed
    BY <1>5, CompleteFailedWaits
  <1>6. QED
    BY <1>1, <1>2, <1>3, <1>4, <1>5 DEF Dispatch

(* Beginnings and ends.                                                      *)

(* A thread begins, or ends, without touching an entry.                      *)
LEMMA BeginsWaits ==
  ASSUME WaitInv, NEW c \in Callers, UNCHANGED <<sub, base, disp>>, holes \subseteq holes',
         \/ UNCHANGED call
         \/ Step(c)' \notin Amid /\ \A d \in Callers \ {c} : call'[d] = call[d]
  PROVE  WaitInv'
  <1>1. CASE Step(c)' \notin Amid
    BY <1>1, StillWaits
  <1>2. CASE UNCHANGED call
    <2> SUFFICES ASSUME Calm' PROVE Waits'
      BY DEF WaitInv
    <2>1. Waits
      BY StaysCalm DEF WaitInv
    <2>2. \A m \in ModelSet : sub'[m] = sub[m] /\ (Working(m)' => Working(m))
      BY DEF Working
    <2>3. OpenOK'
      BY <2>1, <2>2, SameOpen DEF Waits
    <2>4. Step(c)' = Step(c) /\ call'[c] = call[c]
      BY <1>2 DEF Step, Free
    <2>5. /\ Step(c)' \in {"run", "rerun"} =>
                \A m \in ModelSet : Working(m)' => Open(call'[c].base, m)
          /\ Step(c)' = "txn" => Over(call[c].m, call[c].e)'
          /\ Step(c)' = "trigger" => NobodyWorks'
          /\ disp.at # "idle" /\ c # Agent => Step(c)' \notin Amid
      BY <1>2, <2>1, <2>2, <2>4 DEF Waits, CopiesOpen, SavedFirst, Over, ReadyOK, NobodyWorks,
         Undisturbed, Working
    <2>6. QED
      BY <1>2, <2>1, <2>2, <2>3, <2>5, Onward
  <1>3. QED
    BY <1>1, <1>2

LEMMA NextWaits ==
  ASSUME ResearchInv, AgentInv, WaitInv, [Next]_vars
  PROVE  WaitInv'
  <1>1. StateOK
    BY DEF ResearchInv
  <1>2. CASE UNCHANGED vars
    BY <1>2, BeginsWaits, Names DEF vars, entries
  <1>3. CASE Next
    <2>1. CASE \E c \in Callers : CallStep(c)
      BY <1>1, <2>1, CallStepWaits
    <2>2. CASE \E item \in Items : Request(item)
      <3>1. Step(Web)' = "enqueue" /\ \A d \in Callers \ {Web} : call'[d] = call[d]
        BY <1>1, <2>2, RequestTypes
      <3>2. QED
        BY <2>2, <3>1, BeginsWaits, Names DEF Request, entries, Amid, TakingUp
    <2>3. CASE ListDue
      BY <1>1, <2>3, ListDueWaits
    <2>4. CASE Dispatch
      BY <1>1, <2>4, DispatchWaits
    <2>5. CASE HealAgent
      <3>1. \/ UNCHANGED call
            \/ Step(Agent)' = "save" /\ \A d \in Callers \ {Agent} : call'[d] = call[d]
        BY <1>1, <2>5, HealAgentTypes
      <3>2. QED
        BY <2>5, <3>1, BeginsWaits, Names DEF HealAgent, entries, Amid, TakingUp
    <2>6. CASE \E c \in Healers, m \in ModelSet : HealPid(c, m) \/ HealList(c, m)
      <3>1. PICK c \in Healers, m \in ModelSet : HealPid(c, m) \/ HealList(c, m)
        BY <2>6
      <3>2. \/ UNCHANGED call
            \/ /\ Step(c)' \in {"save", "healmark"}
               /\ \A d \in Callers \ {c} : call'[d] = call[d]
        BY <1>1, <3>1, HealTypes
      <3>3. QED
        BY <3>1, <3>2, BeginsWaits, Names DEF HealPid, HealList, entries, Amid, TakingUp
    <2>7. CASE Unpin \/ Reconcile
      <3>1. \/ UNCHANGED call
            \/ /\ Step(Cron)' \in {"drain", "enqueue"}
               /\ \A d \in Callers \ {Cron} : call'[d] = call[d]
        BY <1>1, <2>7, UnpinTypes, ReconcileTypes
      <3>2. UNCHANGED <<sub, base, disp, holes>>
        BY <2>7 DEF Unpin, Reconcile, entries
      <3>3. QED
        BY <3>1, <3>2, BeginsWaits, Names DEF Amid, TakingUp
    <2>8. CASE \E m \in ModelSet, r \in Rounds, ok \in BOOLEAN : SubprocessEnds(m, r, ok)
      <3>1. PICK m \in ModelSet, r \in Rounds, ok \in BOOLEAN : SubprocessEnds(m, r, ok)
        BY <2>8
      <3>2. Step(<<m, r>>)' = "save" /\ \A d \in Callers \ {<<m, r>>} : call'[d] = call[d]
        BY <1>1, <3>1, SubprocessEndsTypes
      <3>3. QED
        BY <3>1, <3>2, BeginsWaits, Names DEF SubprocessEnds, entries, Amid, TakingUp
    <2>9. CASE \E r \in Rounds, ok \in BOOLEAN : ClaudeEnds(r, ok)
      <3>1. PICK r \in Rounds, ok \in BOOLEAN : ClaudeEnds(r, ok)
        BY <2>9
      <3>2. PICK c \in Callers : c = <<Claude, r>>
        BY Names
      <3>3. AgentComplete(c, ok)
        BY <3>1, <3>2 DEF ClaudeEnds
      <3>4. Step(c)' = "drain" /\ \A d \in Callers \ {c} : call'[d] = call[d]
        BY <1>1, <3>3, AgentCompleteTypes
      <3>5. QED
        BY <3>3, <3>4, BeginsWaits DEF AgentComplete, entries, Amid, TakingUp
    <2>10. CASE \E ok \in BOOLEAN : SynthEnds(ok)
      <3>1. PICK ok \in BOOLEAN : AgentComplete(Synth, ok)
        BY <2>10 DEF SynthEnds
      <3>2. Step(Synth)' = "drain" /\ \A d \in Callers \ {Synth} : call'[d] = call[d]
        BY <1>1, <3>1, AgentCompleteTypes, Names
      <3>3. QED
        BY <3>1, <3>2, BeginsWaits, Names DEF AgentComplete, entries, Amid, TakingUp
    <2>11. CASE \E m \in ModelSet, r \in Rounds : ModelDies(m, r)
      <3>1. PICK m \in ModelSet, r \in Rounds : ModelDies(m, r)
        BY <2>11
      <3>2. Step(<<m, r>>)' = "none" /\ \A d \in Callers \ {<<m, r>>} : call'[d] = call[d]
        BY <1>1, <3>1, ModelDiesTypes
      <3>3. QED
        BY <3>1, <3>2, BeginsWaits, Names DEF ModelDies, entries, Amid, TakingUp
    <2>12. CASE SynthDies
      BY <2>12, BeginsWaits, Names DEF SynthDies, entries
    <2>13. QED
      BY <1>3, <2>1, <2>2, <2>3, <2>4, <2>5, <2>6, <2>7, <2>8, <2>9, <2>10, <2>11, <2>12,
         StepsOf
  <1>4. QED
    BY <1>2, <1>3

LEMMA InitWaits == Init => WaitInv
  <1> SUFFICES ASSUME Init PROVE Waits
    BY DEF WaitInv
  <1>1. disp.at = "idle" /\ disp.failed = {} /\ \A c \in Callers : Step(c) = "none"
    BY NoCallOK DEF Init, NoDispatch, Step, Free
  <1>2. \A m \in ModelSet : ~Working(m)
    BY NoEntryOK DEF Init, Working
  <1>3. OpenOK /\ CopiesOpen /\ SavedFirst /\ ReadyOK /\ Undisturbed
    BY <1>1, <1>2 DEF OpenOK, CopiesOpen, SavedFirst, ReadyOK, Undisturbed
  <1>4. LoopOK /\ FailedOK
    BY <1>1 DEF LoopOK, FailedOK, Saving, Loop
  <1>5. QED
    BY <1>3, <1>4 DEF Waits

(* The last completion queues the synthesis only when no model is at work    *)
(* any more, although every model completes in a process of its own and in   *)
(* any order, a launch may fail, a process be killed and a topic be run      *)
(* again: for any models, requests, faults and races, unless a completion or *)
(* a drain has crossed a dispatch, two threads have taken up the queue at    *)
(* once, or a model has completed whose entry a rerun had deleted.           *)
THEOREM ResearchSynthesisWaits == Spec => SynthesisWaits
  <1>1. Init => ResearchInv /\ AgentInv /\ WaitInv
    BY InitTypes, InitAgent, InitWaits
  <1>2. ResearchInv /\ AgentInv /\ WaitInv /\ [Next]_vars
          => (ResearchInv /\ AgentInv /\ WaitInv)'
    BY NextTypes, NextAgent, NextWaits
  <1>3. ResearchInv /\ AgentInv /\ WaitInv /\ [Next]_vars
          => [Triggers => \/ \A m \in ModelSet : ~Working(m)
                          \/ holes \cap {"crossed", "stale", "overlap"} # {}]_vars
    <2>1. ASSUME WaitInv, Triggers, Calm PROVE NobodyWorks
      <3>1. PICK c \in Callers : At(c, "trigger")
        BY <2>1 DEF Triggers
      <3>2. Step(c) = "trigger"
        BY <3>1 DEF At, Step, Free
      <3>3. QED
        BY <2>1, <3>2 DEF WaitInv, Waits, ReadyOK
    <2>2. QED
      BY <2>1 DEF NobodyWorks, Calm
  <1>4. QED
    BY <1>1, <1>2, <1>3, PTL DEF Spec, SynthesisWaits

(* ------------------------- the healers spare the living ------------------ *)

(* While nothing has crossed a dispatch, taken up the queue twice or ended   *)
(* for a deleted entry, a model that is to run has no entry, so each launch   *)
(* writes an entry of its own, which bears the number of its dispatch.       *)
Unlaunched(data, m) == data.status[m] \in {"none", "rerun"}
RunsAnew == \A m \in ModelSet : Unlaunched(base, m) => sub[m].id = 0 \/ Unsaid(m)
CopiesAnew ==
    \A c \in Callers : Step(c) \in {"run", "rerun"} =>
        \A m \in ModelSet : Unlaunched(call[c].base, m) => sub[m].id = 0
Named == \A m \in ModelSet : Working(m) => sub[m].id # 0
LoopAnew ==
    /\ disp.at \in Loop =>
          \A m \in disp.todo : Unlaunched(base, m) \/ (m = Next1 /\ disp.at # "sub")
    /\ disp.at \in Loop \ {"sub"} => disp.e = round

(* An entry that a model may have had a process for, but not one that the    *)
(* dispatch is still to launch.                                              *)
Yet == IF disp.at \notin Loop THEN {}
       ELSE IF disp.at \in {"sub", "launch"} \/ (Saving /\ disp.put = "launching")
       THEN disp.todo ELSE disp.todo \ {Next1}
Known(m, e) == e # 0 /\ e <= round /\ (m \in Yet => e # round)
OwnEntry ==
    \A m \in ModelSet, r \in Rounds : proc[m][r] # 0 => proc[m][r] = r /\ Known(m, r)

(* The pid row of a model is that of the process which writes its entry, but *)
(* for the moment between its launch and the row.                            *)
Tracked ==
    /\ \A m \in ModelSet \ {Claude}, r \in Rounds :
          proc[m][r] # 0 /\ sub[m].id = r
            => pid[m] = r \/ (disp.at = "pid" /\ m = Next1 /\ r = round)
    /\ pid[Claude] = 0 /\ (disp.at = "pid" => Next1 # Claude)

(* What a thread completes has no process any more; what a healer has listed *)
(* is older than the dispatch.                                               *)
Left(m, e) == Known(m, e) /\ (sub[m].id = e => proc[m][e] = 0)
FailedLeft == \A f \in disp.failed : Left(f[1], f[2])
Task(c) ==
    /\ call[c].m \in ModelSet /\ (c \in Healers \/ call[c].m # Claude)
         => /\ Known(call[c].m, call[c].e)
            /\ Step(c) # "healmark" => Left(call[c].m, call[c].e)
    /\ Step(c) = "healmark" =>
          /\ call[c].todo = <<"healmark">> /\ call[c].m \in ModelSet \ {Claude}
          /\ disp.at \in Loop => call[c].e < round
Tasks == \A c \in Callers : Task(c)

(* A healer saves an entry first of all, or not at all.                      *)
FirstOnly(todo) == \A i \in 2..Len(todo) : todo[i] # "save"
SavesFirst == \A c \in Healers : FirstOnly(call[c].todo)

Spares ==
    /\ RunsAnew /\ CopiesAnew /\ Named /\ LoopAnew
    /\ OwnEntry /\ Tracked /\ FailedLeft /\ Tasks /\ SavesFirst
SpareInv == Calm => Spares

(* Threads.                                                                  *)

(* Processes end and entries are deleted; nothing is launched or dispatched. *)
Settles ==
    /\ UNCHANGED <<disp, round>>
    /\ \A m \in ModelSet, r \in Rounds : proc'[m][r] \in {proc[m][r], 0}
    /\ \A m \in ModelSet : /\ sub'[m].id \in {sub[m].id, 0}
                           /\ Working(m)' => Working(m) /\ sub'[m].id = sub[m].id

LEMMA RoundIs ==
  ASSUME StateOK
  PROVE  /\ round \in Nat /\ (round # 0 => round \in Rounds)
         /\ \A e \in Nat : e # 0 /\ e <= round => e \in Rounds
  BY Numbers DEF StateOK, CountsOK

LEMMA SettledLeft ==
  ASSUME StateOK, Settles, NEW m, NEW e
  PROVE  /\ Known(m, e)' <=> Known(m, e)
         /\ m \in ModelSet /\ e \in Nat /\ Left(m, e) => Left(m, e)'
  <1>1. Next1' = Next1
    BY NextStays DEF Settles
  <1>2. Yet' = Yet
    BY <1>1 DEF Settles, Yet, Saving
  <1>3. Known(m, e)' <=> Known(m, e)
    BY <1>2 DEF Known, Settles
  <1>4. ASSUME m \in ModelSet, e \in Nat, Left(m, e) PROVE Left(m, e)'
    <2>1. e # 0 /\ e \in Rounds
      BY <1>4, RoundIs DEF Left, Known
    <2>2. sub'[m].id = e => sub[m].id = e
      BY <1>4, <2>1 DEF Settles
    <2>3. proc'[m][e] \in {proc[m][e], 0}
      BY <1>4, <2>1 DEF Settles
    <2>4. QED
      BY <1>3, <1>4, <2>2, <2>3 DEF Left
  <1>5. QED
    BY <1>3, <1>4

(* A thread takes a step and the others wait.                                *)
LEMMA StepSpares ==
  ASSUME StateOK, Spares, Settles, NEW c \in Callers,
         \A d \in Callers \ {c} : call'[d] = call[d],
         disp.at \in Loop => base' = base, RunsAnew', Tracked',
         Step(c)' \in {"run", "rerun"} =>
            \A m \in ModelSet : Unlaunched(call'[c].base, m) => sub'[m].id = 0,
         Task(c)', c \in Healers => FirstOnly(call'[c].todo)
  PROVE  Spares'
  <1>1. \A d \in Callers \ {c} : Step(d)' = Step(d)
    BY DEF Step, Free
  <1>2. CopiesAnew'
    <2>1. SUFFICES ASSUME NEW d \in Callers \ {c}, Step(d) \in {"run", "rerun"},
                          NEW m \in ModelSet, Unlaunched(call[d].base, m)
                   PROVE  sub'[m].id = 0
      BY <1>1 DEF CopiesAnew, Unlaunched
    <2>2. QED
      BY <2>1 DEF Spares, CopiesAnew, Settles
  <1>3. Named'
    BY DEF Spares, Named, Settles
  <1>4. LoopAnew'
    BY NextStays DEF Spares, LoopAnew, Settles, Unlaunched
  <1>5. OwnEntry'
    BY SettledLeft DEF Spares, OwnEntry, Settles
  <1>6. FailedLeft'
    <2>1. \A f \in disp.failed : f[1] \in ModelSet /\ f[2] \in Nat
      BY HeldOK DEF StateOK, Dispatching
    <2>2. QED
      BY <2>1, SettledLeft DEF Spares, FailedLeft, Settles
  <1>7. Tasks'
    <2>1. SUFFICES ASSUME NEW d \in Callers \ {c} PROVE Task(d)'
      BY DEF Tasks
    <2>2. call[d].e \in Nat /\ Task(d)
      BY CallIs DEF StateOK, Spares, Tasks
    <2>3. call'[d] = call[d] /\ Step(d)' = Step(d)
      BY <1>1
    <2>4. QED
      BY <2>2, <2>3, SettledLeft DEF Task, Settles
  <1>8. SavesFirst'
    BY Names DEF Spares, SavesFirst, FirstOnly
  <1>9. QED
    BY <1>2, <1>3, <1>4, <1>5, <1>6, <1>7, <1>8 DEF Spares

(* A thread goes on, about the same entry or about none.                     *)
LEMMA DoTask ==
  ASSUME StateOK, NEW c \in Callers, ~Free(c), NEW more, Agenda(more),
         more # <<>> => Step(c) # "save", NEW rec \in CallRecord, Do(c, more, rec),
         rec.m \notin ModelSet \/ (rec.m = call[c].m /\ rec.e = call[c].e)
  PROVE  /\ \A d \in Callers \ {c} : call'[d] = call[d]
         /\ call'[c].m \notin ModelSet \/ (call'[c].m = call[c].m /\ call'[c].e = call[c].e)
         /\ more = <<>> => Step(c)' \in Later \cup {"none"}
         /\ more # <<>> => Step(c)' = Head(more) /\ call'[c].base = rec.base
         /\ FirstOnly(call[c].todo) /\ FirstOnly(more) =>
               /\ FirstOnly(call'[c].todo)
               /\ more = <<>> => Step(c)' # "save"
  <1> DEFINE t == call[c].todo
             u == more \o Tail(t)
             r == IF u = <<>> THEN NoCall ELSE [rec EXCEPT !.todo = u]
  <1>1. Agenda(t) /\ t # <<>>
    BY CallIs DEF StateOK, Free
  <1>2. Step(c) = Head(t)
    BY DEF Step, Free
  <1>3. t \in Seq(Steps) /\ Len(t) \in Nat /\ more \in Seq(Steps) /\ Len(more) \in Nat
    BY <1>1, LenProperties DEF Agenda
  <1>4. /\ Tail(t) \in Seq(Steps) /\ Len(Tail(t)) = Len(t) - 1
        /\ \A i \in 1..Len(Tail(t)) : Tail(t)[i] = t[i + 1]
    BY <1>1, <1>3, HeadTailProperties
  <1>5. call' = [call EXCEPT ![c] = r]
    BY DEF Do
  <1>6. call'[c] = r /\ \A d \in Callers \ {c} : call'[d] = call[d]
    BY <1>5 DEF StateOK, CallsOK
  <1> HIDE DEF t
  <1>7. /\ more # <<>> => u # <<>> /\ Head(u) = Head(more)
        /\ more = <<>> => u = Tail(t)
        /\ u \in Seq(Steps)
        /\ Tail(t) # <<>> => Head(Tail(t)) \in Later
    <2>1. more # <<>> => Head(t) # "save"
      BY <1>2
    <2>2. QED
      BY <1>1, <2>1, RestOf, TailOf DEF Agenda
  <1>8. NoCall \in CallRecord /\ NoCall.todo = <<>> /\ NoCall.m \notin ModelSet
    <2>1. NoCall \in CallRecord /\ NoCall.todo = <<>>
      BY NoCallOK DEF GoodCall
    <2>2. NoCall.m = "none"
      BY DEF NoCall
    <2>3. "none" \notin ModelSet
      BY Names
    <2>4. QED
      BY <2>1, <2>2, <2>3
  <1>9. /\ Len(u) = Len(more) + Len(Tail(t))
        /\ \A i \in 1..Len(more) + Len(Tail(t)) :
              u[i] = IF i <= Len(more) THEN more[i] ELSE Tail(t)[i - Len(more)]
    BY <1>3, <1>4, ConcatProperties
  <1> HIDE DEF u
  <1>10. r.todo = u /\ (u # <<>> => r.m = rec.m /\ r.e = rec.e /\ r.base = rec.base)
    BY <1>7, <1>8 DEF CallRecord
  <1>11. r.m \notin ModelSet \/ (r.m = call[c].m /\ r.e = call[c].e)
    BY <1>8, <1>10
  <1> HIDE DEF r
  <1>12. Step(c)' = IF u = <<>> THEN "none" ELSE Head(u)
    BY <1>6, <1>10 DEF Step, Free
  <1>13. ASSUME FirstOnly(t), FirstOnly(more)
         PROVE  FirstOnly(u) /\ (more = <<>> => Step(c)' # "save")
    <2>1. ASSUME NEW i \in 2..Len(u) PROVE u[i] # "save"
      <3>1. CASE i <= Len(more)
        BY <1>3, <1>4, <1>9, <1>13, <2>1, <3>1 DEF FirstOnly
      <3>2. CASE ~(i <= Len(more))
        <4> DEFINE j == i - Len(more)
        <4>1. j \in 1..Len(Tail(t)) /\ j + 1 \in 2..Len(t) /\ u[i] = Tail(t)[j]
          BY <1>3, <1>4, <1>9, <2>1, <3>2
        <4> HIDE DEF j
        <4>2. QED
          BY <1>4, <1>13, <4>1 DEF FirstOnly
      <3>3. QED
        BY <3>1, <3>2
    <2>2. more = <<>> /\ u # <<>> => Head(u) # "save"
      <3>1. SUFFICES ASSUME more = <<>>, u # <<>> PROVE Head(u) # "save"
        OBVIOUS
      <3>2. u = Tail(t)
        BY <1>7, <3>1
      <3>3. 1 \in 1..Len(Tail(t)) /\ 1 + 1 \in 2..Len(t) /\ Head(Tail(t)) = Tail(t)[1]
        BY <1>3, <1>4, <3>1, <3>2, EmptySeq
      <3>4. QED
        BY <1>4, <1>13, <3>2, <3>3 DEF FirstOnly
    <2>3. QED
      BY <1>12, <2>1, <2>2 DEF FirstOnly
  <1>14. QED
    BY <1>6, <1>7, <1>10, <1>11, <1>12, <1>13 DEF t

(* What was read about an entry that a thread is done with holds on.         *)
LEMMA SameTask ==
  ASSUME StateOK, Spares, Settles, NEW c \in Callers,
         call'[c].m \notin ModelSet \/ (call'[c].m = call[c].m /\ call'[c].e = call[c].e),
         Step(c) # "healmark", Step(c)' # "healmark"
  PROVE  Task(c)'
  <1>1. call[c].e \in Nat /\ Task(c)
    BY CallIs DEF StateOK, Spares, Tasks
  <1>2. QED
    BY <1>1, SettledLeft DEF Task

(* The copies of a call that Kept makes.                                     *)
LEMMA KeptTask ==
  ASSUME StateOK, NEW c \in Callers, ~Free(c)
  PROVE  Kept(c).m \notin ModelSet \/ (Kept(c).m = call[c].m /\ Kept(c).e = call[c].e)
  <1>1. NoCall \in CallRecord
    BY NoCallOK DEF GoodCall
  <1>2. NoCall.m \notin ModelSet
    <2>1. NoCall.m = "none"
      BY DEF NoCall
    <2>2. QED
      BY <2>1, Names
  <1> DEFINE k == [NoCall EXCEPT !.m = call[c].m, !.e = call[c].e, !.as = call[c].as]
  <1>3. k.m = call[c].m /\ k.e = call[c].e
    BY <1>1 DEF CallRecord
  <1>4. Kept(c) = NoCall \/ Kept(c) = k
    BY DEF Kept
  <1>5. QED
    BY <1>2, <1>3, <1>4

LEMMA Steady ==
  ASSUME Spares, Settles, pid' = pid,
         \A m \in ModelSet : Unlaunched(base', m) => Unlaunched(base, m) \/ sub'[m].id = 0
  PROVE  RunsAnew' /\ Tracked'
  <1>1. Next1' = Next1
    BY NextStays DEF Settles
  <1>2. RunsAnew'
    <2>1. SUFFICES ASSUME NEW m \in ModelSet, Unlaunched(base', m), sub'[m].id # 0
                   PROVE  Unsaid(m)'
      BY DEF RunsAnew, Unlaunched
    <2>2. Unlaunched(base, m) /\ sub[m].id # 0
      BY <2>1 DEF Settles
    <2>3. Unsaid(m)
      BY <2>2 DEF Spares, RunsAnew
    <2>4. QED
      BY <1>1, <2>3 DEF Unsaid, Saving, Settles
  <1>3. Tracked'
    <2>1. SUFFICES ASSUME NEW m \in ModelSet \ {Claude}, NEW r \in Rounds,
                          proc'[m][r] # 0, sub'[m].id = r
                   PROVE  pid[m] = r \/ (disp.at = "pid" /\ m = Next1 /\ r = round)
      BY <1>1 DEF Spares, Tracked, Settles
    <2>2. r # 0
      BY Numbers
    <2>3. proc[m][r] # 0 /\ sub[m].id = r
      BY <2>1, <2>2 DEF Settles
    <2>4. QED
      BY <2>3 DEF Spares, Tracked
  <1>4. QED
    BY <1>2, <1>3

LEMMA Still ==
  ASSUME UNCHANGED <<sub, proc, disp, round>>
  PROVE  Settles
  BY DEF Settles, Working

(* A step about no entry.                                                    *)
LEMMA PlainSpares ==
  ASSUME StateOK, Spares, NEW c \in Callers, \A d \in Callers \ {c} : call'[d] = call[d],
         UNCHANGED <<sub, base, proc, pid, disp, round>>,
         Step(c)' \in {"run", "rerun"} =>
            \A m \in ModelSet : Unlaunched(call'[c].base, m) => sub[m].id = 0,
         Task(c)', c \in Healers => FirstOnly(call'[c].todo)
  PROVE  Spares'
  <1>1. Settles
    BY Still
  <1>2. RunsAnew' /\ Tracked'
    BY <1>1, Steady
  <1>3. QED
    BY <1>1, <1>2, StepSpares

(* A thread is through with its step.                                        *)
LEMMA DoneTask ==
  ASSUME StateOK, Spares, Settles, NEW c \in Callers, ~Free(c), Done(c), Step(c) # "healmark"
  PROVE  /\ \A d \in Callers \ {c} : call'[d] = call[d]
         /\ Step(c)' \in Later \cup {"none"} /\ Step(c)' \notin {"run", "rerun"}
         /\ Task(c)' /\ (c \in Healers => FirstOnly(call'[c].todo) /\ Step(c)' # "save")
  <1> DEFINE k == Kept(c)
             more == <<>>
  <1>1. k \in CallRecord /\ (k.m \notin ModelSet \/ (k.m = call[c].m /\ k.e = call[c].e))
    BY KeptOK, KeptTask DEF StateOK, Free
  <1>2. Do(c, more, k)
    BY DEF Done
  <1> HIDE DEF k
  <1>3. Agenda(more) /\ FirstOnly(more)
    BY Agendas DEF FirstOnly
  <1>4. /\ \A d \in Callers \ {c} : call'[d] = call[d]
        /\ call'[c].m \notin ModelSet \/ (call'[c].m = call[c].m /\ call'[c].e = call[c].e)
        /\ Step(c)' \in Later \cup {"none"}
        /\ FirstOnly(call[c].todo) => FirstOnly(call'[c].todo) /\ Step(c)' # "save"
    BY <1>1, <1>2, <1>3, DoTask
  <1>5. c \in Healers => FirstOnly(call[c].todo)
    BY DEF Spares, SavesFirst
  <1>6. Step(c)' \notin {"run", "rerun", "healmark"}
    BY <1>4 DEF Later, Saves
  <1>7. Task(c)'
    BY <1>4, <1>6, SameTask
  <1>8. QED
    BY <1>4, <1>5, <1>6, <1>7

LEMMA DoneSpares ==
  ASSUME StateOK, Spares, NEW c \in Callers, ~Free(c), Done(c), Step(c) # "healmark",
         UNCHANGED <<sub, base, proc, pid, disp, round>>
  PROVE  Spares'
  <1>1. /\ \A d \in Callers \ {c} : call'[d] = call[d]
        /\ Step(c)' \notin {"run", "rerun"}
        /\ Task(c)' /\ (c \in Healers => FirstOnly(call'[c].todo))
    BY Still, DoneTask
  <1>2. QED
    BY <1>1, PlainSpares

(* ... or comes to a new one by what it finds.                               *)
LEMMA MoreTask ==
  ASSUME StateOK, Spares, Settles, NEW c \in Callers, ~Free(c), NEW more, Agenda(more),
         more # <<>>, FirstOnly(more), NEW rec \in CallRecord, Do(c, more, rec),
         rec.m = Kept(c).m, rec.e = Kept(c).e,
         Step(c) \notin {"save", "healmark"}, Head(more) # "healmark"
  PROVE  /\ \A d \in Callers \ {c} : call'[d] = call[d]
         /\ Step(c)' = Head(more) /\ call'[c].base = rec.base
         /\ Task(c)' /\ (c \in Healers => FirstOnly(call'[c].todo))
  <1>1. rec.m \notin ModelSet \/ (rec.m = call[c].m /\ rec.e = call[c].e)
    BY KeptTask
  <1>2. /\ \A d \in Callers \ {c} : call'[d] = call[d]
        /\ call'[c].m \notin ModelSet \/ (call'[c].m = call[c].m /\ call'[c].e = call[c].e)
        /\ Step(c)' = Head(more) /\ call'[c].base = rec.base
        /\ FirstOnly(call[c].todo) => FirstOnly(call'[c].todo)
    BY <1>1, DoTask
  <1>3. c \in Healers => FirstOnly(call[c].todo)
    BY DEF Spares, SavesFirst
  <1>4. Task(c)'
    BY <1>2, SameTask
  <1>5. QED
    BY <1>2, <1>3, <1>4

LEMMA Shorts ==
    /\ \A step : FirstOnly(<<step>>)
    /\ FirstOnly(<<"enqueue", "drain">>) /\ FirstOnly(<<"save", "txn">>) /\ FirstOnly(<<>>)
  <1>1. \A step : FirstOnly(<<step>>)
    BY DEF FirstOnly
  <1>2. ASSUME NEW a, NEW b, b # "save" PROVE FirstOnly(<<a, b>>)
    <2>1. \A i \in 2..Len(<<a, b>>) : i = 2 /\ <<a, b>>[2] = b
      OBVIOUS
    <2>2. QED
      BY <1>2, <2>1 DEF FirstOnly
  <1>3. FirstOnly(<<>>)
    BY DEF FirstOnly
  <1>4. QED
    BY <1>1, <1>2, <1>3

LEMMA DrainSpares ==
  ASSUME StateOK, Spares, NEW c \in Callers, Drain(c)
  PROVE  Spares'
  <1>1. /\ ~Free(c) /\ Step(c) = "drain" /\ UNCHANGED <<sub, base, proc, pid, disp, round>>
    BY AtStep DEF Drain, Steps, entries, procs, counters
  <1>2. CASE ~MayDrain
    <2>1. Done(c)
      BY <1>2 DEF Drain, Done
    <2>2. QED
      BY <1>1, <2>1, DoneSpares
  <1>3. CASE MayDrain
    <2> DEFINE k == Kept(c)
               more == <<"pop">>
    <2>1. Agenda(more) /\ Head(more) = "pop" /\ more # <<>> /\ FirstOnly(more)
      BY Agendas, Shorts DEF Steps
    <2>2. Do(c, more, k) /\ k \in CallRecord
      BY <1>1, <1>3, KeptOK DEF Drain, StateOK, Free
    <2> HIDE DEF more
    <2>3. /\ \A d \in Callers \ {c} : call'[d] = call[d]
          /\ Step(c)' = "pop" /\ Task(c)' /\ (c \in Healers => FirstOnly(call'[c].todo))
      BY <1>1, <2>1, <2>2, Still, MoreTask
    <2>4. QED
      BY <1>1, <2>3, PlainSpares
  <1>4. QED
    BY <1>2, <1>3

LEMMA PopSpares ==
  ASSUME StateOK, AgentInv, Waits, Spares, NEW c \in Callers, Pop(c)
  PROVE  Spares'
  <1>1. ~Free(c) /\ Step(c) = "pop" /\ UNCHANGED <<sub, base, proc, pid, disp, round>>
    BY AtStep DEF Pop, Steps, entries, procs, counters
  <1>2. CASE ra.queue = <<>>
    BY <1>1, <1>2, DoneSpares DEF Pop
  <1>3. CASE ra.queue # <<>>
    <2> DEFINE item == Head(ra.queue)
               k == [Kept(c) EXCEPT !.item = item, !.base = base]
               more == <<item.kind>>
    <2>1. item \in Items
      BY <1>3, PoppedOK DEF Pop, StateOK, OursOK
    <2>2. base \in BaseData /\ Kept(c) \in CallRecord
      BY <1>1, KeptOK DEF StateOK, EntriesOK, Free
    <2>3. Do(c, more, k)
      BY <1>3 DEF Pop
    <2>4. item.kind \in {"run", "rerun", "synthesize"}
      BY <2>1 DEF Items
    <2> HIDE DEF item
    <2>5. k \in CallRecord /\ k.m = Kept(c).m /\ k.e = Kept(c).e /\ k.base = base
      BY <2>1, <2>2 DEF CallRecord
    <2>6. Agenda(more) /\ more # <<>> /\ Head(more) = item.kind /\ FirstOnly(more)
      BY <2>4, Agendas, Shorts DEF Steps
    <2> HIDE DEF k, more
    <2>7. /\ \A d \in Callers \ {c} : call'[d] = call[d]
          /\ call'[c].base = base
          /\ Task(c)' /\ (c \in Healers => FirstOnly(call'[c].todo))
      BY <1>1, <2>3, <2>4, <2>5, <2>6, Still, MoreTask
    <2>8. ~Saving
      BY <1>1, NoLoop DEF Amid, TakingUp, Saving
    <2>9. \A m \in ModelSet : Unlaunched(base, m) => sub[m].id = 0
      BY <2>8 DEF Spares, RunsAnew, Unsaid
    <2>10. QED
      BY <1>1, <2>7, <2>9, PlainSpares
  <1>4. QED
    BY <1>2, <1>3

(* A drain puts a copy back: what is to run in it has no entry.              *)
LEMMA DispatchRunSpares ==
  ASSUME StateOK, AgentInv, Waits, Spares, NEW c \in Callers, DispatchRun(c)
  PROVE  Spares'
  <1>1. /\ ~Free(c) /\ Step(c) = "run" /\ Done(c) /\ base' = call[c].base
        /\ UNCHANGED <<sub, proc, pid, disp, round>>
    BY AtStep DEF DispatchRun, Steps, procs, counters
  <1>2. Settles
    BY <1>1, Still
  <1>3. disp.at \notin Loop
    BY <1>1, NoLoop DEF Amid, TakingUp
  <1>4. \A m \in ModelSet : Unlaunched(base', m) => sub'[m].id = 0
    BY <1>1 DEF Spares, CopiesAnew
  <1>5. RunsAnew' /\ Tracked'
    BY <1>1, <1>2, <1>4, Steady
  <1>6. /\ \A d \in Callers \ {c} : call'[d] = call[d]
        /\ Step(c)' \notin {"run", "rerun"}
        /\ Task(c)' /\ (c \in Healers => FirstOnly(call'[c].todo))
    BY <1>1, <1>2, DoneTask
  <1>7. QED
    BY <1>2, <1>3, <1>5, <1>6, StepSpares

LEMMA RerunStatus ==
  ASSUME NEW b \in BaseData, NEW models \in SUBSET ModelSet, NEW m \in ModelSet \ models,
         Unlaunched(RerunMarks(b, models), m)
  PROVE  Unlaunched(b, m)
  <1> DEFINE st == [n \in ModelSet |->
                  CASE n \in models         -> "rerun"
                    [] b.status[n] = "none" -> "done"
                    [] OTHER                -> b.status[n]]
  <1>1. RerunMarks(b, models) = [b EXCEPT !.status = st, !.triggered = FALSE]
    BY DEF RerunMarks, Marked, BaseData
  <1>2. b.status[m] # "none" => st[m] = b.status[m]
    OBVIOUS
  <1> HIDE DEF st
  <1>3. RerunMarks(b, models).status = st
    BY <1>1 DEF BaseData
  <1>4. QED
    BY <1>2, <1>3 DEF Unlaunched

LEMMA DispatchRerunSpares ==
  ASSUME StateOK, AgentInv, Waits, Spares, NEW c \in Callers, DispatchRerun(c)
  PROVE  Spares'
  <1> DEFINE models == call[c].item.models
  <1>1. /\ ~Free(c) /\ Step(c) = "rerun" /\ Done(c) /\ UNCHANGED <<proc, pid, disp, round>>
        /\ base' = RerunMarks(call[c].base, models)
        /\ sub' = [m \in ModelSet |-> IF m \in models THEN NoEntry ELSE sub[m]]
    BY AtStep DEF DispatchRerun, Steps, procs, counters
  <1>2. call[c].base \in BaseData /\ models \in SUBSET ModelSet
    <2>1. call[c].base \in BaseData /\ call[c].item \in Items
      BY CallIs DEF StateOK
    <2>2. QED
      BY <2>1 DEF Items
  <1> HIDE DEF models
  <1>3. \A m \in ModelSet : IF m \in models THEN ~Working(m)' /\ sub'[m].id = 0
                            ELSE sub'[m] = sub[m]
    BY <1>1, NoEntryOK DEF Working, NoEntry
  <1>4. Settles
    BY <1>1, <1>3 DEF Settles, Working
  <1>5. disp.at \notin Loop
    BY <1>1, NoLoop DEF Amid, TakingUp
  <1>6. \A m \in ModelSet : Unlaunched(base', m) => sub'[m].id = 0
    <2>1. SUFFICES ASSUME NEW m \in ModelSet \ models, Unlaunched(base', m)
                   PROVE  sub[m].id = 0
      BY <1>3
    <2>2. Unlaunched(call[c].base, m)
      BY <1>1, <1>2, <2>1, RerunStatus
    <2>3. QED
      BY <1>1, <2>2 DEF Spares, CopiesAnew
  <1>7. RunsAnew' /\ Tracked'
    BY <1>1, <1>4, <1>6, Steady
  <1>8. /\ \A d \in Callers \ {c} : call'[d] = call[d]
        /\ Step(c)' \notin {"run", "rerun"}
        /\ Task(c)' /\ (c \in Healers => FirstOnly(call'[c].todo))
    BY <1>1, <1>4, DoneTask
  <1>9. QED
    BY <1>4, <1>5, <1>7, <1>8, StepSpares

LEMMA TriggeredStatus ==
  ASSUME NEW b \in BaseData
  PROVE  [b EXCEPT !.triggered = TRUE].status = b.status
  BY DEF BaseData

(* A step in which no model's status becomes one that is to run.             *)
LEMMA TriggerStep ==
  ASSUME StateOK, AgentInv, Waits, Spares, NEW c \in Callers, Step(c) \in Amid,
         UNCHANGED <<sub, proc, pid, disp, round>>,
         base' = [base EXCEPT !.triggered = TRUE],
         \A d \in Callers \ {c} : call'[d] = call[d],
         Step(c)' \notin {"run", "rerun"},
         Task(c)', c \in Healers => FirstOnly(call'[c].todo)
  PROVE  Spares'
  <1>1. disp.at \notin Loop
    BY NoLoop
  <1>2. Settles
    BY Still
  <1>3. base'.status = base.status
    BY TriggeredStatus DEF StateOK, EntriesOK
  <1>4. RunsAnew' /\ Tracked'
    BY <1>2, <1>3, Steady DEF Unlaunched
  <1>5. QED
    BY <1>1, <1>2, <1>4, StepSpares

LEMMA DispatchSynthesizeSpares ==
  ASSUME StateOK, AgentInv, Waits, Spares, NEW c \in Callers, DispatchSynthesize(c)
  PROVE  Spares'
  <1>1. /\ ~Free(c) /\ Step(c) = "synthesize" /\ UNCHANGED <<sub, proc, pid, disp, round>>
    BY AtStep DEF DispatchSynthesize, Steps, procs, counters
  <1>2. CASE call[c].base.ids = {}
    BY <1>1, <1>2, DoneSpares DEF DispatchSynthesize
  <1>3. CASE call[c].base.ids # {}
    <2> DEFINE k == [Kept(c) EXCEPT !.ra = ra']
               more == <<"launch">>
    <2>1. base' = [base EXCEPT !.triggered = TRUE] /\ Do(c, more, k)
      BY <1>3 DEF DispatchSynthesize
    <2>2. ra' \in ActionData
      <3>1. ra' = [ra EXCEPT !.target = Synthesis(synth.id + 1)]
        <4>1. synth' = [status |-> "open", id |-> synth.id + 1]
          BY <1>3 DEF DispatchSynthesize
        <4>2. QED
          BY <1>3, <4>1 DEF DispatchSynthesize
      <3>2. synth.id \in Nat /\ ra \in ActionData
        BY DEF StateOK, EntriesOK, SynthEntry, OursOK, GoodData
      <3>3. Synthesis(synth.id + 1) \in Syntheses
        BY <3>2 DEF Synthesis, Syntheses
      <3>4. QED
        BY <3>1, <3>2, <3>3 DEF ActionData
    <2>3. k \in CallRecord /\ k.m = Kept(c).m /\ k.e = Kept(c).e
      <3>1. Kept(c) \in CallRecord
        BY <1>1, KeptOK DEF StateOK, Free
      <3>2. QED
        BY <2>2, <3>1 DEF CallRecord
    <2>4. Agenda(more) /\ more # <<>> /\ Head(more) = "launch" /\ FirstOnly(more)
      BY Agendas, Shorts DEF Steps
    <2> HIDE DEF k, more
    <2>5. /\ \A d \in Callers \ {c} : call'[d] = call[d]
          /\ Step(c)' = "launch" /\ Task(c)' /\ (c \in Healers => FirstOnly(call'[c].todo))
      BY <1>1, <2>1, <2>3, <2>4, Still, MoreTask
    <2>6. QED
      BY <1>1, <2>1, <2>5, TriggerStep DEF Amid, TakingUp
  <1>4. QED
    BY <1>2, <1>3

LEMMA TriggerSpares ==
  ASSUME StateOK, AgentInv, Waits, Spares, NEW c \in Callers, Trigger(c)
  PROVE  Spares'
  <1>1. /\ ~Free(c) /\ Step(c) = "trigger" /\ UNCHANGED <<sub, proc, pid, disp, round>>
    BY AtStep DEF Trigger, Steps, procs, counters
  <1>2. CASE ~StillUntriggered
    BY <1>1, <1>2, DoneSpares DEF Trigger
  <1>3. CASE StillUntriggered
    <2> DEFINE k == [Kept(c) EXCEPT !.item = Item("synthesize", {})]
               more == <<"enqueue", "drain">>
    <2>1. base' = [base EXCEPT !.triggered = TRUE] /\ Do(c, more, k)
      BY <1>3 DEF Trigger
    <2>2. k \in CallRecord /\ k.m = Kept(c).m /\ k.e = Kept(c).e
      <3>1. Kept(c) \in CallRecord
        BY <1>1, KeptOK DEF StateOK, Free
      <3>2. QED
        BY <3>1, NewDataOK DEF CallRecord
    <2>3. Agenda(more) /\ more # <<>> /\ Head(more) = "enqueue" /\ FirstOnly(more)
      BY Agendas, Shorts
    <2> HIDE DEF k, more
    <2>4. /\ \A d \in Callers \ {c} : call'[d] = call[d]
          /\ Step(c)' = "enqueue" /\ Task(c)' /\ (c \in Healers => FirstOnly(call'[c].todo))
      BY <1>1, <2>1, <2>2, <2>3, Still, MoreTask
    <2>5. QED
      BY <1>1, <2>1, <2>4, TriggerStep DEF Amid
  <1>4. QED
    BY <1>2, <1>3

LEMMA SaveEntrySpares ==
  ASSUME StateOK, AgentInv, Waits, Spares, NEW c \in Callers, SaveEntry(c), Calm'
  PROVE  Spares'
  <1> DEFINE m == call[c].m
  <1>1. /\ ~Free(c) /\ Step(c) = "save" /\ Done(c)
        /\ UNCHANGED <<base, proc, pid, disp, round>>
        /\ holes' = holes \cup Crossed(c)
        /\ sub' = IF m \in ModelSet /\ sub[m].id = call[c].e
                  THEN [sub EXCEPT ![m].status = call[c].as] ELSE sub
    BY AtStep DEF SaveEntry, Steps, procs, counters
  <1>2. call[c].as \in Terminal
    BY <1>1, CallIs DEF StateOK, Ending, Saves
  <1>3. \A n \in ModelSet : sub'[n].id = sub[n].id /\ (Working(n)' => Working(n))
    <2>1. CASE m \in ModelSet /\ sub[m].id = call[c].e
      <3>1. PICK n \in ModelSet : n = m
        BY <2>1
      <3>2. sub[n] \in SubEntry /\ sub \in [ModelSet -> SubEntry]
        BY DEF StateOK, EntriesOK
      <3>3. /\ sub'[n].status = call[c].as /\ sub'[n].id = sub[n].id
            /\ \A o \in ModelSet \ {n} : sub'[o] = sub[o]
        BY <1>1, <2>1, <3>1, <3>2 DEF SubEntry
      <3>4. ~Working(n)'
        BY <1>2, <3>3 DEF Working, Terminal
      <3>5. QED
        BY <3>3, <3>4 DEF Working
    <2>2. CASE ~(m \in ModelSet /\ sub[m].id = call[c].e)
      BY <1>1, <2>2 DEF Working
    <2>3. QED
      BY <2>1, <2>2
  <1>4. Settles
    BY <1>1, <1>3 DEF Settles
  <1>5. RunsAnew' /\ Tracked'
    BY <1>1, <1>4, Steady
  <1>6. /\ \A d \in Callers \ {c} : call'[d] = call[d]
        /\ Step(c)' \notin {"run", "rerun"}
        /\ Task(c)' /\ (c \in Healers => FirstOnly(call'[c].todo))
    BY <1>1, <1>4, DoneTask
  <1>7. QED
    BY <1>1, <1>4, <1>5, <1>6, StepSpares

(* A completion takes the pid row of an entry that has no process any more.  *)
LEMMA CompleteSpares ==
  ASSUME StateOK, AgentInv, Waits, Spares, NEW c \in Callers, Complete(c), Calm'
  PROVE  Spares'
  <1> DEFINE more == IF AllTerminal(base') /\ ~base'.triggered THEN <<"trigger">> ELSE <<>>
             k == Kept(c)
             m == call[c].m
  <1>1. /\ ~Free(c) /\ Step(c) = "txn" /\ Do(c, more, k) /\ UNCHANGED <<sub, proc, disp, round>>
        /\ base' = Recorded(m, call[c].as)
        /\ pid' = IF m \in ModelSet THEN [pid EXCEPT ![m] = 0] ELSE pid
        /\ holes' = holes \cup Crossed(c) \cup Stale(m, call[c].e)
    BY AtStep DEF Complete, Steps, counters
  <1>2. Settles
    BY <1>1, Still
  <1>3. disp.at \notin Loop
    BY <1>1, NoLoop DEF Amid
  <1>4. call[c].as \in Terminal /\ call[c].e \in Nat
    BY <1>1, CallIs DEF StateOK, Ending, Saves
  <1>5. \A n \in ModelSet : Unlaunched(base', n) => Unlaunched(base, n)
    <2>1. base \in BaseData
      BY DEF StateOK, EntriesOK
    <2>2. base' = IF m \in ModelSet THEN [base EXCEPT !.status[m] = call[c].as] ELSE base
      BY <1>1 DEF Recorded
    <2>3. QED
      BY <1>4, <2>1, <2>2 DEF BaseData, Unlaunched, Terminal
  <1>6. RunsAnew'
    <2>1. Next1' = Next1
      BY <1>1, NextStays
    <2>2. \A n \in ModelSet : Unsaid(n) => Unsaid(n)'
      BY <1>1, <2>1 DEF Unsaid, Saving
    <2>3. QED
      BY <1>1, <1>5, <2>2 DEF Spares, RunsAnew, Unlaunched
  <1>7. Tracked'
    <2>1. pid \in [ModelSet -> {0} \cup Rounds] /\ Claude \in ModelSet
      BY Names DEF StateOK, ProcsOK
    <2>2. \A n \in ModelSet : pid'[n] = pid[n] \/ (n = m /\ pid'[n] = 0)
      BY <1>1, <2>1
    <2>3. pid'[Claude] = 0
      BY <2>1, <2>2 DEF Spares, Tracked
    <2>4. SUFFICES ASSUME NEW n \in ModelSet \ {Claude}, NEW r \in Rounds,
                          proc[n][r] # 0, sub[n].id = r
                   PROVE  pid'[n] = r
      BY <1>1, <1>3, <2>3 DEF Tracked, Loop
    <2>5. pid[n] = r
      BY <1>3, <2>4 DEF Spares, Tracked, Loop
    <2>6. n # m
      <3>1. SUFFICES ASSUME n = m PROVE FALSE
        OBVIOUS
      <3>2. sub[n].id = call[c].e
        BY <1>1, <3>1 DEF Calm, Stale
      <3>3. Left(n, call[c].e)
        BY <1>1, <3>1, <2>4 DEF Spares, Tasks, Task
      <3>4. QED
        BY <2>4, <3>2, <3>3 DEF Left
    <2>7. QED
      BY <2>2, <2>5, <2>6
  <1>8. Agenda(more) /\ FirstOnly(more) /\ (more # <<>> => Head(more) = "trigger")
    BY Agendas, Shorts DEF Steps
  <1>9. k \in CallRecord
    BY <1>1, KeptOK DEF StateOK, Free
  <1> HIDE DEF more, k
  <1>10. /\ \A d \in Callers \ {c} : call'[d] = call[d]
         /\ Step(c)' \notin {"run", "rerun"}
         /\ Task(c)' /\ (c \in Healers => FirstOnly(call'[c].todo))
    <2>1. CASE more = <<>>
      <3>1. Done(c)
        BY <1>1, <2>1 DEF Done, k
      <3>2. QED
        BY <1>1, <1>2, <3>1, DoneTask
    <2>2. CASE more # <<>>
      BY <1>1, <1>2, <1>8, <1>9, <2>2, MoreTask DEF k
    <2>3. QED
      BY <2>1, <2>2
  <1>11. QED
    BY <1>2, <1>3, <1>6, <1>7, <1>10, StepSpares

(* A healer that finds no live process behind the pid row of an entry on its *)
(* list has an entry without a process, or one that is deleted.              *)
LEMMA HealMarkSpares ==
  ASSUME StateOK, Spares, NEW c \in Callers, HealMark(c)
  PROVE  Spares'
  <1> DEFINE m == call[c].m
             e == call[c].e
             more == IF HasLivePid(m) THEN <<>> ELSE <<"save", "txn">>
             k == call[c]
  <1>1. /\ ~Free(c) /\ Step(c) = "healmark" /\ Do(c, more, k)
        /\ UNCHANGED <<sub, base, proc, pid, disp, round>>
    BY AtStep DEF HealMark, Steps, entries, procs, counters
  <1>2. /\ call[c].todo = <<"healmark">> /\ m \in ModelSet \ {Claude}
        /\ disp.at \in Loop => e < round
        /\ Known(m, e) /\ e \in Nat /\ k \in CallRecord
    BY <1>1, CallIs DEF Spares, Tasks, Task, StateOK
  <1>3. Agenda(more) /\ FirstOnly(more) /\ (more # <<>> => Head(more) = "save")
    BY Agendas, Shorts
  <1>4. e \in Rounds
    BY <1>2, RoundIs DEF Known
  <1>5. Settles
    BY <1>1, Still
  <1>6. ~HasLivePid(m) => Left(m, e)
    <2>1. SUFFICES ASSUME ~HasLivePid(m), sub[m].id = e, proc[m][e] # 0 PROVE FALSE
      BY <1>2 DEF Left
    <2>2. pid[m] = e \/ (disp.at = "pid" /\ e = round)
      BY <1>2, <1>4, <2>1 DEF Spares, Tracked
    <2>3. pid[m] = e
      <3>1. disp.at = "pid" => e < round
        BY <1>2 DEF Loop
      <3>2. QED
        BY <1>2, <2>2, <3>1, RoundIs
    <2>4. QED
      BY <1>2, <2>1, <2>3 DEF HasLivePid, Alive, Known
  <1> HIDE DEF more
  <1>7. /\ \A d \in Callers \ {c} : call'[d] = call[d]
        /\ call'[c].m \notin ModelSet \/ (call'[c].m = m /\ call'[c].e = e)
        /\ more = <<>> => Step(c)' \in Later \cup {"none"}
        /\ more # <<>> => Step(c)' = "save"
        /\ FirstOnly(call[c].todo) => FirstOnly(call'[c].todo)
    <2>1. more # <<>> => Step(c) # "save"
      BY <1>1
    <2> HIDE DEF k
    <2>2. k.m = call[c].m /\ k.e = call[c].e
      BY DEF k
    <2>3. QED
      BY <1>1, <1>2, <1>3, <2>1, <2>2, DoTask
  <1>8. Step(c)' \notin {"run", "rerun", "healmark"}
    BY <1>7 DEF Later, Saves
  <1>9. more = <<>> => call'[c].m \notin ModelSet
    <2>1. SUFFICES ASSUME more = <<>> PROVE call'[c].m \notin ModelSet
      OBVIOUS
    <2>2. Tail(call[c].todo) = <<>> /\ <<>> \o Tail(call[c].todo) = <<>>
      BY <1>2
    <2>3. call' = [call EXCEPT ![c] = NoCall]
      BY <1>1, <2>1, <2>2 DEF Do
    <2>4. call'[c] = NoCall /\ NoCall.m = "none"
      BY <2>3 DEF StateOK, CallsOK, NoCall
    <2>5. QED
      BY <2>4, Names
  <1>10. more # <<>> => ~HasLivePid(m)
    BY DEF more
  <1>11. Task(c)'
    <2>1. SUFFICES ASSUME call'[c].m \in ModelSet PROVE Task(c)'
      BY <1>8 DEF Task
    <2>2. PICK n \in ModelSet, i \in Nat : n = m /\ i = e
      BY <1>2
    <2>3. Left(n, i)'
      BY <1>5, <1>6, <1>9, <1>10, <2>1, <2>2, SettledLeft
    <2>4. call'[c].m = n /\ call'[c].e = i
      BY <1>7, <2>1, <2>2
    <2>5. QED
      BY <1>8, <2>3, <2>4 DEF Task, Left
  <1>12. c \in Healers => FirstOnly(call'[c].todo)
    BY <1>7 DEF Spares, SavesFirst
  <1>13. QED
    BY <1>1, <1>7, <1>8, <1>11, <1>12, PlainSpares

LEMMA CallStepSpares ==
  ASSUME StateOK, AgentInv, Waits, Spares, Calm', NEW c \in Callers, CallStep(c)
  PROVE  Spares'
  <1>1. CASE Enqueue(c)
    <2>1. ~Free(c) /\ Step(c) = "enqueue" /\ Done(c)
          /\ UNCHANGED <<sub, base, proc, pid, disp, round>>
      BY <1>1, AtStep DEF Enqueue, Steps, entries, procs, counters
    <2>2. QED
      BY <2>1, DoneSpares
  <1>2. CASE Drain(c)               BY <1>2, DrainSpares
  <1>3. CASE Pop(c)                 BY <1>3, PopSpares
  <1>4. CASE DispatchRun(c)         BY <1>4, DispatchRunSpares
  <1>5. CASE DispatchRerun(c)       BY <1>5, DispatchRerunSpares
  <1>6. CASE DispatchSynthesize(c)  BY <1>6, DispatchSynthesizeSpares
  <1>7. CASE LaunchSynthesis(c)
    <2>1. ~Free(c) /\ Step(c) = "launch" /\ Done(c)
          /\ UNCHANGED <<sub, base, proc, pid, disp, round>>
      BY <1>7, AtStep DEF LaunchSynthesis, Steps, entries, counters
    <2>2. QED
      BY <2>1, DoneSpares
  <1>8. CASE SaveEntry(c)           BY <1>8, SaveEntrySpares
  <1>9. CASE Complete(c)            BY <1>9, CompleteSpares
  <1>10. CASE Trigger(c)            BY <1>10, TriggerSpares
  <1>11. CASE Publish(c)
    <2>1. ~Free(c) /\ Step(c) = "publish" /\ Done(c)
          /\ UNCHANGED <<sub, base, proc, pid, disp, round>>
      BY <1>11, AtStep DEF Publish, Steps, procs, counters
    <2>2. QED
      BY <2>1, DoneSpares
  <1>12. CASE HealMark(c)           BY <1>12, HealMarkSpares
  <1>13. QED
    BY <1>1, <1>2, <1>3, <1>4, <1>5, <1>6, <1>7, <1>8, <1>9, <1>10, <1>11, <1>12 DEF CallStep

(* Beginnings and ends.                                                      *)
LEMMA NoHealers == Synth \notin Healers /\ \A m \in ModelSet, r \in Rounds : <<m, r>> \notin Healers
  <1>1. \A r \in Rounds : r # 0
    BY Numbers
  <1>2. QED
    BY <1>1 DEF Healers, Synth, Web, Agent

LEMMA StartSpares ==
  ASSUME StateOK, Spares, Settles, NEW c \in Callers, NEW r, Start(c, r),
         disp.at \in Loop => base' = base, RunsAnew', Tracked', r.todo # <<>>,
         Head(r.todo) \notin {"run", "rerun"},
         r.m \in ModelSet /\ (c \in Healers \/ r.m # Claude)
           => IF Head(r.todo) = "healmark" THEN Known(r.m, r.e) ELSE Left(r.m, r.e)',
         Head(r.todo) = "healmark" =>
           /\ r.todo = <<"healmark">> /\ r.m \in ModelSet \ {Claude} /\ disp.at \notin Loop,
         c \in Healers => FirstOnly(r.todo)
  PROVE  Spares'
  <1>1. call'[c] = r /\ \A d \in Callers \ {c} : call'[d] = call[d]
    BY DEF Start, StateOK, CallsOK
  <1>2. Step(c)' = Head(r.todo)
    BY <1>1 DEF Step, Free
  <1>3. Task(c)'
    <2>1. Known(r.m, r.e) <=> Known(r.m, r.e)'
      BY SettledLeft
    <2>2. disp' = disp
      BY DEF Settles
    <2>3. QED
      BY <1>1, <1>2, <2>1, <2>2 DEF Task, Left
  <1>4. QED
    BY <1>1, <1>2, <1>3, StepSpares

(* A thread begins that completes nothing.                                   *)
LEMMA AskSpares ==
  ASSUME StateOK, Spares, NEW c \in Callers, NEW t, t \in Seq(Steps), NEW item, Start(c, [NoCall EXCEPT !.todo = t, !.item = item]),
         UNCHANGED <<sub, base, proc, pid, disp, round>>,
         t # <<>>, Head(t) \in {"enqueue", "drain"}, FirstOnly(t)
  PROVE  Spares'
  <1> DEFINE r == [NoCall EXCEPT !.todo = t, !.item = item]
  <1>1. r.todo = t /\ r.m = "none"
    BY DEF NoCall
  <1>2. Settles
    BY Still
  <1>3. RunsAnew' /\ Tracked'
    BY <1>2, Steady
  <1>4. "none" \notin ModelSet
    BY Names
  <1> HIDE DEF r
  <1>5. Start(c, r)
    BY DEF r
  <1>6. QED
    BY <1>1, <1>2, <1>3, <1>4, <1>5, StartSpares

LEMMA IdleSpares ==
  ASSUME StateOK, Spares, UNCHANGED <<sub, base, proc, pid, disp, round, call>>
  PROVE  Spares'
  <1>1. Settles
    BY Still
  <1>2. RunsAnew' /\ Tracked'
    BY <1>1, Steady
  <1>3. Synth \in Callers /\ Step(Synth)' = Step(Synth)
    BY Names DEF Step, Free
  <1>4. call[Synth].e \in Nat /\ Task(Synth)
    BY <1>3, CallIs DEF StateOK, Spares, Tasks
  <1>5. Task(Synth)'
    BY <1>1, <1>3, <1>4, SettledLeft DEF Task
  <1>6. Step(Synth)' \in {"run", "rerun"} =>
            \A m \in ModelSet : Unlaunched(call'[Synth].base, m) => sub'[m].id = 0
    BY <1>3 DEF Spares, CopiesAnew, Unlaunched
  <1>7. QED
    BY <1>1, <1>2, <1>3, <1>5, <1>6, NoHealers, StepSpares

LEMMA RequestSpares ==
  ASSUME StateOK, Spares, NEW item \in Items, Request(item)
  PROVE  Spares'
  <1>1. <<"enqueue", "drain">> \in Seq(Steps)
    BY Agendas DEF Agenda
  <1>2. /\ Start(Web, [NoCall EXCEPT !.todo = <<"enqueue", "drain">>, !.item = item])
        /\ UNCHANGED <<sub, base, proc, pid, disp, round>>
    BY DEF Request, entries, procs
  <1>3. QED
    BY <1>1, <1>2, Agendas, Shorts, Names, AskSpares

LEMMA CronSpares ==
  ASSUME StateOK, Spares, Unpin \/ Reconcile
  PROVE  Spares'
  <1>1. UNCHANGED <<sub, base, proc, pid, disp, round>>
    BY DEF Unpin, Reconcile, entries, procs, counters
  <1>2. CASE Unpin
    <2>1. Start(Cron, [NoCall EXCEPT !.todo = <<"drain">>])
      BY <1>2 DEF Unpin
    <2>2. [NoCall EXCEPT !.todo = <<"drain">>]
            = [NoCall EXCEPT !.todo = <<"drain">>, !.item = NoCall.item]
      BY DEF NoCall
    <2>3. <<"drain">> \in Seq(Steps) /\ Head(<<"drain">>) = "drain" /\ <<"drain">> # <<>>
          /\ FirstOnly(<<"drain">>)
      BY Agendas, Shorts DEF Agenda, Steps
    <2>4. Start(Cron, [NoCall EXCEPT !.todo = <<"drain">>, !.item = NoCall.item])
      BY <2>1, <2>2
    <2>5. QED
      BY <1>1, <2>3, <2>4, Names, AskSpares
  <1>3. CASE Reconcile /\ UNCHANGED call
    BY <1>1, <1>3, IdleSpares
  <1>4. CASE Start(Cron, [NoCall EXCEPT !.todo = <<"enqueue", "drain">>,
                                        !.item = Item("synthesize", {})])
    <2>1. <<"enqueue", "drain">> \in Seq(Steps)
      BY Agendas DEF Agenda
    <2>2. QED
      BY <1>1, <1>4, <2>1, Agendas, Shorts, Names, AskSpares
  <1>5. QED
    BY <1>2, <1>3, <1>4 DEF Reconcile

(* A process that ends, or dies, was the writer of its own entry.            *)
LEMMA EndSettles ==
  ASSUME StateOK, Spares, NEW m \in ModelSet, NEW r \in Rounds,
         proc' = [proc EXCEPT ![m][r] = 0], UNCHANGED <<sub, base, pid, disp, round>>
  PROVE  Settles /\ RunsAnew' /\ Tracked' /\ proc'[m][r] = 0
  <1>1. /\ proc'[m][r] = 0
        /\ \A n \in ModelSet, s \in Rounds : n # m \/ s # r => proc'[n][s] = proc[n][s]
    BY ProcEnds DEF StateOK
  <1>2. Settles
    BY <1>1 DEF Settles, Working
  <1>3. QED
    BY <1>1, <1>2, Steady

LEMMA SubprocessEndsSpares ==
  ASSUME StateOK, Spares, NEW m \in ModelSet, NEW r \in Rounds, NEW ok \in BOOLEAN,
         SubprocessEnds(m, r, ok)
  PROVE  Spares'
  <1> DEFINE k == Completing(m, proc[m][r], Ended(ok), <<"save", "txn">>)
  <1>1. /\ m # Claude /\ proc[m][r] # 0 /\ proc' = [proc EXCEPT ![m][r] = 0]
        /\ Start(<<m, r>>, k) /\ UNCHANGED <<sub, base, pid, disp, round>>
    BY DEF SubprocessEnds, entries, counters
  <1>2. Settles /\ RunsAnew' /\ Tracked' /\ proc'[m][r] = 0
    BY <1>1, EndSettles
  <1>3. proc[m][r] = r /\ Known(m, r)
    BY <1>1 DEF Spares, OwnEntry
  <1>4. Left(m, r)'
    BY <1>2, <1>3, SettledLeft DEF Left
  <1>5. k.m = m /\ k.e = r /\ k.todo = <<"save", "txn">>
    BY <1>3 DEF Completing, NoCall
  <1>6. k.todo # <<>> /\ Head(k.todo) = "save"
    BY <1>5, Agendas
  <1> HIDE DEF k
  <1>7. QED
    BY <1>1, <1>2, <1>4, <1>5, <1>6, Names, NoHealers, StartSpares

LEMMA AgentCompleteSpares ==
  ASSUME StateOK, Spares, NEW c \in Callers, c \notin Healers, NEW ok \in BOOLEAN,
         AgentComplete(c, ok), Settles, RunsAnew', Tracked'
  PROVE  Spares'
  <1> DEFINE k == Completing(working[1], working[2], Ended(ok), AfterAgent(ok))
  <1>1. Start(c, k) /\ base' = base
    BY DEF AgentComplete, entries
  <1>2. k.m = working[1] /\ k.todo = AfterAgent(ok)
    BY DEF Completing, NoCall
  <1>3. AfterAgent(ok) # <<>> /\ Head(AfterAgent(ok)) = "drain"
    BY DEF AfterAgent
  <1>4. k.m \in ModelSet => k.m = Claude
    BY <1>2, Names DEF StateOK, OursOK
  <1> HIDE DEF k
  <1>5. QED
    BY <1>1, <1>2, <1>3, <1>4, StartSpares

LEMMA ClaudeEndsSpares ==
  ASSUME StateOK, Spares, NEW r \in Rounds, NEW ok \in BOOLEAN, ClaudeEnds(r, ok)
  PROVE  Spares'
  <1>1. /\ proc' = [proc EXCEPT ![Claude][r] = 0] /\ AgentComplete(<<Claude, r>>, ok)
        /\ UNCHANGED <<sub, base, pid, disp, round>>
    BY DEF ClaudeEnds, AgentComplete, entries, counters
  <1>2. Claude \in ModelSet /\ <<Claude, r>> \in Callers /\ <<Claude, r>> \notin Healers
    BY Names, NoHealers
  <1>3. Settles /\ RunsAnew' /\ Tracked'
    BY <1>1, <1>2, EndSettles
  <1>4. QED
    BY <1>1, <1>2, <1>3, AgentCompleteSpares

LEMMA SynthEndsSpares ==
  ASSUME StateOK, Spares, NEW ok \in BOOLEAN, SynthEnds(ok)
  PROVE  Spares'
  <1>1. AgentComplete(Synth, ok) /\ UNCHANGED <<sub, base, pid, proc, disp, round>>
    BY DEF SynthEnds, AgentComplete, entries, counters
  <1>2. Settles
    BY <1>1, Still
  <1>3. RunsAnew' /\ Tracked'
    BY <1>1, <1>2, Steady
  <1>4. QED
    BY <1>1, <1>2, <1>3, Names, NoHealers, AgentCompleteSpares

LEMMA ModelDiesSpares ==
  ASSUME StateOK, Spares, NEW m \in ModelSet, NEW r \in Rounds, ModelDies(m, r)
  PROVE  Spares'
  <1>1. /\ proc' = [proc EXCEPT ![m][r] = 0] /\ UNCHANGED <<sub, base, pid, disp, round>>
        /\ call' = [call EXCEPT ![<<m, r>>] = NoCall]
    BY DEF ModelDies, entries
  <1>2. Settles /\ RunsAnew' /\ Tracked'
    BY <1>1, EndSettles
  <1>3. PICK c \in Callers : c = <<m, r>>
    BY Names
  <1>4. call'[c] = NoCall /\ \A d \in Callers \ {c} : call'[d] = call[d]
    BY <1>1, <1>3 DEF StateOK, CallsOK
  <1>5. NoCall.m = "none" /\ NoCall.todo = <<>>
    BY DEF NoCall
  <1>6. Step(c)' = "none" /\ "none" \notin ModelSet
    BY <1>4, <1>5, Names DEF Step, Free
  <1>7. Task(c)'
    BY <1>4, <1>5, <1>6 DEF Task
  <1>8. QED
    BY <1>1, <1>2, <1>3, <1>4, <1>6, <1>7, NoHealers, StepSpares

(* The healers begin.                                                        *)

LEMMA EntryKnown ==
  ASSUME StateOK, Spares, disp.at \notin Loop, NEW m \in ModelSet, Working(m)
  PROVE  sub[m].id \in Nat /\ Known(m, sub[m].id)
  <1>1. sub[m].id \in Nat /\ sub[m].id <= round
    BY DEF StateOK, EntriesOK, SubEntry
  <1>2. QED
    BY <1>1 DEF Spares, Named, Known, Yet

LEMMA HealPidSpares ==
  ASSUME StateOK, Spares, NEW c \in Healers, NEW m \in ModelSet, HealPid(c, m)
  PROVE  Spares'
  <1>1. /\ disp.at = "idle" /\ Free(c) /\ pid[m] # 0 /\ ~Alive(m, pid[m])
        /\ UNCHANGED <<sub, base, proc, disp, round>> /\ c \in Callers
    BY Names DEF HealPid, Settled, DispAt, entries, counters
  <1>2. m # Claude /\ disp.at \notin Loop
    BY <1>1 DEF Spares, Tracked, Loop
  <1>3. \A r \in Rounds : proc[m][r] # 0 => sub[m].id # r
    BY <1>1, <1>2 DEF Spares, Tracked, Alive
  <1>4. Settles
    BY <1>1, Still
  <1>5. CASE Working(m)
    <2>1. PICK e \in Nat : e = sub[m].id /\ Known(m, e)
      BY <1>2, <1>5, EntryKnown
    <2> DEFINE k == Completing(m, e, "failed", <<"save", "txn">>)
    <2>2. Start(c, k) /\ UNCHANGED pid
      BY <1>5, <2>1 DEF HealPid, MarkFailed
    <2>3. k.m = m /\ k.e = e /\ k.todo = <<"save", "txn">>
      BY DEF Completing, NoCall
    <2>4. Left(m, e)
      BY <1>3, <2>1, RoundIs DEF Left, Known
    <2>5. Left(m, e)'
      BY <1>4, <2>4, SettledLeft
    <2>6. RunsAnew' /\ Tracked'
      BY <1>1, <1>4, <2>2, Steady
    <2>7. k.todo # <<>> /\ Head(k.todo) = "save" /\ FirstOnly(k.todo)
      BY <2>3, Agendas, Shorts
    <2> HIDE DEF k
    <2>8. QED
      BY <1>1, <1>4, <2>2, <2>3, <2>5, <2>6, <2>7, StartSpares
  <1>6. CASE ~Working(m)
    <2>1. pid' = [pid EXCEPT ![m] = 0] /\ UNCHANGED call
      BY <1>6 DEF HealPid
    <2>2. RunsAnew'
      <3>1. Next1' = Next1
        BY <1>1, NextStays
      <3>2. QED
        BY <1>1, <3>1 DEF Spares, RunsAnew, Unlaunched, Unsaid, Saving
    <2>3. Tracked'
      <3>1. pid \in [ModelSet -> {0} \cup Rounds] /\ Claude \in ModelSet
        BY Names DEF StateOK, ProcsOK
      <3>2. \A n \in ModelSet : pid'[n] = pid[n] \/ (n = m /\ pid'[n] = 0)
        BY <2>1, <3>1
      <3>3. pid'[Claude] = 0
        BY <1>2, <3>1, <3>2 DEF Spares, Tracked
      <3>4. SUFFICES ASSUME NEW n \in ModelSet \ {Claude}, NEW r \in Rounds,
                            proc[n][r] # 0, sub[n].id = r
                     PROVE  pid'[n] = r
        BY <1>1, <3>3 DEF Tracked
      <3>5. pid[n] = r /\ n # m
        BY <1>1, <1>3, <3>4 DEF Spares, Tracked
      <3>6. QED
        BY <3>2, <3>5
    <2>4. Step(c)' = Step(c)
      BY <2>1 DEF Step, Free
    <2>5. call[c].e \in Nat /\ Task(c)
      BY <1>1, CallIs DEF StateOK, Spares, Tasks
    <2>6. Task(c)'
      BY <1>4, <2>1, <2>4, <2>5, SettledLeft, <1>1 DEF Task
    <2>7. FirstOnly(call'[c].todo) /\ Step(c)' \notin {"run", "rerun"}
      BY <1>1, <2>1, <2>4 DEF Spares, SavesFirst, Step, Free
    <2>8. QED
      BY <1>1, <1>4, <2>1, <2>2, <2>3, <2>6, <2>7, StepSpares
  <1>7. QED
    BY <1>5, <1>6

LEMMA HealListSpares ==
  ASSUME StateOK, Spares, NEW c \in Healers, NEW m \in ModelSet, HealList(c, m)
  PROVE  Spares'
  <1>1. /\ disp.at = "idle" /\ m # Claude /\ Working(m) /\ c \in Callers
        /\ UNCHANGED <<sub, base, proc, pid, disp, round>>
    BY Names DEF HealList, Settled, DispAt, entries, procs, counters
  <1>2. disp.at \notin Loop
    BY <1>1 DEF Loop
  <1>3. PICK e \in Nat : e = sub[m].id /\ Known(m, e)
    BY <1>1, <1>2, EntryKnown
  <1> DEFINE k == Completing(m, e, "failed", <<"healmark">>)
  <1>4. Start(c, k)
    BY <1>3 DEF HealList
  <1>5. k.m = m /\ k.e = e /\ k.todo = <<"healmark">>
    BY DEF Completing, NoCall
  <1>6. k.todo # <<>> /\ Head(k.todo) = "healmark" /\ FirstOnly(k.todo)
    BY <1>5, Agendas, Shorts DEF Steps
  <1>7. Settles
    BY <1>1, Still
  <1>8. RunsAnew' /\ Tracked'
    BY <1>1, <1>7, Steady
  <1> HIDE DEF k
  <1>9. QED
    BY <1>1, <1>2, <1>3, <1>4, <1>5, <1>6, <1>7, <1>8, StartSpares

LEMMA HealAgentSpares ==
  ASSUME StateOK, Spares, HealAgent
  PROVE  Spares'
  <1>1. /\ disp.at = "idle" /\ AgentGone /\ UNCHANGED <<sub, base, proc, pid, disp, round>>
    BY DEF HealAgent, Settled, DispAt, entries, procs, counters
  <1>2. disp.at \notin Loop /\ Claude \in ModelSet /\ Agent \in Callers
    BY <1>1, Names DEF Loop
  <1>3. CASE UNCHANGED call
    BY <1>1, <1>3, IdleSpares
  <1>4. CASE /\ WorkLives /\ working[1] = Claude /\ sub[Claude].status = "active"
             /\ Start(Agent, MarkFailed(Claude, working[2]))
    <2>1. sub[Claude].id = working[2]
      BY <1>4, Names DEF WorkLives
    <2>2. PICK e \in Nat : e = sub[Claude].id /\ Known(Claude, e)
      BY <1>2, <1>4, EntryKnown DEF Working
    <2> DEFINE k == Completing(Claude, e, "failed", <<"save", "txn">>)
    <2>3. Start(Agent, k)
      BY <1>4, <2>1, <2>2 DEF MarkFailed
    <2>4. k.m = Claude /\ k.e = e /\ k.todo = <<"save", "txn">>
      BY DEF Completing, NoCall
    <2>5. k.todo # <<>> /\ Head(k.todo) = "save" /\ FirstOnly(k.todo)
      BY <2>4, Agendas, Shorts
    <2>6. Settles
      BY <1>1, Still
    <2>7. Left(Claude, e)
      BY <1>1, <2>2, RoundIs DEF Left, Known, AgentGone, Alive
    <2>8. Left(Claude, e)'
      BY <1>2, <2>6, <2>7, SettledLeft
    <2>9. RunsAnew' /\ Tracked'
      BY <1>1, <2>6, Steady
    <2> HIDE DEF k
    <2>10. QED
      BY <1>1, <1>2, <2>3, <2>4, <2>5, <2>6, <2>8, <2>9, StartSpares
  <1>5. QED
    BY <1>3, <1>4 DEF HealAgent

(* The dispatcher outside its loop: no entry is touched, and what it will    *)
(* launch runs anew, under a number that no process has had.                 *)
LEMMA OutsideSpares ==
  ASSUME StateOK, Spares, disp.at \notin Loop, UNCHANGED <<sub, base, proc, pid>>,
         disp'.failed \subseteq disp.failed,
         \/ disp'.at \notin Loop /\ round' = round
         \/ /\ disp'.at = "sub" /\ round' = round + 1
            /\ \A m \in disp'.todo : Unlaunched(base, m),
         \/ UNCHANGED call
         \/ /\ Step(Agent)' = "txn" /\ Task(Agent)' /\ FirstOnly(call'[Agent].todo)
            /\ \A d \in Callers \ {Agent} : call'[d] = call[d]
  PROVE  Spares'
  <1>1. round \in Nat
    BY RoundIs
  <1>2. Yet = {} /\ ~Saving
    BY DEF Yet, Saving, Loop
  <1>3. Yet' = {} \/ round' = round + 1
    BY DEF Yet
  <1>4. \A m : \A e \in Nat : Known(m, e) => Known(m, e)'
    BY <1>1, <1>3 DEF Known
  <1>5. \A m : \A e \in Nat : Left(m, e) => Left(m, e)'
    BY <1>4 DEF Left
  <1>6. RunsAnew'
    BY <1>2 DEF Spares, RunsAnew, Unlaunched, Unsaid
  <1>7. CopiesAnew' /\ SavesFirst'
    <2>1. CASE UNCHANGED call
      BY <2>1 DEF Spares, CopiesAnew, Unlaunched, SavesFirst, FirstOnly, Step, Free
    <2>2. CASE /\ Step(Agent)' = "txn" /\ FirstOnly(call'[Agent].todo)
               /\ \A d \in Callers \ {Agent} : call'[d] = call[d]
      <3>1. \A d \in Callers \ {Agent} : Step(d)' = Step(d)
        BY <2>2 DEF Step, Free
      <3>2. CopiesAnew'
        BY <2>2, <3>1 DEF Spares, CopiesAnew, Unlaunched
      <3>3. SavesFirst'
        BY <2>2, Names DEF Spares, SavesFirst, FirstOnly
      <3>4. QED
        BY <3>2, <3>3
    <2>3. QED
      BY <2>1, <2>2
  <1>8. Named'
    BY DEF Spares, Named, Working
  <1>9. LoopAnew'
    BY DEF LoopAnew, Unlaunched, Loop
  <1>10. OwnEntry'
    BY <1>4, Numbers DEF Spares, OwnEntry
  <1>11. Tracked'
    BY DEF Spares, Tracked, Loop
  <1>12. FailedLeft'
    <2>1. \A f \in disp.failed : f[2] \in Nat
      BY HeldOK DEF StateOK
    <2>2. QED
      BY <1>5, <2>1 DEF Spares, FailedLeft
  <1>13. Tasks'
    <2>1. SUFFICES ASSUME NEW d \in Callers, call'[d] = call[d] PROVE Task(d)'
      BY DEF Tasks
    <2>2. call[d].e \in Nat /\ Task(d) /\ Step(d)' = Step(d)
      BY <2>1, CallIs DEF StateOK, Spares, Tasks, Step, Free
    <2>3. Known(call[d].m, call[d].e) => call[d].e < round'  \/ disp'.at \notin Loop
      BY <1>1, <2>2 DEF Known
    <2>4. Step(d) = "healmark" => call[d].m \in ModelSet \ {Claude}
      BY <2>2 DEF Task
    <2>5. /\ call[d].m \in ModelSet /\ (d \in Healers \/ call[d].m # Claude)
               => /\ Known(call[d].m, call[d].e)'
                  /\ Step(d) # "healmark" => Left(call[d].m, call[d].e)'
      BY <1>4, <1>5, <2>1, <2>2 DEF Task, Known, Left
    <2>6. QED
      BY <2>1, <2>2, <2>3, <2>4, <2>5 DEF Task
  <1>14. QED
    BY <1>6, <1>7, <1>8, <1>9, <1>10, <1>11, <1>12, <1>13 DEF Spares

LEMMA OutsideDispatchSpares ==
  ASSUME StateOK, Spares, ListDue \/ Execute \/ LaunchSynthTarget \/ EndDispatch \/ LastRun
  PROVE  Spares'
  <1>1. disp \in Dispatching
    BY HeldOK DEF StateOK
  <1>2. /\ disp.at \in {"idle", "execute", "synth", "end", "last"} /\ disp.at \notin Loop
        /\ UNCHANGED <<sub, base, proc, pid, call>>
    BY DEF ListDue, Execute, LaunchSynthTarget, EndDispatch, LastRun, DispAt, Loop, entries,
       procs
  <1>3. CASE ListDue \/ LastRun
    <2>1. /\ disp'.at \in {"idle", "execute"} /\ disp'.failed = {} /\ round' = round
      <3>1. CASE ListDue
        BY <3>1 DEF ListDue, NoDispatch, counters
      <3>2. CASE LastRun
        BY <3>2 DEF LastRun, NoDispatch, counters
      <3>3. QED
        BY <1>3, <3>1, <3>2
    <2>2. QED
      BY <1>2, <2>1, OutsideSpares DEF Loop
  <1>4. CASE LaunchSynthTarget \/ EndDispatch
    <2>1. disp'.at = "last" /\ disp'.failed = disp.failed /\ round' = round
      BY <1>1, <1>4 DEF LaunchSynthTarget, EndDispatch, counters, Dispatching
    <2>2. QED
      BY <1>2, <2>1, OutsideSpares DEF Loop
  <1>5. CASE Execute /\ round' = round /\ disp'.at \in {"synth", "end"} /\ disp'.failed = disp.failed
    BY <1>2, <1>5, OutsideSpares DEF Loop
  <1>6. CASE Execute /\ round' = round + 1 /\ disp'.at = "sub" /\ disp'.failed = disp.failed
             /\ disp'.todo = ToRun
    <2>1. \A m \in disp'.todo : Unlaunched(base, m)
      BY <1>6 DEF ToRun, Unlaunched
    <2>2. QED
      BY <1>2, <1>6, <2>1, OutsideSpares
  <1>7. QED
    BY <1>1, <1>3, <1>4, <1>5, <1>6 DEF Execute, Dispatching

(* A failed launch has left no process.                                      *)
LEMMA CompleteFailedSpares ==
  ASSUME StateOK, Spares, CompleteFailed
  PROVE  Spares'
  <1>1. disp \in Dispatching /\ disp.failed \subseteq ModelSet \X Nat
    BY HeldOK DEF StateOK
  <1>2. /\ disp.at = "fails" /\ disp.at \notin Loop /\ Free(Agent)
        /\ UNCHANGED <<sub, base, proc, pid, round>>
    BY DEF CompleteFailed, DispAt, Loop, entries, procs, counters
  <1>3. CASE disp' = [disp EXCEPT !.at = "end"] /\ UNCHANGED call
    <2>1. disp'.at = "end" /\ disp'.failed = disp.failed
      BY <1>1, <1>3 DEF Dispatching
    <2>2. QED
      BY <1>2, <1>3, <2>1, OutsideSpares DEF Loop
  <1>4. ASSUME NEW f \in disp.failed, disp' = [disp EXCEPT !.failed = @ \ {f}],
               Start(Agent, Completing(f[1], f[2], "failed", <<"txn">>))
        PROVE  Spares'
    <2> DEFINE r == Completing(f[1], f[2], "failed", <<"txn">>)
    <2>1. disp'.at = "fails" /\ disp'.failed = disp.failed \ {f}
      BY <1>1, <1>2, <1>4 DEF Dispatching
    <2>2. r.m = f[1] /\ r.e = f[2] /\ r.todo = <<"txn">>
      BY DEF Completing, NoCall
    <2>3. Head(r.todo) = "txn" /\ r.todo # <<>> /\ FirstOnly(r.todo)
      BY <2>2, Agendas, Shorts DEF Steps
    <2> HIDE DEF r
    <2>4. Start(Agent, r)
      BY <1>4 DEF r
    <2>5. call'[Agent] = r /\ \A d \in Callers \ {Agent} : call'[d] = call[d]
      BY <2>4, Names DEF Start, StateOK, CallsOK
    <2>6. Step(Agent)' = "txn" /\ FirstOnly(call'[Agent].todo)
      BY <2>3, <2>5 DEF Step, Free
    <2>7. Left(f[1], f[2]) /\ f[1] \in ModelSet
      BY <1>1, <1>4 DEF Spares, FailedLeft
    <2>8. Yet' = {}
      BY <2>1 DEF Yet, Loop
    <2>9. Left(f[1], f[2])'
      BY <1>2, <2>7, <2>8 DEF Left, Known
    <2>10. Task(Agent)'
      BY <2>2, <2>5, <2>6, <2>9 DEF Task, Left
    <2>11. QED
      BY <1>2, <2>1, <2>5, <2>6, <2>10, OutsideSpares DEF Loop
  <1>5. QED
    BY <1>3, <1>4 DEF CompleteFailed

(* A step of the loop: only the model that is still to be launched gets its  *)
(* entry, and only with its launch a process, both of this dispatch.         *)
Paces ==
    /\ UNCHANGED <<call, round>> /\ Yet' \subseteq Yet
    /\ \A m \in ModelSet :
          \/ sub'[m] = sub[m]
          \/ sub'[m].id = round /\ (m \in Yet \/ sub[m].id = round)
    /\ \A m \in ModelSet, r \in Rounds :
          \/ proc'[m][r] = proc[m][r]
          \/ m \in Yet \ Yet' /\ r = round /\ proc'[m][r] = r

LEMMA PaceLeft ==
  ASSUME StateOK, Paces, NEW m, NEW e \in Nat
  PROVE  /\ Known(m, e) => Known(m, e)'
         /\ m \in ModelSet /\ Left(m, e) => Left(m, e)'
  <1>1. Known(m, e) => Known(m, e)'
    BY DEF Known, Paces
  <1>2. ASSUME m \in ModelSet, Left(m, e) PROVE Left(m, e)'
    <2>1. e \in Rounds /\ (m \in Yet => e # round)
      BY <1>2, RoundIs DEF Left, Known
    <2>2. sub'[m].id = e => sub[m].id = e
      BY <1>2, <2>1 DEF Paces
    <2>3. proc'[m][e] = proc[m][e]
      BY <1>2, <2>1 DEF Paces
    <2>4. QED
      BY <1>1, <1>2, <2>2, <2>3 DEF Left
  <1>3. QED
    BY <1>1, <1>2

LEMMA LoopSpares ==
  ASSUME StateOK, AgentInv, Waits, Spares, disp.at \in Loop, Paces,
         RunsAnew', LoopAnew', Tracked', FailedLeft'
  PROVE  Spares'
  <1>1. round \in Rounds /\ round # 0 /\ round \in Nat
    BY AtModel, Numbers DEF StateOK
  <1>2. \A c \in Callers : Step(c)' = Step(c) /\ Step(c) \notin Amid
    BY NoLoop DEF Paces, Step, Free
  <1>3. CopiesAnew'
    BY <1>2 DEF CopiesAnew, Amid, TakingUp
  <1>4. Named'
    BY <1>1 DEF Spares, Named, Working, Paces
  <1>5. OwnEntry'
    <2>1. SUFFICES ASSUME NEW m \in ModelSet, NEW r \in Rounds, proc'[m][r] # 0
                   PROVE  proc'[m][r] = r /\ Known(m, r)'
      BY DEF OwnEntry
    <2>2. r \in Nat
      BY Numbers
    <2>3. CASE proc'[m][r] = proc[m][r]
      BY <2>1, <2>2, <2>3, PaceLeft DEF Spares, OwnEntry
    <2>4. CASE m \in Yet \ Yet' /\ r = round /\ proc'[m][r] = r
      BY <1>1, <2>4 DEF Known, Paces
    <2>5. QED
      BY <2>3, <2>4 DEF Paces
  <1>6. Tasks'
    <2>1. SUFFICES ASSUME NEW d \in Callers PROVE Task(d)'
      BY DEF Tasks
    <2>2. call[d].e \in Nat /\ Task(d) /\ Step(d)' = Step(d) /\ call'[d] = call[d]
      BY <1>2, CallIs DEF StateOK, Spares, Tasks, Paces
    <2>3. /\ Known(call[d].m, call[d].e) => Known(call[d].m, call[d].e)'
          /\ call[d].m \in ModelSet /\ Left(call[d].m, call[d].e)
               => Left(call[d].m, call[d].e)'
      <3>1. PICK m, e : m = call[d].m /\ e = call[d].e /\ e \in Nat
        BY <2>2
      <3>2. /\ Known(m, e) => Known(m, e)'
            /\ m \in ModelSet /\ Left(m, e) => Left(m, e)'
        BY <3>1, PaceLeft
      <3>3. QED
        BY <2>2, <3>1, <3>2 DEF Known, Left
    <2>4. QED
      BY <2>2, <2>3 DEF Task, Paces
  <1>7. SavesFirst'
    BY DEF Spares, SavesFirst, FirstOnly, Paces
  <1>8. QED
    BY <1>3, <1>4, <1>5, <1>6, <1>7 DEF Spares

LEMMA PaceTracked ==
  ASSUME StateOK, Spares, Paces, disp.at # "pid", disp'.at # "pid", pid' = pid,
         \A m \in ModelSet \ {Claude}, r \in Rounds : proc'[m][r] = proc[m][r]
  PROVE  Tracked'
  <1>1. SUFFICES ASSUME NEW m \in ModelSet \ {Claude}, NEW r \in Rounds,
                        proc[m][r] # 0, sub'[m].id = r
                 PROVE  pid[m] = r
    BY DEF Spares, Tracked
  <1>2. Known(m, r)
    BY <1>1 DEF Spares, OwnEntry
  <1>3. sub[m].id = r
    BY <1>1, <1>2 DEF Paces, Known
  <1>4. QED
    BY <1>1, <1>3 DEF Spares, Tracked

(* A step about the model that the dispatch is at.                           *)
LEMMA PaceSpares ==
  ASSUME StateOK, AgentInv, Waits, Spares, disp.at \in Loop, Paces,
         disp'.at \in Loop \ {"sub"}, disp'.todo = disp.todo, disp'.e = round, base' = base,
         \A m \in ModelSet : sub'[m].id = sub[m].id \/ Unsaid(m)',
         \A m \in ModelSet : Unsaid(m) => Unsaid(m)',
         Tracked', \A f \in disp'.failed \ disp.failed : Left(f[1], f[2])'
  PROVE  Spares'
  <1>1. Next1' = Next1 /\ round' = round
    BY NextStays DEF Paces
  <1>2. RunsAnew'
    BY DEF Spares, RunsAnew, Unlaunched
  <1>3. LoopAnew'
    BY <1>1 DEF Spares, LoopAnew, Unlaunched
  <1>4. FailedLeft'
    <2>1. \A f \in disp.failed : f[1] \in ModelSet /\ f[2] \in Nat
      BY HeldOK DEF StateOK
    <2>2. \A f \in disp.failed : Left(f[1], f[2])'
      BY <2>1, PaceLeft DEF Spares, FailedLeft
    <2>3. QED
      BY <2>2 DEF FailedLeft
  <1>5. QED
    BY <1>2, <1>3, <1>4, LoopSpares

(* What the loop knows of the model it is at.                                *)
LEMMA AtEntry ==
  ASSUME StateOK, Waits, Spares, disp.at \in Loop
  PROVE  /\ Next1 \in disp.todo /\ Next1 \in ModelSet /\ disp \in Dispatching
         /\ round \in Rounds /\ round # 0 /\ sub \in [ModelSet -> SubEntry]
         /\ disp.at # "sub" => disp.e = round /\ sub[Next1].id = round
         /\ disp.at \in {"sub", "launch"} => Next1 \in Yet /\ proc[Next1][round] = 0
  <1>1. /\ Next1 \in disp.todo /\ Next1 \in ModelSet /\ disp \in Dispatching
        /\ round \in Rounds /\ round # 0 /\ sub \in [ModelSet -> SubEntry]
    BY AtModel, HeldOK, Numbers DEF StateOK, EntriesOK
  <1>2. disp.at # "sub" => disp.e = round /\ sub[Next1].id = round
    BY DEF Spares, LoopAnew, Waits, LoopOK
  <1>3. disp.at \in {"sub", "launch"} => Next1 \in Yet
    BY <1>1 DEF Yet
  <1>4. Next1 \in Yet => proc[Next1][round] = 0
    BY <1>1 DEF Spares, OwnEntry, Known
  <1>5. QED
    BY <1>1, <1>2, <1>3, <1>4

LEMMA MakeSubSpares ==
  ASSUME StateOK, AgentInv, Waits, Spares, MakeSub
  PROVE  Spares'
  <1>1. /\ disp.at = "sub" /\ disp.at \in Loop /\ ~Saving
        /\ UNCHANGED <<base, proc, pid, call, round>>
    BY DEF MakeSub, DispAt, Loop, Saving, procs, counters
  <1>2. /\ Next1 \in disp.todo /\ Next1 \in ModelSet /\ disp \in Dispatching /\ round # 0
        /\ sub \in [ModelSet -> SubEntry] /\ Next1 \in Yet
    BY <1>1, AtEntry
  <1>3. sub[Next1].id = 0
    <2>1. Unlaunched(base, Next1)
      BY <1>1, <1>2 DEF Spares, LoopAnew
    <2>2. QED
      BY <1>1, <1>2, <2>1 DEF Spares, RunsAnew, Unsaid
  <1>4. sub'[Next1].id = round /\ \A m \in ModelSet \ {Next1} : sub'[m] = sub[m]
    BY <1>2, <1>3 DEF MakeSub
  <1>5. /\ disp'.at = "read" /\ disp'.put = "launching" /\ disp'.e = round
        /\ disp'.todo = disp.todo /\ disp'.failed = disp.failed
    <2>1. disp' = [disp EXCEPT !.at = "read", !.e = sub'[Next1].id, !.put = "launching"]
      BY DEF MakeSub
    <2>2. QED
      BY <1>2, <1>4, <2>1 DEF Dispatching
  <1>6. Next1' = Next1
    BY <1>5, NextStays
  <1>7. Yet' = Yet
    BY <1>1, <1>5 DEF Yet, Saving, Loop
  <1>8. Paces
    BY <1>1, <1>2, <1>4, <1>7 DEF Paces
  <1>9. Tracked'
    BY <1>1, <1>5, <1>8, PaceTracked
  <1>10. \A m \in ModelSet : sub'[m].id = sub[m].id \/ Unsaid(m)'
    BY <1>4, <1>5, <1>6 DEF Unsaid, Saving
  <1>11. \A m \in ModelSet : ~Unsaid(m)
    BY <1>1 DEF Unsaid
  <1>12. QED
    BY <1>1, <1>5, <1>8, <1>9, <1>10, <1>11, PaceSpares DEF Loop

LEMMA ReadBaseSpares ==
  ASSUME StateOK, AgentInv, Waits, Spares, ReadBase
  PROVE  Spares'
  <1>1. /\ disp.at = "read" /\ disp.at \in Loop /\ UNCHANGED <<sub, base, proc, pid, call, round>>
    BY DEF ReadBase, DispAt, Loop, entries, procs, counters
  <1>2. disp \in Dispatching /\ disp.e = round
    BY <1>1, AtEntry
  <1>3. /\ disp'.at = "write" /\ disp'.put = disp.put /\ disp'.e = disp.e
        /\ disp'.todo = disp.todo /\ disp'.failed = disp.failed
    BY <1>2 DEF ReadBase, Dispatching
  <1>4. Next1' = Next1
    BY <1>3, NextStays
  <1>5. Saving /\ Saving' /\ disp'.at \in Loop
    BY <1>1, <1>3 DEF Saving, Loop
  <1>6. Yet' = Yet
    BY <1>1, <1>3, <1>4, <1>5 DEF Yet
  <1>7. Paces
    BY <1>1, <1>6 DEF Paces
  <1>8. Tracked'
    BY <1>1, <1>3, <1>7, PaceTracked
  <1>9. \A m \in ModelSet : Unsaid(m) => Unsaid(m)'
    BY <1>3, <1>4, <1>5 DEF Unsaid
  <1>10. QED
    BY <1>1, <1>2, <1>3, <1>5, <1>7, <1>8, <1>9, PaceSpares

(* The model is on record as launched, or as failed: it runs anew no more.   *)
LEMMA WriteBaseSpares ==
  ASSUME StateOK, AgentInv, Waits, Spares, WriteBase
  PROVE  Spares'
  <1>1. /\ disp.at = "write" /\ disp.at \in Loop /\ Saving
        /\ UNCHANGED <<sub, proc, pid, call, round>>
    BY DEF WriteBase, DispAt, Loop, Saving, procs, counters
  <1>2. /\ Next1 \in disp.todo /\ Next1 \in ModelSet /\ disp \in Dispatching /\ disp.e = round
        /\ disp.todo \subseteq ModelSet /\ disp.put \in Statuses /\ base \in BaseData
    BY <1>1, AtEntry, AtModel DEF StateOK, EntriesOK
  <1>3. disp.read = base /\ disp.put # "none" /\ base.status[Next1] \notin Terminal
    BY <1>1, <1>2 DEF Waits, LoopOK
  <1>4. base' = Merged(base, Next1, disp.put)
    BY <1>3 DEF WriteBase
  <1>5. /\ base'.status[Next1] = disp.put
        /\ \A m \in ModelSet \ {Next1} : base'.status[m] = base.status[m]
    BY <1>2, <1>3, <1>4, MergedIs
  <1>6. ~Unlaunched(base', Next1)
    BY <1>2, <1>3, <1>5 DEF Unlaunched, Dispatching
  <1>7. RunsAnew'
    <2>1. SUFFICES ASSUME NEW m \in ModelSet, Unlaunched(base', m) PROVE sub[m].id = 0
      BY <1>1 DEF RunsAnew, Unlaunched
    <2>2. m # Next1 /\ Unlaunched(base, m)
      BY <1>5, <1>6, <2>1 DEF Unlaunched
    <2>3. QED
      BY <2>2 DEF Spares, RunsAnew, Unsaid
  <1>8. \A m \in disp.todo \ {Next1} : Unlaunched(base', m)
    BY <1>1, <1>2, <1>5 DEF Spares, LoopAnew, Unlaunched
  <1>9. Yet' \subseteq Yet /\ LoopAnew' /\ disp'.failed = disp.failed /\ disp'.at # "pid"
    <2>1. CASE disp.put = "launching"
      <3>1. /\ disp'.at = "launch" /\ disp'.todo = disp.todo /\ disp'.e = disp.e
            /\ disp'.failed = disp.failed
        BY <1>2, <2>1 DEF WriteBase, Dispatching
      <3>2. Next1' = Next1
        BY <3>1, NextStays
      <3>3. Yet' = disp.todo /\ Yet = disp.todo
        BY <1>1, <2>1, <3>1 DEF Yet, Loop
      <3>4. LoopAnew'
        BY <1>1, <1>2, <1>8, <3>1, <3>2 DEF LoopAnew, Unlaunched
      <3>5. QED
        BY <3>1, <3>3, <3>4
    <2>2. CASE disp.put # "launching"
      <3>1. /\ disp'.at \in {"fails", "sub"} /\ disp'.todo = disp.todo \ {Next1}
            /\ disp'.failed = disp.failed
        BY <1>2, <2>2 DEF WriteBase, AfterModel, Dispatching
      <3>2. Yet = disp.todo \ {Next1}
        BY <1>1, <2>2 DEF Yet
      <3>3. Yet' \subseteq disp.todo \ {Next1}
        BY <3>1 DEF Yet, Loop
      <3>4. LoopAnew'
        BY <1>8, <3>1 DEF LoopAnew, Loop, Unlaunched
      <3>5. QED
        BY <3>1, <3>2, <3>3, <3>4
    <2>3. QED
      BY <2>1, <2>2
  <1>10. Paces
    BY <1>1, <1>9 DEF Paces
  <1>11. Tracked'
    BY <1>1, <1>9, <1>10, PaceTracked
  <1>12. FailedLeft'
    <2>1. \A f \in disp.failed : f[1] \in ModelSet /\ f[2] \in Nat
      BY HeldOK DEF StateOK
    <2>2. QED
      BY <1>9, <1>10, <2>1, PaceLeft DEF Spares, FailedLeft
  <1>13. QED
    BY <1>1, <1>7, <1>9, <1>10, <1>11, <1>12, LoopSpares

LEMMA LaunchClaudeSpares ==
  ASSUME StateOK, AgentInv, Waits, Spares, LaunchClaude
  PROVE  Spares'
  <1>1. /\ disp.at = "launch" /\ disp.at \in Loop /\ Next1 = Claude /\ ~Saving
        /\ UNCHANGED <<sub, base, pid, call, round>>
    BY DEF LaunchClaude, DispAt, Loop, Saving, entries, counters
  <1>2. /\ disp \in Dispatching /\ disp.e = round /\ Claude \in Yet
        /\ round \in Rounds /\ Claude \in ModelSet
    BY <1>1, AtEntry
  <1>3. /\ disp'.at = "mark" /\ disp'.e = disp.e
        /\ disp'.todo = disp.todo /\ disp'.failed = disp.failed
    BY <1>2 DEF LaunchClaude, Dispatching
  <1>4. Next1' = Next1
    BY <1>3, NextStays
  <1>5. Yet' = disp.todo \ {Next1} /\ Yet = disp.todo
    BY <1>1, <1>3, <1>4 DEF Yet, Saving, Loop
  <1>6. /\ proc'[Claude][round] = round
        /\ \A m \in ModelSet, r \in Rounds : m # Claude \/ r # round => proc'[m][r] = proc[m][r]
    <2>1. proc \in [ModelSet -> [Rounds -> Nat]]
      BY DEF StateOK, ProcsOK
    <2>2. proc' = [proc EXCEPT ![Claude] = [proc[Claude] EXCEPT ![round] = round]]
      BY <1>2 DEF LaunchClaude
    <2>3. QED
      BY <1>2, <2>1, <2>2
  <1>7. Paces
    BY <1>1, <1>2, <1>5, <1>6 DEF Paces
  <1>8. Tracked'
    BY <1>1, <1>6, <1>7, <1>3, PaceTracked
  <1>9. \A m \in ModelSet : ~Unsaid(m)
    BY <1>1 DEF Unsaid
  <1>10. QED
    BY <1>1, <1>2, <1>3, <1>7, <1>8, <1>9, PaceSpares DEF Loop

LEMMA LaunchSubprocessSpares ==
  ASSUME StateOK, AgentInv, Waits, Spares, LaunchSubprocess
  PROVE  Spares'
  <1>1. /\ disp.at = "launch" /\ disp.at \in Loop /\ Next1 # Claude /\ ~Saving
        /\ UNCHANGED <<base, pid, call, round>>
    BY DEF LaunchSubprocess, DispAt, Loop, Saving, counters
  <1>2. /\ disp \in Dispatching /\ disp.e = round /\ Next1 \in Yet /\ sub[Next1].id = round
        /\ round \in Rounds /\ Next1 \in ModelSet /\ sub \in [ModelSet -> SubEntry]
    BY <1>1, AtEntry
  <1>3. /\ disp'.at = "pid" /\ disp'.e = disp.e
        /\ disp'.todo = disp.todo /\ disp'.failed = disp.failed
    BY <1>2 DEF LaunchSubprocess, Dispatching
  <1>4. Next1' = Next1
    BY <1>3, NextStays
  <1>5. Yet' = disp.todo \ {Next1} /\ Yet = disp.todo
    BY <1>1, <1>3, <1>4 DEF Yet, Saving, Loop
  <1>6. /\ proc' = [proc EXCEPT ![Next1][round] = round]
        /\ sub' = [sub EXCEPT ![Next1].status = "active"]
    BY <1>2 DEF LaunchSubprocess, EntryLives
  <1>7. /\ proc'[Next1][round] = round
        /\ \A m \in ModelSet, r \in Rounds : m # Next1 \/ r # round => proc'[m][r] = proc[m][r]
    <2>1. proc \in [ModelSet -> [Rounds -> Nat]]
      BY DEF StateOK, ProcsOK
    <2>2. PICK n \in ModelSet : n = Next1
      BY <1>2
    <2>3. proc' = [proc EXCEPT ![n] = [proc[n] EXCEPT ![round] = round]]
      BY <1>6, <2>2
    <2>4. QED
      BY <1>2, <2>1, <2>2, <2>3
  <1>8. sub'[Next1].id = round /\ \A m \in ModelSet \ {Next1} : sub'[m] = sub[m]
    BY <1>2, <1>6 DEF SubEntry
  <1>9. Paces
    BY <1>1, <1>2, <1>5, <1>7, <1>8 DEF Paces
  <1>10. Tracked'
    <2>1. SUFFICES ASSUME NEW m \in ModelSet \ {Claude}, NEW r \in Rounds,
                          proc'[m][r] # 0, sub'[m].id = r, m # Next1 \/ r # round
                   PROVE  pid[m] = r
      BY <1>1, <1>3, <1>4 DEF Tracked, Spares
    <2>2. proc[m][r] # 0 /\ sub[m].id = r
      BY <1>2, <1>7, <1>8, <2>1
    <2>3. QED
      BY <1>1, <2>1, <2>2 DEF Spares, Tracked
  <1>11. \A m \in ModelSet : ~Unsaid(m) /\ sub'[m].id = sub[m].id
    BY <1>1, <1>2, <1>8 DEF Unsaid
  <1>12. QED
    BY <1>1, <1>2, <1>3, <1>9, <1>10, <1>11, PaceSpares DEF Loop

LEMMA RecordPidSpares ==
  ASSUME StateOK, AgentInv, Waits, Spares, RecordPid
  PROVE  Spares'
  <1>1. /\ disp.at = "pid" /\ disp.at \in Loop /\ ~Saving
        /\ UNCHANGED <<sub, base, proc, call, round>>
        /\ pid' = [pid EXCEPT ![Next1] = round]
    BY DEF RecordPid, DispAt, Loop, Saving, entries, counters
  <1>2. disp \in Dispatching /\ disp.e = round /\ Next1 \in ModelSet
    BY <1>1, AtEntry
  <1>3. /\ disp'.at = "mark" /\ disp'.e = disp.e
        /\ disp'.todo = disp.todo /\ disp'.failed = disp.failed
    BY <1>2 DEF RecordPid, Dispatching
  <1>4. Next1' = Next1
    BY <1>3, NextStays
  <1>5. Yet' = Yet
    BY <1>1, <1>3, <1>4 DEF Yet, Saving, Loop
  <1>6. Paces
    BY <1>1, <1>5 DEF Paces
  <1>7. Tracked'
    <2>1. pid \in [ModelSet -> {0} \cup Rounds] /\ Claude \in ModelSet /\ Next1 # Claude
      BY <1>1, Names DEF StateOK, ProcsOK, Spares, Tracked
    <2>2. pid'[Next1] = round /\ \A m \in ModelSet \ {Next1} : pid'[m] = pid[m]
      BY <1>1, <1>2, <2>1
    <2>3. pid'[Claude] = 0
      BY <2>1, <2>2 DEF Spares, Tracked
    <2>4. SUFFICES ASSUME NEW m \in ModelSet \ {Claude}, NEW r \in Rounds,
                          proc[m][r] # 0, sub[m].id = r
                   PROVE  pid'[m] = r
      BY <1>1, <1>3, <2>3 DEF Tracked
    <2>5. CASE m = Next1
      <3>1. r = round
        BY <1>1, <2>4, <2>5, AtEntry
      <3>2. QED
        BY <2>2, <2>5, <3>1
    <2>6. CASE m # Next1
      BY <2>2, <2>4, <2>6 DEF Spares, Tracked
    <2>7. QED
      BY <2>5, <2>6
  <1>8. \A m \in ModelSet : ~Unsaid(m)
    BY <1>1 DEF Unsaid
  <1>9. QED
    BY <1>1, <1>2, <1>3, <1>6, <1>7, <1>8, PaceSpares DEF Loop

LEMMA LaunchFailsSpares ==
  ASSUME StateOK, AgentInv, Waits, Spares, LaunchFails
  PROVE  Spares'
  <1>1. /\ disp.at = "launch" /\ disp.at \in Loop /\ ~Saving
        /\ UNCHANGED <<base, proc, pid, call, round>>
    BY DEF LaunchFails, DispAt, Loop, Saving, procs
  <1>2. /\ disp \in Dispatching /\ disp.e = round /\ sub[Next1].id = round
        /\ round \in Rounds /\ round # 0 /\ Next1 \in ModelSet /\ sub \in [ModelSet -> SubEntry]
        /\ proc[Next1][round] = 0
    BY <1>1, AtEntry
  <1>3. /\ disp'.at = "read" /\ disp'.put = "failed" /\ disp'.e = disp.e
        /\ disp'.todo = disp.todo /\ disp'.failed = disp.failed \cup {<<Next1, round>>}
    BY <1>2 DEF LaunchFails, Entry1, Dispatching
  <1>4. Next1' = Next1
    BY <1>3, NextStays
  <1>5. Yet' = disp.todo \ {Next1} /\ Yet = disp.todo
    BY <1>1, <1>3, <1>4 DEF Yet, Saving, Loop
  <1>6. sub' = [sub EXCEPT ![Next1].status = "failed"]
    BY <1>2 DEF LaunchFails, EntryLives
  <1>7. sub'[Next1].id = round /\ \A m \in ModelSet \ {Next1} : sub'[m] = sub[m]
    BY <1>2, <1>6 DEF SubEntry
  <1>8. Paces
    BY <1>1, <1>2, <1>5, <1>7 DEF Paces
  <1>9. Tracked'
    BY <1>1, <1>8, <1>3, PaceTracked
  <1>10. \A m \in ModelSet : ~Unsaid(m) /\ sub'[m].id = sub[m].id
    BY <1>1, <1>2, <1>7 DEF Unsaid
  <1>11. ASSUME NEW f \in disp'.failed \ disp.failed PROVE Left(f[1], f[2])'
    <2>1. f[1] = Next1 /\ f[2] = round
      BY <1>3, <1>11
    <2>2. round \in Nat
      BY RoundIs
    <2>3. QED
      BY <1>1, <1>2, <1>5, <2>1, <2>2 DEF Left, Known
  <1>12. QED
    BY <1>1, <1>2, <1>3, <1>8, <1>9, <1>10, <1>11, PaceSpares DEF Loop

LEMMA MarkActiveSpares ==
  ASSUME StateOK, AgentInv, Waits, Spares, MarkActive
  PROVE  Spares'
  <1>1. /\ disp.at = "mark" /\ disp.at \in Loop /\ ~Saving
        /\ UNCHANGED <<base, proc, pid, call, round>>
    BY DEF MarkActive, DispAt, Loop, Saving, procs, counters
  <1>2. /\ disp \in Dispatching /\ disp.e = round /\ sub[Next1].id = round
        /\ Next1 \in ModelSet /\ sub \in [ModelSet -> SubEntry]
    BY <1>1, AtEntry
  <1>3. /\ disp'.at = "read" /\ disp'.put = "active" /\ disp'.e = disp.e
        /\ disp'.todo = disp.todo /\ disp'.failed = disp.failed
    BY <1>2 DEF MarkActive, Dispatching
  <1>4. Next1' = Next1
    BY <1>3, NextStays
  <1>5. Yet' = Yet
    BY <1>1, <1>3, <1>4 DEF Yet, Saving, Loop
  <1>6. sub'[Next1].id = round /\ \A m \in ModelSet \ {Next1} : sub'[m] = sub[m]
    BY <1>2 DEF MarkActive, SubEntry
  <1>7. Paces
    BY <1>1, <1>2, <1>5, <1>6 DEF Paces
  <1>8. Tracked'
    BY <1>1, <1>7, <1>3, PaceTracked
  <1>9. \A m \in ModelSet : ~Unsaid(m) /\ sub'[m].id = sub[m].id
    BY <1>1, <1>2, <1>6 DEF Unsaid
  <1>10. QED
    BY <1>1, <1>2, <1>3, <1>7, <1>8, <1>9, PaceSpares DEF Loop

LEMMA DispatchSpares ==
  ASSUME StateOK, AgentInv, Waits, Spares, Dispatch
  PROVE  Spares'
  <1>1. CASE Execute \/ LaunchSynthTarget \/ EndDispatch \/ LastRun
    BY <1>1, OutsideDispatchSpares
  <1>2. CASE MakeSub \/ ReadBase \/ WriteBase
    BY <1>2, MakeSubSpares, ReadBaseSpares, WriteBaseSpares
  <1>3. CASE LaunchClaude \/ LaunchSubprocess \/ RecordPid
    BY <1>3, LaunchClaudeSpares, LaunchSubprocessSpares, RecordPidSpares
  <1>4. CASE LaunchFails \/ MarkActive \/ CompleteFailed
    BY <1>4, LaunchFailsSpares, MarkActiveSpares, CompleteFailedSpares
  <1>5. QED
    BY <1>1, <1>2, <1>3, <1>4 DEF Dispatch

(* What went wrong once is not forgotten.                                    *)
LEMMA HolesGrow ==
  ASSUME Next
  PROVE  holes \subseteq holes'
  <1>1. ASSUME NEW c \in Callers, CallStep(c) PROVE holes \subseteq holes'
    <2>1. CASE \/ Enqueue(c) \/ Pop(c) \/ DispatchRun(c) \/ DispatchRerun(c)
               \/ DispatchSynthesize(c) \/ LaunchSynthesis(c) \/ Trigger(c)
               \/ Publish(c) \/ HealMark(c)
      BY <2>1 DEF Enqueue, Pop, DispatchRun, DispatchRerun, DispatchSynthesize, LaunchSynthesis,
         Trigger, Publish, HealMark
    <2>2. CASE Drain(c) \/ SaveEntry(c) \/ Complete(c)
      BY <2>2 DEF Drain, SaveEntry, Complete
    <2>3. QED
      BY <1>1, <2>1, <2>2 DEF CallStep
  <1>2. ASSUME Dispatch PROVE holes \subseteq holes'
    BY <1>2 DEF Dispatch, Execute, LaunchSynthTarget, MakeSub, ReadBase, WriteBase, LaunchClaude,
       LaunchSubprocess, RecordPid, LaunchFails, MarkActive, CompleteFailed, EndDispatch, LastRun
  <1>3. ASSUME NEW m \in ModelSet, NEW r \in Rounds, ModelDies(m, r) PROVE holes \subseteq holes'
    BY <1>3 DEF ModelDies
  <1>4. ASSUME ListDue \/ SynthDies PROVE holes \subseteq holes'
    BY <1>4 DEF ListDue, SynthDies
  <1>5. ASSUME \/ \E item \in Items : Request(item)
               \/ HealAgent \/ Unpin \/ Reconcile
               \/ \E c \in Healers, m \in ModelSet : HealPid(c, m) \/ HealList(c, m)
        PROVE  holes \subseteq holes'
    BY <1>5 DEF Request, HealAgent, Unpin, Reconcile, HealPid, HealList
  <1>6. ASSUME \/ \E m \in ModelSet, r \in Rounds, ok \in BOOLEAN : SubprocessEnds(m, r, ok)
               \/ \E r \in Rounds, ok \in BOOLEAN : ClaudeEnds(r, ok)
               \/ \E ok \in BOOLEAN : SynthEnds(ok)
        PROVE  holes \subseteq holes'
    BY <1>6 DEF SubprocessEnds, ClaudeEnds, SynthEnds, AgentComplete
  <1>7. QED
    BY <1>1, <1>2, <1>3, <1>4, <1>5, <1>6, StepsOf

LEMMA NextSpares ==
  ASSUME ResearchInv, AgentInv, WaitInv, SpareInv, [Next]_vars
  PROVE  SpareInv'
  <1> SUFFICES ASSUME Calm' PROVE Spares'
    BY DEF SpareInv
  <1>1. StateOK
    BY DEF ResearchInv
  <1>2. CASE UNCHANGED vars
    <2>1. Spares
      BY <1>2, StaysCalm DEF SpareInv, vars
    <2>2. QED
      BY <1>1, <1>2, <2>1, IdleSpares DEF vars, entries, procs, counters
  <1>3. CASE Next
    <2> Waits /\ Spares
      BY <1>3, HolesGrow, StaysCalm DEF WaitInv, SpareInv
    <2>1. CASE \E c \in Callers : CallStep(c)
      BY <1>1, <2>1, CallStepSpares
    <2>2. CASE \E item \in Items : Request(item)
      BY <1>1, <2>2, RequestSpares
    <2>3. CASE ListDue
      BY <1>1, <2>3, OutsideDispatchSpares
    <2>4. CASE Dispatch
      BY <1>1, <2>4, DispatchSpares
    <2>5. CASE HealAgent
      BY <1>1, <2>5, HealAgentSpares
    <2>6. CASE \E c \in Healers, m \in ModelSet : HealPid(c, m) \/ HealList(c, m)
      BY <1>1, <2>6, HealPidSpares, HealListSpares
    <2>7. CASE Unpin \/ Reconcile
      BY <1>1, <2>7, CronSpares
    <2>8. CASE \E m \in ModelSet, r \in Rounds, ok \in BOOLEAN : SubprocessEnds(m, r, ok)
      BY <1>1, <2>8, SubprocessEndsSpares
    <2>9. CASE \E r \in Rounds, ok \in BOOLEAN : ClaudeEnds(r, ok)
      BY <1>1, <2>9, ClaudeEndsSpares
    <2>10. CASE \E ok \in BOOLEAN : SynthEnds(ok)
      BY <1>1, <2>10, SynthEndsSpares
    <2>11. CASE \E m \in ModelSet, r \in Rounds : ModelDies(m, r)
      BY <1>1, <2>11, ModelDiesSpares
    <2>12. CASE SynthDies
      BY <1>1, <2>12, IdleSpares DEF SynthDies, entries
    <2>13. QED
      BY <1>3, <2>1, <2>2, <2>3, <2>4, <2>5, <2>6, <2>7, <2>8, <2>9, <2>10, <2>11, <2>12,
         StepsOf
  <1>4. QED
    BY <1>2, <1>3

LEMMA InitSpares == Init => SpareInv
  <1> SUFFICES ASSUME Init PROVE Spares
    BY DEF SpareInv
  <1>1. \A c \in Callers : call[c] = NoCall /\ Step(c) = "none"
    BY NoCallOK DEF Init, Step, Free
  <1>2. NoCall.m = "none" /\ NoCall.todo = <<>> /\ "none" \notin ModelSet
    BY Names DEF NoCall
  <1>3. disp.at = "idle" /\ disp.failed = {}
    BY DEF Init, NoDispatch
  <1>4. \A m \in ModelSet : sub[m].id = 0 /\ ~Working(m)
    BY NoEntryOK DEF Init, Working, NoEntry
  <1>5. \A m \in ModelSet : pid[m] = 0 /\ \A r \in Rounds : proc[m][r] = 0
    BY DEF Init
  <1>6. RunsAnew /\ CopiesAnew /\ Named /\ LoopAnew
    BY <1>1, <1>3, <1>4 DEF RunsAnew, CopiesAnew, Named, LoopAnew, Loop
  <1>7. OwnEntry /\ Tracked /\ FailedLeft
    BY <1>3, <1>5, Names DEF OwnEntry, Tracked, FailedLeft
  <1>8. Tasks
    BY <1>1, <1>2 DEF Tasks, Task
  <1>9. SavesFirst
    BY <1>1, <1>2, Shorts, Names DEF SavesFirst
  <1>10. QED
    BY <1>6, <1>7, <1>8, <1>9 DEF Spares

(* An entry keeps its number until it is deleted.                            *)
LEMMA SubIds ==
  ASSUME StateOK, Next, NEW m \in ModelSet
  PROVE  sub[m].id = 0 \/ sub'[m].id \in {sub[m].id, 0}
  <1>1. sub \in [ModelSet -> SubEntry] /\ sub[m] \in SubEntry
    BY DEF StateOK, EntriesOK
  <1>2. \A n, st : sub' = [sub EXCEPT ![n].status = st] => sub'[m].id = sub[m].id
    <2>1. SUFFICES ASSUME NEW n, NEW st, sub' = [sub EXCEPT ![n].status = st]
                   PROVE  sub'[m].id = sub[m].id
      OBVIOUS
    <2>2. CASE n = m
      BY <1>1, <2>1, <2>2 DEF SubEntry
    <2>3. CASE n # m
      BY <1>1, <2>1, <2>3
    <2>4. QED
      BY <2>2, <2>3
  <1>3. ASSUME NEW c \in Callers, CallStep(c) PROVE sub'[m].id \in {sub[m].id, 0}
    <2>1. CASE SaveEntry(c)
      <3>1. sub' = sub \/ sub' = [sub EXCEPT ![call[c].m].status = call[c].as]
        BY <2>1 DEF SaveEntry
      <3>2. QED
        BY <1>2, <3>1
    <2>2. CASE DispatchRerun(c)
      <3>1. sub'[m] = NoEntry \/ sub'[m] = sub[m]
        BY <2>2 DEF DispatchRerun
      <3>2. QED
        BY <3>1 DEF NoEntry
    <2>3. CASE \/ Enqueue(c) \/ Drain(c) \/ Pop(c) \/ DispatchRun(c) \/ DispatchSynthesize(c)
               \/ LaunchSynthesis(c) \/ Complete(c) \/ Trigger(c) \/ Publish(c) \/ HealMark(c)
      BY <2>3 DEF Enqueue, Drain, Pop, DispatchRun, DispatchSynthesize, LaunchSynthesis,
         Complete, Trigger, Publish, HealMark, entries
    <2>4. QED
      BY <1>3, <2>1, <2>2, <2>3 DEF CallStep
  <1>4. ASSUME Dispatch PROVE sub[m].id = 0 \/ sub'[m].id = sub[m].id
    <2>1. CASE MakeSub
      <3>1. sub'[m] = sub[m] \/ sub'[m].id = IF sub[m].id = 0 THEN round ELSE sub[m].id
        BY <1>1, <2>1 DEF MakeSub
      <3>2. QED
        BY <3>1
    <2>2. CASE LaunchSubprocess \/ LaunchFails \/ MarkActive
      <3>1. sub' = sub \/ \E st : sub' = [sub EXCEPT ![Next1].status = st]
        BY <2>2 DEF LaunchSubprocess, LaunchFails, MarkActive
      <3>2. QED
        BY <1>2, <3>1
    <2>3. CASE \/ Execute \/ LaunchSynthTarget \/ ReadBase \/ WriteBase \/ LaunchClaude
               \/ RecordPid \/ CompleteFailed \/ EndDispatch \/ LastRun
      BY <2>3 DEF Execute, LaunchSynthTarget, ReadBase, WriteBase, LaunchClaude, RecordPid,
         CompleteFailed, EndDispatch, LastRun, entries
    <2>4. QED
      BY <1>4, <2>1, <2>2, <2>3 DEF Dispatch
  <1>5. ASSUME \/ \E item \in Items : Request(item)
               \/ ListDue \/ HealAgent \/ Unpin \/ Reconcile
               \/ \E c \in Healers, n \in ModelSet : HealPid(c, n) \/ HealList(c, n)
        PROVE  sub' = sub
    BY <1>5 DEF Request, ListDue, HealAgent, Unpin, Reconcile, HealPid, HealList, entries
  <1>6. ASSUME \/ \E n \in ModelSet, r \in Rounds, ok \in BOOLEAN : SubprocessEnds(n, r, ok)
               \/ \E r \in Rounds, ok \in BOOLEAN : ClaudeEnds(r, ok)
               \/ \E ok \in BOOLEAN : SynthEnds(ok)
               \/ \E n \in ModelSet, r \in Rounds : ModelDies(n, r)
               \/ SynthDies
        PROVE  sub' = sub
    BY <1>6 DEF SubprocessEnds, ClaudeEnds, SynthEnds, AgentComplete, ModelDies, SynthDies,
       entries
  <1>7. QED
    BY <1>3, <1>4, <1>5, <1>6, StepsOf

(* No process starts or ends in a step that gives a healer something to do,  *)
(* and what a healer comes to when it closes a gap is not the save.          *)
LEMMA HealersMove ==
  ASSUME StateOK, Next, SavesFirst, NEW c \in Healers, call'[c] # call[c]
  PROVE  proc' = proc /\ (holes' = holes \/ Step(c)' # "save")
  <1>1. c \in Callers
    BY Names
  <1>2. \A d, x : call' = [call EXCEPT ![d] = x] => d = c
    BY DEF StateOK, CallsOK
  <1>3. ASSUME NEW d \in Callers, CallStep(d)
        PROVE  proc' = proc /\ (holes' = holes \/ Step(c)' # "save")
    <2>1. CASE \/ Enqueue(d) \/ Pop(d) \/ DispatchRun(d) \/ DispatchRerun(d)
               \/ DispatchSynthesize(d) \/ LaunchSynthesis(d) \/ Trigger(d)
               \/ Publish(d) \/ HealMark(d)
      BY <2>1 DEF Enqueue, Pop, DispatchRun, DispatchRerun, DispatchSynthesize,
         LaunchSynthesis, Trigger, Publish, HealMark, procs
    <2>2. CASE Drain(d) \/ SaveEntry(d) \/ Complete(d)
      <3>1. /\ proc' = proc /\ ~Free(d)
            /\ \E step \in {"pop", "trigger"} : Do(d, <<>>, Kept(d)) \/ (Do(d, <<step>>, Kept(d)) /\ Step(d) # "save")
        BY <2>2, AtStep DEF Drain, SaveEntry, Complete, Done, procs, Steps
      <3>2. d = c
        BY <1>2, <3>1 DEF Do
      <3>3. FirstOnly(call[d].todo)
        BY <3>2 DEF SavesFirst
      <3>4. /\ Kept(d) \in CallRecord
            /\ Kept(d).m \notin ModelSet \/ (Kept(d).m = call[d].m /\ Kept(d).e = call[d].e)
        BY <3>1, KeptOK, KeptTask DEF StateOK, Free
      <3>5. CASE Do(d, <<>>, Kept(d))
        <4> DEFINE more == <<>>
        <4>1. Agenda(more) /\ FirstOnly(more) /\ Do(d, more, Kept(d))
          BY <3>5, Agendas, Shorts
        <4> HIDE DEF more
        <4>2. more = <<>>
          BY DEF more
        <4>3. Step(d)' # "save"
          BY <3>1, <3>3, <3>4, <4>1, <4>2, DoTask
        <4>4. QED
          BY <3>1, <3>2, <4>3
      <3>6. ASSUME NEW step \in {"pop", "trigger"}, Do(d, <<step>>, Kept(d)), Step(d) # "save"
            PROVE  Step(d)' # "save"
        <4> DEFINE more == <<step>>
        <4>1. Agenda(more) /\ more # <<>> /\ Head(more) = step /\ Do(d, more, Kept(d))
          BY <3>6, Agendas DEF Steps
        <4> HIDE DEF more
        <4>2. Step(d)' = step
          BY <3>1, <3>4, <3>6, <4>1, DoTask
        <4>3. QED
          BY <4>2
      <3>7. QED
        BY <3>1, <3>2, <3>5, <3>6
    <2>3. QED
      BY <1>3, <2>1, <2>2 DEF CallStep
  <1>4. ASSUME Dispatch PROVE proc' = proc /\ holes' = holes
    <2>1. CompleteFailed
      BY <1>4 DEF Dispatch, Execute, LaunchSynthTarget, MakeSub, ReadBase, WriteBase,
         LaunchClaude, LaunchSubprocess, RecordPid, LaunchFails, MarkActive, EndDispatch, LastRun
    <2>2. QED
      BY <2>1 DEF CompleteFailed, procs
  <1>5. ASSUME \/ \E item \in Items : Request(item)
               \/ HealAgent \/ Unpin \/ Reconcile
               \/ \E d \in Healers, n \in ModelSet : HealPid(d, n) \/ HealList(d, n)
        PROVE  proc' = proc /\ holes' = holes
    BY <1>5 DEF Request, HealAgent, Unpin, Reconcile, HealPid, HealList, procs
  <1>6. ~ListDue /\ ~SynthDies
    BY DEF ListDue, SynthDies
  <1>7. ASSUME NEW n \in ModelSet, NEW r \in Rounds, ModelDies(n, r) PROVE FALSE
    BY <1>2, <1>7, NoHealers DEF ModelDies
  <1>8. ASSUME NEW n \in ModelSet, NEW r \in Rounds, NEW ok \in BOOLEAN,
               SubprocessEnds(n, r, ok)
        PROVE  FALSE
    BY <1>2, <1>8, NoHealers DEF SubprocessEnds, Start
  <1>9. ASSUME NEW r \in Rounds, NEW ok \in BOOLEAN, ClaudeEnds(r, ok) PROVE FALSE
    BY <1>2, <1>9, NoHealers, Names DEF ClaudeEnds, AgentComplete, Start
  <1>10. ASSUME NEW ok \in BOOLEAN, SynthEnds(ok) PROVE FALSE
    BY <1>2, <1>10, NoHealers DEF SynthEnds, AgentComplete, Start
  <1>11. QED
    BY <1>3, <1>4, <1>5, <1>6, <1>7, <1>8, <1>9, <1>10, StepsOf

(* What a healer is about to save has no process that writes it.             *)
LEMMA SparesLiving ==
  ASSUME ResearchInv, AgentInv, WaitInv, SpareInv, Next, Calm,
         NEW c \in Healers, NEW m \in ModelSet, ~Marks(c, m), Marks(c, m)', sub[m].id # 0,
         NEW r \in Rounds
  PROVE  proc[m][r] # sub[m].id
  <1>1. SUFFICES ASSUME proc[m][r] = sub[m].id PROVE FALSE
    OBVIOUS
  <1>2. StateOK /\ Spares /\ c \in Callers
    BY Names DEF ResearchInv, SpareInv
  <1>3. proc[m][r] = r /\ sub[m].id = r
    BY <1>1, <1>2 DEF Spares, OwnEntry
  <1>4. call'[c].m = m /\ call'[c].e = sub'[m].id /\ Step(c)' = "save"
    BY DEF Marks, At, Step, Free
  <1>5. sub'[m].id \in {sub[m].id, 0}
    BY <1>2, SubIds
  <1>6. CASE call'[c] = call[c]
    <2>1. call[c].m = m /\ Step(c) = "save" /\ Step(c) # "healmark"
      BY <1>4, <1>6 DEF Step, Free
    <2>2. Known(m, call[c].e)
      BY <1>2, <2>1 DEF Spares, Tasks, Task
    <2>3. call[c].e = sub[m].id
      BY <1>4, <1>5, <1>6, <2>2 DEF Known
    <2>4. QED
      BY <2>1, <2>3 DEF Marks, At, Step, Free
  <1>7. CASE call'[c] # call[c]
    <2>1. proc' = proc /\ holes' = holes
      BY <1>2, <1>4, <1>7, HealersMove DEF Spares
    <2>2. Spares'
      BY <2>1, NextSpares DEF SpareInv, Calm
    <2>3. Left(m, call[c].e)'
      BY <1>2, <1>4, <2>2 DEF Spares, Tasks, Task, Left, Known
    <2>4. call'[c].e # 0 /\ (sub'[m].id = call'[c].e => proc'[m][call'[c].e] = 0)
      BY <2>3 DEF Left, Known
    <2>5. QED
      BY <1>1, <1>3, <1>4, <1>5, <2>1, <2>4
  <1>8. QED
    BY <1>6, <1>7

(* The healers of the web and of the action agent fail no entry that a live  *)
(* process writes, although they look at a list they made before and at pid   *)
(* rows that a launch and every completion change under them: for any models, *)
(* requests, faults and races, unless a drain or a completion has crossed a   *)
(* dispatch, two threads have taken up the queue at once, or a model has      *)
(* completed whose entry a rerun had deleted.                                *)
THEOREM ResearchLiveSpared == Spec => LiveSpared
  <1>1. Init => ResearchInv /\ AgentInv /\ WaitInv /\ SpareInv
    BY InitTypes, InitAgent, InitWaits, InitSpares
  <1>2. ResearchInv /\ AgentInv /\ WaitInv /\ SpareInv /\ [Next]_vars
          => (ResearchInv /\ AgentInv /\ WaitInv /\ SpareInv)'
    BY NextTypes, NextAgent, NextWaits, NextSpares
  <1>3. ResearchInv /\ AgentInv /\ WaitInv /\ SpareInv /\ [Next]_vars
          => [\A c \in Healers, m \in ModelSet :
                ~Marks(c, m) /\ Marks(c, m)' /\ sub[m].id # 0
                  => \/ \A r \in Rounds : proc[m][r] # sub[m].id
                     \/ holes \cap {"crossed", "stale", "overlap"} # {}]_vars
    BY SparesLiving DEF Calm
  <1>4. QED
    BY <1>1, <1>2, <1>3, PTL DEF Spec, LiveSpared

=============================================================================
