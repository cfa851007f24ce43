----------------------------- MODULE CommsProofs -----------------------------
(* Proofs about Comms: its types, that copies are kept and handed over once, *)
(* and that live sessions have numbers of their own, for any finite set of   *)
(* sessions, any bridges and messages, and any number of faults.             *)
EXTENDS Comms, FiniteSetTheorems, WellFoundedInduction, TLAPS

(* The inductive invariant.  A number is asked for under a list of the       *)
(* peers' that does not hold it; a bridge that holds a message holds one of  *)
(* Messages; a message that was sent has a recipient.                        *)
SessionRecord == [name : Names, known : BOOLEAN, off : BOOLEAN, fresh : BOOLEAN]
LetterRecord ==
    [at : {"unsent", "resolved", "sent"}, target : Sessions \cup {None, Group},
     to : Sessions \cup {None, Group}, copies : Nat]
BridgeRecord ==
    [at : {"off", "naming", "writing", "registered", "beating", "beaten", "waiting",
           "claiming", "sending", "recording"},
     for : Sessions \cup {None}, name : Names, taken : SUBSET Names,
     todo : SUBSET Messages, x : Messages \cup {None}, report : {"uncertain", "accepted"}]

GoodLetter(m) ==
    /\ m \in LetterRecord
    /\ m.at # "unsent" => m.target \in Sessions \cup {Group} /\ m.to \in Sessions \cup {Group}
Handing(r) == r.at \in {"sending", "recording"}
GoodBridge(r) ==
    /\ r \in BridgeRecord
    /\ r.for \in IF r.at = "off" THEN {None} ELSE Sessions
    /\ Handing(r) => r.x \in Messages
    /\ IF r.at = "writing" THEN r.name \notin r.taken ELSE r.taken = {}

SessionsOK ==
    /\ session \in [Sessions -> SessionRecord]
    /\ late \subseteq Messages \X Sessions
    /\ mishaps \in 0..MaxFaults
    /\ clash \subseteq Sessions
MailOK ==
    /\ row \in [Messages -> [Sessions -> RowStates]]
    /\ handed \in [Messages -> [Sessions -> {0, 1}]]
LettersOK ==
    /\ letter \in [Messages -> LetterRecord]
    /\ \A x \in Messages : GoodLetter(letter[x])
BridgesOK ==
    /\ bridge \in [Bridges -> BridgeRecord]
    /\ \A b \in Bridges : GoodBridge(bridge[b])

CopiesOK == \A x \in Messages : Cardinality(Holders(x)) = letter[x].copies

(* A row that was not claimed was not handed over and no bridge has it; one  *)
(* bridge has what was claimed, and has not handed it over while "sending".  *)
UnclaimedOK ==
    \A x \in Messages, s \in Sessions :
        row[x][s] \in {"none", "pending"} => handed[x][s] = 0
Has(r, x, s) == Handing(r) /\ r.x = x /\ r.for = s
HandedOK ==
    \A b \in Bridges, x \in Messages, s \in Sessions :
        Has(bridge[b], x, s) =>
            /\ row[x][s] \notin {"none", "pending"}
            /\ bridge[b].at = "sending" => handed[x][s] = 0
            /\ \A c \in Bridges : Has(bridge[c], x, s) => c = b

CommsInv ==
    /\ SessionsOK /\ MailOK /\ LettersOK /\ BridgesOK
    /\ CopiesOK /\ UnclaimedOK /\ HandedOK
    /\ NumbersDistinct

LEMMA InvTypes == CommsInv => TypeOK
  <1> SUFFICES ASSUME CommsInv PROVE TypeOK
    OBVIOUS
  <1>1. SessionsOK /\ MailOK /\ LettersOK /\ BridgesOK /\ CopiesOK
    BY DEF CommsInv
  <1>2. \A x \in Messages : letter[x].copies \in 0..Cardinality(Sessions)
    <2> TAKE x \in Messages
    <2>1. Holders(x) \in SUBSET Sessions
      BY DEF Holders
    <2>2. /\ Cardinality(Holders(x)) <= Cardinality(Sessions)
          /\ Cardinality(Sessions) \in Nat /\ Cardinality(Holders(x)) \in Nat
      BY <2>1, FS_Subset, FS_CardinalityType, CommsAssumption DEF CommsAssumption
    <2>3. QED
      BY <1>1, <2>2 DEF CopiesOK
  <1>3. \A x \in Messages : /\ letter[x].at \in {"unsent", "resolved", "sent"}
                            /\ letter[x].to \in Sessions \cup {None, Group}
    BY <1>1 DEF LettersOK, LetterRecord
  <1>4. handed \in [Messages -> [Sessions -> 0..(MaxFaults + 2)]]
    <2>1. {0, 1} \subseteq 0..(MaxFaults + 2)
      BY CommsAssumption DEF CommsAssumption
    <2>2. handed \in [Messages -> [Sessions -> {0, 1}]]
      BY <1>1 DEF MailOK
    <2>3. QED
      BY <2>1, <2>2
  <1>5. \A b \in Bridges :
          /\ bridge[b].at \in {"off", "naming", "writing", "registered", "beating",
                               "beaten", "waiting", "claiming", "sending", "recording"}
          /\ bridge[b].for \in IF bridge[b].at = "off" THEN {None} ELSE Sessions
          /\ bridge[b].todo \subseteq Messages
    BY <1>1 DEF BridgesOK, GoodBridge, BridgeRecord
  <1>6. /\ session \in [Sessions -> [name : Names, known : BOOLEAN, off : BOOLEAN,
                                     fresh : BOOLEAN]]
        /\ row \in [Messages -> [Sessions -> RowStates]]
        /\ late \subseteq Messages \X Sessions
        /\ mishaps \in 0..MaxFaults
    BY <1>1 DEF SessionsOK, SessionRecord, MailOK
  <1>7. QED
    BY <1>2, <1>3, <1>4, <1>5, <1>6 DEF TypeOK

LEMMA InvCopies == CommsInv => CopiesKept
  <1> SUFFICES ASSUME CommsInv, NEW x \in Messages
               PROVE  /\ Cardinality(Holders(x)) = letter[x].copies
                      /\ \A s \in Sessions :
                            handed[x][s] <= IF s \in Holders(x) THEN 1 ELSE 0
    BY DEF CopiesKept
  <1>1. MailOK /\ CopiesOK /\ UnclaimedOK
    BY DEF CommsInv
  <1>2. \A s \in Sessions : handed[x][s] \in {0, 1} /\ (s \notin Holders(x) => handed[x][s] = 0)
    BY <1>1 DEF MailOK, UnclaimedOK, Holders
  <1>3. QED
    BY <1>1, <1>2 DEF CopiesOK

-----------------------------------------------------------------------------
(* A number that no live peer uses is found: there are as many as sessions,  *)
(* and a session is no peer of itself.                                       *)
LEMMA NatMinimum ==
  ASSUME NEW S \in SUBSET Nat, S # {}
  PROVE  Min(S) \in S
  <1>1. IsWellFoundedOn(OpToRel(<, Nat), Nat)
    BY NatLessThanWellFounded
  <1>2. \E x \in S : \A y \in S : ~ (<<y, x>> \in OpToRel(<, Nat))
    BY <1>1, WFMin
  <1>3. \A x, y \in Nat : <<y, x>> \in OpToRel(<, Nat) <=> y < x
    BY DEF OpToRel
  <1>4. \E x \in S : \A y \in S : x =< y
    <2>1. PICK x \in S : \A y \in S : ~ (<<y, x>> \in OpToRel(<, Nat))
      BY <1>2
    <2>2. \A y \in S : ~ (y < x)
      BY <1>3, <2>1
    <2>3. QED
      BY <2>2
  <1>5. QED
    BY <1>4 DEF Min

LEMMA LowestIsFree ==
  ASSUME SessionsOK, NEW s \in Sessions
  PROVE  Taken(s) \subseteq Names /\ Lowest(s) \in Names /\ Lowest(s) \notin Taken(s)
  <1> DEFINE N == Cardinality(Sessions)
             Live == {u \in Sessions \ {s} : Online(u)}
             Free == {n \in Names \ {0} : n \notin Taken(s)}
  <1>1. Taken(s) \subseteq Names
    BY DEF SessionsOK, SessionRecord, Taken
  <1>2. N \in Nat
    BY FS_CardinalityType, CommsAssumption DEF CommsAssumption
  <1>3. IsFiniteSet(Live) /\ Cardinality(Live) <= N - 1 /\ Cardinality(Live) \in Nat
    <2>1. IsFiniteSet(Sessions \ {s}) /\ Cardinality(Sessions \ {s}) = N - 1
      BY FS_RemoveElement, CommsAssumption DEF CommsAssumption
    <2>2. Live \in SUBSET (Sessions \ {s})
      OBVIOUS
    <2>3. QED
      BY <2>1, <2>2, FS_Subset, FS_CardinalityType
  <1>4. IsFiniteSet(Taken(s)) /\ Cardinality(Taken(s)) <= Cardinality(Live)
    <2> DEFINE f == [t \in Live |-> session[t].name]
    <2>1. f \in Surjection(Live, Taken(s))
      BY DEF Taken, Surjection
    <2>2. QED
      BY <1>3, <2>1, FS_Surjection
  <1>5. Names \ {0} = 1..N
    BY <1>2 DEF Names
  <1>6. Free # {}
    <2> SUFFICES ASSUME Free = {} PROVE FALSE
      OBVIOUS
    <2>1. 1..N \in SUBSET Taken(s)
      BY <1>5
    <2>2. Cardinality(1..N) <= Cardinality(Taken(s)) /\ Cardinality(1..N) \in Nat
      BY <2>1, <1>4, FS_Subset, FS_CardinalityType
    <2>3. Cardinality(1..N) = N
      BY <1>2, FS_Interval
    <2>4. Cardinality(Taken(s)) \in Nat
      BY <1>4, FS_CardinalityType
    <2> HIDE DEF N, Live
    <2>5. QED
      BY <1>2, <1>3, <1>4, <2>2, <2>3, <2>4
  <1>7. Free \in SUBSET Nat
    BY <1>2 DEF Names
  <1>8. Min(Free) \in Free
    BY <1>6, <1>7, NatMinimum
  <1>9. Lowest(s) \in Free
    BY <1>8 DEF Lowest
  <1>10. QED
    BY <1>1, <1>9

-----------------------------------------------------------------------------
(* What a step that claims and hands over nothing keeps.                     *)

ClaimsStay ==
    \A x \in Messages, s \in Sessions :
        row'[x][s] \in {"none", "pending"} => row[x][s] \in {"none", "pending"}
CopiesStay ==
    \A x \in Messages :
        /\ letter'[x].copies = letter[x].copies
        /\ \A s \in Sessions : row'[x][s] = "none" <=> row[x][s] = "none"
NothingTaken == \A c \in Bridges : bridge'[c] = bridge[c] \/ ~Handing(bridge'[c])
NobodyNew ==
    /\ clash \subseteq clash'
    /\ \A s \in Sessions : Online(s)' => Online(s) /\ session'[s].name = session[s].name

LEMMA ClaimsKept ==
  ASSUME UnclaimedOK, HandedOK, handed' = handed, ClaimsStay, NothingTaken
  PROVE  UnclaimedOK' /\ HandedOK'
  <1>1. UnclaimedOK'
    BY DEF UnclaimedOK, ClaimsStay
  <1>2. ASSUME NEW b \in Bridges, NEW x \in Messages, NEW s \in Sessions,
               Has(bridge'[b], x, s)
        PROVE  /\ row'[x][s] \notin {"none", "pending"}
               /\ bridge'[b].at = "sending" => handed'[x][s] = 0
               /\ \A c \in Bridges : Has(bridge'[c], x, s) => c = b
    <2>1. bridge'[b] = bridge[b]
      BY <1>2 DEF NothingTaken, Has
    <2>2. \A c \in Bridges : Has(bridge'[c], x, s) => Has(bridge[c], x, s)
      BY DEF NothingTaken, Has
    <2>3. QED
      BY <1>2, <2>1, <2>2 DEF HandedOK, ClaimsStay
  <1>3. HandedOK'
    BY <1>2 DEF HandedOK
  <1>4. QED
    BY <1>1, <1>3

LEMMA CopiesStayed == CopiesOK /\ CopiesStay => CopiesOK'
  <1> SUFFICES ASSUME CopiesOK, CopiesStay, NEW x \in Messages
               PROVE  Cardinality(Holders(x)') = letter'[x].copies
    BY DEF CopiesOK
  <1>1. Holders(x)' = Holders(x)
    BY DEF Holders, CopiesStay
  <1>2. QED
    BY <1>1 DEF CopiesOK, CopiesStay

LEMMA NumbersStayed == NumbersDistinct /\ NobodyNew => NumbersDistinct'
  BY DEF NumbersDistinct, NobodyNew

LEMMA Combine ==
  ASSUME CommsInv, SessionsOK', LettersOK', BridgesOK',
         row' \in [Messages -> [Sessions -> RowStates]], handed' = handed,
         ClaimsStay, CopiesStay, NothingTaken, NumbersDistinct'
  PROVE  CommsInv'
  <1>1. MailOK'
    BY DEF CommsInv, MailOK
  <1>2. UnclaimedOK' /\ HandedOK'
    BY ClaimsKept DEF CommsInv
  <1>3. CopiesOK'
    BY CopiesStayed DEF CommsInv
  <1>4. QED
    BY <1>1, <1>2, <1>3 DEF CommsInv

(* One bridge changed, one session seen.                                     *)
LEMMA BridgeSet ==
  ASSUME BridgesOK, NEW b \in Bridges, NEW r, GoodBridge(r),
         bridge' = [bridge EXCEPT ![b] = r]
  PROVE  BridgesOK' /\ (~Handing(r) => NothingTaken)
  <1>1. r \in BridgeRecord
    BY DEF GoodBridge
  <1>2. \A c \in Bridges : bridge'[c] = IF c = b THEN r ELSE bridge[c]
    BY DEF BridgesOK
  <1>3. bridge' \in [Bridges -> BridgeRecord]
    BY <1>1 DEF BridgesOK
  <1>4. QED
    BY <1>2, <1>3 DEF BridgesOK, NothingTaken

LEMMA StartBridges ==
  /\ GoodBridge(OffBridge) /\ ~Handing(OffBridge)
  /\ \A s \in Sessions : GoodBridge(Restarted(s)) /\ ~Handing(Restarted(s))
  /\ \A s \in Sessions : LET r == [OffBridge EXCEPT !.at = "registered", !.for = s]
                         IN  GoodBridge(r) /\ ~Handing(r)
  <1>1. 0 \in Names
    BY FS_CardinalityType, CommsAssumption DEF CommsAssumption, Names
  <1>2. OffBridge \in BridgeRecord
    BY <1>1 DEF OffBridge, BridgeRecord
  <1>3. GoodBridge(OffBridge) /\ ~Handing(OffBridge)
    BY <1>2 DEF OffBridge, GoodBridge, Handing
  <1>4. ASSUME NEW s \in Sessions
        PROVE  GoodBridge(Restarted(s)) /\ ~Handing(Restarted(s))
    <2>1. Restarted(s) \in BridgeRecord
      BY <1>2 DEF Restarted, OffBridge, BridgeRecord
    <2>2. QED
      BY <2>1 DEF Restarted, OffBridge, GoodBridge, Handing
  <1>5. ASSUME NEW s \in Sessions
        PROVE  LET r == [OffBridge EXCEPT !.at = "registered", !.for = s]
               IN  GoodBridge(r) /\ ~Handing(r)
    <2> DEFINE r == [OffBridge EXCEPT !.at = "registered", !.for = s]
    <2>1. r \in BridgeRecord
      BY <1>2 DEF OffBridge, BridgeRecord
    <2>2. QED
      BY <2>1 DEF OffBridge, GoodBridge, Handing
  <1>6. QED
    BY <1>3, <1>4, <1>5

LEMMA SeenTypes ==
  ASSUME SessionsOK, NEW s \in Sessions, NEW changed \in SessionRecord, Seen(s, changed)
  PROVE  /\ session' \in [Sessions -> SessionRecord]
         /\ late' \subseteq Messages \X Sessions
         /\ session'[s] = changed
         /\ \A t \in Sessions \ {s} : session'[t] = session[t]
  BY DEF SessionsOK, Seen

(* A session that says goodbye is not live.                                  *)
LEMMA GoodbyeTypes ==
  ASSUME SessionsOK, NEW s \in Sessions, SaysOffline(s), mishaps' \in 0..MaxFaults,
         clash' = clash
  PROVE  SessionsOK' /\ NobodyNew
  <1>1. CASE UNCHANGED <<session, late>>
    BY <1>1 DEF SessionsOK, NobodyNew, Online
  <1>2. CASE Offline(s)
    <2> DEFINE r == [session[s] EXCEPT !.off = TRUE, !.fresh = TRUE]
    <2>1. session[s] \in SessionRecord
      BY DEF SessionsOK
    <2>2. r \in SessionRecord /\ r.off = TRUE
      BY <2>1 DEF SessionRecord
    <2>3. Seen(s, r)
      BY <1>2 DEF Offline
    <2> HIDE DEF r
    <2>4. /\ session' \in [Sessions -> SessionRecord]
          /\ late' \subseteq Messages \X Sessions
          /\ session'[s] = r
          /\ \A t \in Sessions \ {s} : session'[t] = session[t]
      BY <2>2, <2>3, SeenTypes
    <2>5. SessionsOK'
      BY <2>4 DEF SessionsOK
    <2>6. NobodyNew
      BY <2>2, <2>4 DEF NobodyNew, Online
    <2>7. QED
      BY <2>5, <2>6
  <1>3. QED
    BY <1>1, <1>2 DEF SaysOffline

LEMMA MishapType == ASSUME SessionsOK, Mishap \/ UNCHANGED mishaps
                    PROVE  mishaps' \in 0..MaxFaults
  BY CommsAssumption DEF SessionsOK, Mishap, CommsAssumption

LEMMA Unmoved ==
  /\ CommsInv /\ row' = row => row' \in [Messages -> [Sessions -> RowStates]] /\ ClaimsStay
  /\ CommsInv /\ row' = row /\ letter' = letter => CopiesStay
  /\ CommsInv /\ letter' = letter => LettersOK'
  /\ CommsInv /\ bridge' = bridge => BridgesOK' /\ NothingTaken
  /\ CommsInv /\ UNCHANGED <<session, late, clash>> /\ mishaps' \in 0..MaxFaults
        => SessionsOK' /\ NobodyNew /\ NumbersDistinct'
  <1>1. CommsInv /\ row' = row => row' \in [Messages -> [Sessions -> RowStates]] /\ ClaimsStay
    BY DEF CommsInv, MailOK, ClaimsStay
  <1>2. CommsInv /\ row' = row /\ letter' = letter => CopiesStay
    BY DEF CopiesStay
  <1>3. CommsInv /\ letter' = letter => LettersOK'
    BY DEF CommsInv, LettersOK
  <1>4. CommsInv /\ bridge' = bridge => BridgesOK' /\ NothingTaken
    BY DEF CommsInv, BridgesOK, NothingTaken
  <1>5. CommsInv /\ UNCHANGED <<session, late, clash>> /\ mishaps' \in 0..MaxFaults
           => SessionsOK' /\ NobodyNew /\ NumbersDistinct'
    BY NumbersStayed DEF CommsInv, SessionsOK, NobodyNew, Online
  <1>6. QED
    BY <1>1, <1>2, <1>3, <1>4, <1>5

-----------------------------------------------------------------------------
(* Every action keeps the invariant.                                         *)

LEMMA LaunchInv == ASSUME CommsInv, NEW b \in Bridges, NEW s \in Sessions, Launch(b, s)
                   PROVE  CommsInv'
  <1> DEFINE r == [bridge[b] EXCEPT !.at = "naming", !.for = s]
  <1>1. /\ SessionsOK /\ BridgesOK
        /\ row' = row /\ letter' = letter /\ handed' = handed
        /\ UNCHANGED <<session, late, clash>> /\ mishaps' = mishaps
    BY DEF CommsInv, Launch
  <1>2. GoodBridge(bridge[b]) /\ bridge[b].at = "off"
    BY <1>1 DEF BridgesOK, Launch
  <1>3. r \in BridgeRecord /\ r.at = "naming" /\ r.for = s /\ r.taken = bridge[b].taken
    BY <1>2 DEF GoodBridge, BridgeRecord
  <1>4. bridge' = [bridge EXCEPT ![b] = r]
    BY DEF Launch
  <1> HIDE DEF r
  <1>5. GoodBridge(r) /\ ~Handing(r)
    BY <1>2, <1>3 DEF GoodBridge, Handing
  <1>6. BridgesOK' /\ NothingTaken
    BY <1>1, <1>4, <1>5, BridgeSet
  <1>7. QED
    BY <1>1, <1>6, Unmoved, MishapType, Combine

LEMMA ReadNumberInv == ASSUME CommsInv, NEW b \in Bridges, ReadNumber(b) PROVE CommsInv'
  <1> DEFINE s == bridge[b].for
             q == [bridge[b] EXCEPT !.at = "writing", !.name = session[s].name]
             r == [bridge[b] EXCEPT !.at = "writing", !.name = Lowest(s), !.taken = Taken(s)]
  <1>1. /\ SessionsOK /\ BridgesOK
        /\ row' = row /\ letter' = letter /\ handed' = handed
        /\ UNCHANGED <<session, late, clash>> /\ mishaps' = mishaps
    BY DEF CommsInv, ReadNumber
  <1>2. GoodBridge(bridge[b]) /\ bridge[b].at = "naming"
    BY <1>1 DEF BridgesOK, ReadNumber
  <1>3. s \in Sessions /\ bridge[b].taken = {} /\ bridge[b] \in BridgeRecord
    BY <1>2 DEF GoodBridge
  <1>4. session[s].name \in Names
    BY <1>1, <1>3 DEF SessionsOK, SessionRecord
  <1>5. Taken(s) \subseteq Names /\ Lowest(s) \in Names /\ Lowest(s) \notin Taken(s)
    BY <1>1, <1>3, LowestIsFree
  <1>6. /\ q \in BridgeRecord /\ q.at = "writing" /\ q.taken = {}
        /\ q.for = bridge[b].for
    BY <1>3, <1>4 DEF BridgeRecord
  <1>7. /\ r \in BridgeRecord /\ r.at = "writing" /\ r.taken = Taken(s) /\ r.name = Lowest(s)
        /\ r.for = bridge[b].for
    BY <1>3, <1>5 DEF BridgeRecord
  <1>8. bridge' = [bridge EXCEPT ![b] = q] \/ bridge' = [bridge EXCEPT ![b] = r]
    BY DEF ReadNumber
  <1> HIDE DEF q, r
  <1>9. GoodBridge(q) /\ ~Handing(q)
    BY <1>3, <1>6 DEF GoodBridge, Handing
  <1>10. GoodBridge(r) /\ ~Handing(r)
    BY <1>3, <1>5, <1>7 DEF GoodBridge, Handing
  <1>11. BridgesOK' /\ NothingTaken
    BY <1>1, <1>8, <1>9, <1>10, BridgeSet
  <1>12. QED
    BY <1>1, <1>11, Unmoved, MishapType, Combine

(* A number is taken from a peer that is live only by a session that is      *)
(* noted: it did not see the peer when it asked.                             *)
LEMMA RegisterNumbers ==
  ASSUME CommsInv, NEW b \in Bridges, Register(b)
  PROVE  SessionsOK' /\ NumbersDistinct'
  <1> DEFINE s == bridge[b].for
             n == bridge[b].name
             new == [name |-> n, known |-> TRUE, off |-> FALSE, fresh |-> TRUE]
             bearers == {t \in Sessions \ {s} : Online(t) /\ session[t].name = n}
  <1>1. /\ SessionsOK /\ BridgesOK /\ NumbersDistinct /\ mishaps' = mishaps
        /\ Seen(s, new)
    BY DEF CommsInv, Register
  <1>2. GoodBridge(bridge[b]) /\ bridge[b].at = "writing"
    BY <1>1 DEF BridgesOK, Register
  <1>3. s \in Sessions /\ n \in Names /\ n \notin bridge[b].taken
    BY <1>2 DEF GoodBridge, BridgeRecord
  <1>4. new \in SessionRecord /\ new.name = n
    BY <1>3 DEF SessionRecord
  <1>5. clash' = IF bearers # {} THEN clash \cup {s} ELSE clash
    BY <1>3 DEF Register
  <1>6. /\ session' \in [Sessions -> SessionRecord]
        /\ late' \subseteq Messages \X Sessions
        /\ session'[s] = new
        /\ \A t \in Sessions \ {s} : session'[t] = session[t]
    BY <1>1, <1>3, <1>4, SeenTypes
  <1>7. SessionsOK'
    BY <1>1, <1>3, <1>5, <1>6 DEF SessionsOK
  <1> HIDE DEF new
  <1>8. \A t \in Sessions \ {s} : Online(t)' /\ session'[t].name = n => s \in clash'
    BY <1>5, <1>6 DEF Online
  <1>9. \A t \in Sessions \ {s} : Online(t)' => Online(t)
    BY <1>6 DEF Online
  <1> HIDE DEF s, n, bearers
  <1>10. clash \subseteq clash'
    BY <1>5
  <1>11. ASSUME NEW t \in Sessions, NEW u \in Sessions, t # u, Online(t)', Online(u)',
                session'[t].name = session'[u].name, session'[t].name > 0
         PROVE  {t, u} \cap clash' # {}
    <2>1. CASE t = s
      <3>1. u \in Sessions \ {s} /\ session'[u].name = n
        BY <1>4, <1>6, <1>11, <2>1
      <3>2. QED
        BY <1>8, <1>11, <2>1, <3>1
    <2>2. CASE u = s
      <3>1. t \in Sessions \ {s} /\ session'[t].name = n
        BY <1>4, <1>6, <1>11, <2>2
      <3>2. QED
        BY <1>8, <1>11, <2>2, <3>1
    <2>3. CASE t # s /\ u # s
      <3>1. session'[t] = session[t] /\ session'[u] = session[u] /\ Online(t) /\ Online(u)
        BY <1>6, <1>9, <1>11, <2>3
      <3>2. {t, u} \cap clash # {}
        BY <1>1, <1>11, <3>1 DEF NumbersDistinct
      <3>3. QED
        BY <1>10, <3>2
    <2>4. QED
      BY <2>1, <2>2, <2>3
  <1>12. NumbersDistinct'
    BY <1>11 DEF NumbersDistinct
  <1>13. QED
    BY <1>7, <1>12

LEMMA RegisterInv == ASSUME CommsInv, NEW b \in Bridges, Register(b) PROVE CommsInv'
  <1> DEFINE r == [OffBridge EXCEPT !.at = "registered", !.for = bridge[b].for]
  <1>1. BridgesOK /\ row' = row /\ letter' = letter /\ handed' = handed
    BY DEF CommsInv, Register
  <1>2. bridge[b].for \in Sessions
    BY <1>1 DEF BridgesOK, GoodBridge, Register
  <1>3. GoodBridge(r) /\ ~Handing(r)
    BY <1>2, StartBridges
  <1>4. bridge' = [bridge EXCEPT ![b] = r]
    BY DEF Register
  <1> HIDE DEF r
  <1>5. BridgesOK' /\ NothingTaken
    BY <1>1, <1>3, <1>4, BridgeSet
  <1>6. QED
    BY <1>1, <1>5, RegisterNumbers, Unmoved, Combine

LEMMA HeartbeatNumbers ==
  ASSUME CommsInv, NEW b \in Bridges, Heartbeat(b)
  PROVE  SessionsOK' /\ NumbersDistinct'
  <1> DEFINE s == bridge[b].for
             new == [session[s] EXCEPT !.name = Named(s), !.off = FALSE, !.fresh = TRUE]
             bearers == {t \in Sessions \ {s} :
                            Online(t) /\ session[t].name = session[s].name}
  <1>1. /\ SessionsOK /\ BridgesOK /\ NumbersDistinct /\ mishaps' = mishaps
        /\ Seen(s, new)
    BY DEF CommsInv, Heartbeat
  <1>2. s \in Sessions
    BY <1>1 DEF BridgesOK, GoodBridge, Heartbeat
  <1>3. session[s] \in SessionRecord
    BY <1>1, <1>2 DEF SessionsOK
  <1>4. 0 \in Names
    BY FS_CardinalityType, CommsAssumption DEF CommsAssumption, Names
  <1>5. Named(s) \in Names /\ (Named(s) = 0 \/ Named(s) = session[s].name)
    BY <1>3, <1>4 DEF Named, SessionRecord
  <1>6. new \in SessionRecord /\ new.name = Named(s)
    BY <1>3, <1>5 DEF SessionRecord
  <1>7. clash' = IF ~Online(s) /\ bearers # {} THEN clash \cup {s} ELSE clash
    BY DEF Heartbeat
  <1>8. /\ session' \in [Sessions -> SessionRecord]
        /\ late' \subseteq Messages \X Sessions
        /\ session'[s] = new
        /\ \A t \in Sessions \ {s} : session'[t] = session[t]
    BY <1>1, <1>2, <1>6, SeenTypes
  <1>9. SessionsOK'
    BY <1>1, <1>2, <1>7, <1>8 DEF SessionsOK
  <1> HIDE DEF new
  <1>10. \A t \in Sessions \ {s} : Online(t)' => Online(t)
    BY <1>8 DEF Online
  <1>11. clash \subseteq clash'
    BY <1>7
  <1>12. ASSUME NEW t \in Sessions \ {s}, Online(t), Named(s) > 0,
                session[t].name = Named(s)
         PROVE  {s, t} \cap clash' # {}
    <2>1. session[s].name = Named(s) /\ session[t].name = session[s].name
      BY <1>5, <1>12
    <2>2. CASE Online(s)
      <3>1. {s, t} \cap clash # {}
        BY <1>1, <1>2, <1>12, <2>1, <2>2 DEF NumbersDistinct
      <3>2. QED
        BY <1>11, <3>1
    <2>3. CASE ~Online(s)
      BY <1>7, <1>12, <2>1, <2>3
    <2>4. QED
      BY <2>2, <2>3
  <1> HIDE DEF s, bearers
  <1>13. ASSUME NEW t \in Sessions, NEW u \in Sessions, t # u, Online(t)', Online(u)',
                session'[t].name = session'[u].name, session'[t].name > 0
         PROVE  {t, u} \cap clash' # {}
    <2>1. CASE t = s
      <3>1. u \in Sessions \ {s} /\ session[u].name = Named(s) /\ Online(u) /\ Named(s) > 0
        BY <1>6, <1>8, <1>10, <1>13, <2>1
      <3>2. QED
        BY <1>12, <2>1, <3>1
    <2>2. CASE u = s
      <3>1. t \in Sessions \ {s} /\ session[t].name = Named(s) /\ Online(t) /\ Named(s) > 0
        BY <1>6, <1>8, <1>10, <1>13, <2>2
      <3>2. QED
        BY <1>12, <2>2, <3>1
    <2>3. CASE t # s /\ u # s
      <3>1. session'[t] = session[t] /\ session'[u] = session[u] /\ Online(t) /\ Online(u)
        BY <1>8, <1>10, <1>13, <2>3
      <3>2. {t, u} \cap clash # {}
        BY <1>1, <1>13, <3>1 DEF NumbersDistinct
      <3>3. QED
        BY <1>11, <3>2
    <2>4. QED
      BY <2>1, <2>2, <2>3
  <1>14. NumbersDistinct'
    BY <1>13 DEF NumbersDistinct
  <1>15. QED
    BY <1>9, <1>14

(* A bridge that only goes on to its next step.                              *)
LEMMA StepTypes ==
  ASSUME BridgesOK, NEW b \in Bridges, NEW at, Step(b, at),
         bridge[b].at \in {"registered", "beating", "beaten"},
         at \in {"beating", "beaten", "waiting"}
  PROVE  BridgesOK' /\ NothingTaken
  <1> DEFINE r == [bridge[b] EXCEPT !.at = at]
  <1>1. GoodBridge(bridge[b])
    BY DEF BridgesOK
  <1>2. /\ r \in BridgeRecord /\ r.at = at /\ r.for = bridge[b].for
        /\ r.taken = bridge[b].taken
    BY <1>1 DEF GoodBridge, BridgeRecord
  <1>3. bridge' = [bridge EXCEPT ![b] = r]
    BY DEF Step
  <1> HIDE DEF r
  <1>4. GoodBridge(r) /\ ~Handing(r)
    BY <1>1, <1>2 DEF GoodBridge, Handing
  <1>5. QED
    BY <1>3, <1>4, BridgeSet

LEMMA HeartbeatInv == ASSUME CommsInv, NEW b \in Bridges, Heartbeat(b) PROVE CommsInv'
  <1>1. BridgesOK /\ row' = row /\ letter' = letter /\ handed' = handed
    BY DEF CommsInv, Heartbeat
  <1>2. BridgesOK' /\ NothingTaken
    BY <1>1, StepTypes DEF Heartbeat
  <1>3. QED
    BY <1>1, <1>2, HeartbeatNumbers, Unmoved, Combine

(* Forwarding moves a pending copy to a session without one.                 *)
LEMMA AdoptInv == ASSUME CommsInv, NEW b \in Bridges, Adopt(b) PROVE CommsInv'
  <1> DEFINE s == bridge[b].for
  <1>1. /\ SessionsOK /\ BridgesOK /\ MailOK /\ CopiesOK
        /\ letter' = letter /\ handed' = handed
        /\ UNCHANGED <<session, late, clash>> /\ mishaps' = mishaps
    BY DEF CommsInv, Adopt
  <1>2. s \in Sessions
    BY <1>1 DEF BridgesOK, GoodBridge, Adopt
  <1>3. BridgesOK' /\ NothingTaken
    BY <1>1, StepTypes DEF Adopt
  <1>4. CASE row' = row
    BY <1>1, <1>3, <1>4, Unmoved, MishapType, Combine
  <1>5. CASE row' # row
    <2>1. PICK from \in [Moved(s) -> Predecessors(s)] :
            /\ \A x \in Moved(s) : from[x] \in StrandedFrom(s, x)
            /\ row' = [x \in Messages |->
                         IF x \in Moved(s)
                         THEN [row[x] EXCEPT ![s] = "pending", ![from[x]] = "none"]
                         ELSE row[x]]
      BY <1>5 DEF Adopt
    <2>2. \A x \in Moved(s) : /\ from[x] \in Sessions \ {s}
                              /\ row[x][from[x]] = "pending" /\ row[x][s] = "none"
      BY <2>1 DEF StrandedFrom, Predecessors, Moved
    <2>3. \A x \in Messages : row[x] \in [Sessions -> RowStates]
      BY <1>1 DEF MailOK
    <2>4. \A x \in Messages, t \in Sessions :
            row'[x][t] = IF x \in Moved(s)
                         THEN IF t = from[x] THEN "none"
                              ELSE IF t = s THEN "pending" ELSE row[x][t]
                         ELSE row[x][t]
      BY <1>2, <2>1, <2>2, <2>3
    <2>5. row' \in [Messages -> [Sessions -> RowStates]]
      <3>1. \A x \in Messages :
              [row[x] EXCEPT ![s] = "pending", ![from[x]] = "none"] \in [Sessions -> RowStates]
        BY <2>3 DEF RowStates
      <3>2. QED
        BY <2>1, <2>3, <3>1
    <2> HIDE DEF s
    <2>6. ClaimsStay
      BY <1>2, <2>2, <2>4 DEF ClaimsStay
    <2>7. \A x \in Messages : Cardinality(Holders(x)') = Cardinality(Holders(x))
      <3> TAKE x \in Messages
      <3>1. CASE x \notin Moved(s)
        <4>1. Holders(x)' = Holders(x)
          BY <2>4, <3>1 DEF Holders
        <4>2. QED
          BY <4>1
      <3>2. CASE x \in Moved(s)
        <4>1. Holders(x)' = (Holders(x) \ {from[x]}) \cup {s}
          BY <1>2, <2>2, <2>4, <3>2 DEF Holders
        <4>2. from[x] \in Holders(x) /\ s \notin Holders(x)
          BY <2>2, <3>2 DEF Holders
        <4>3. IsFiniteSet(Holders(x)) /\ Cardinality(Holders(x)) \in Nat
          BY FS_Subset, FS_CardinalityType, CommsAssumption DEF CommsAssumption, Holders
        <4>4. /\ IsFiniteSet(Holders(x) \ {from[x]})
              /\ Cardinality(Holders(x) \ {from[x]}) = Cardinality(Holders(x)) - 1
          BY <4>2, <4>3, FS_RemoveElement
        <4>5. Cardinality((Holders(x) \ {from[x]}) \cup {s})
                = Cardinality(Holders(x) \ {from[x]}) + 1
          BY <4>2, <4>4, FS_AddElement
        <4>6. QED
          BY <4>1, <4>3, <4>4, <4>5
      <3>3. QED
        BY <3>1, <3>2
    <2>8. CopiesOK'
      BY <1>1, <2>7 DEF CopiesOK
    <2>9. MailOK'
      BY <1>1, <2>5 DEF MailOK
    <2>10. UnclaimedOK' /\ HandedOK'
      BY <1>1, <1>3, <2>6, ClaimsKept DEF CommsInv
    <2>11. SessionsOK' /\ LettersOK' /\ NumbersDistinct'
      BY <1>1, Unmoved, MishapType
    <2>12. QED
      BY <1>3, <2>8, <2>9, <2>10, <2>11 DEF CommsInv
  <1>6. QED
    BY <1>4, <1>5

LEMMA CurrentTypes == ASSUME NEW s \in Sessions PROVE Current(s) \subseteq Sessions
  BY DEF Current, Successors

LEMMA ResolveInv == ASSUME CommsInv, NEW x \in Messages, Resolve(x) PROVE CommsInv'
  <1>1. /\ SessionsOK /\ LettersOK /\ row' = row /\ handed' = handed /\ bridge' = bridge
        /\ UNCHANGED <<session, late, clash>> /\ (Mishap \/ UNCHANGED mishaps)
    BY DEF CommsInv, Resolve
  <1>2. letter[x] \in LetterRecord /\ GoodLetter(letter[x])
    BY <1>1 DEF LettersOK
  <1>3. PICK m : /\ letter' = [letter EXCEPT ![x] = m]
                 /\ GoodLetter(m) /\ m.copies = letter[x].copies
    <2>1. ASSUME NEW s \in Sessions \cup {Group}, NEW to \in Sessions \cup {Group}
          PROVE  LET m == [letter[x] EXCEPT !.at = "resolved", !.target = s, !.to = to]
                 IN  GoodLetter(m) /\ m.copies = letter[x].copies
      BY <1>2 DEF LetterRecord, GoodLetter
    <2>2. ASSUME NEW to \in Sessions \cup {Group}, letter[x].at = "sent"
          PROVE  LET m == [letter[x] EXCEPT !.at = "resolved", !.to = to]
                 IN  GoodLetter(m) /\ m.copies = letter[x].copies
      BY <1>2, <2>2 DEF LetterRecord, GoodLetter
    <2>3. CASE \E s \in Sessions : \E to \in Current(s) :
                  letter' = [letter EXCEPT ![x] =
                       [@ EXCEPT !.at = "resolved", !.target = s, !.to = to]]
      <3>1. PICK s \in Sessions : \E to \in Current(s) :
                  letter' = [letter EXCEPT ![x] =
                       [@ EXCEPT !.at = "resolved", !.target = s, !.to = to]]
        BY <2>3
      <3>2. PICK to \in Sessions :
                  letter' = [letter EXCEPT ![x] =
                       [@ EXCEPT !.at = "resolved", !.target = s, !.to = to]]
        BY <3>1, CurrentTypes
      <3> DEFINE m == [letter[x] EXCEPT !.at = "resolved", !.target = s, !.to = to]
      <3>3. letter' = [letter EXCEPT ![x] = m]
        BY <3>2
      <3>4. GoodLetter(m) /\ m.copies = letter[x].copies
        BY <2>1
      <3> HIDE DEF m
      <3>5. QED
        BY <3>3, <3>4
    <2>4. CASE letter' = [letter EXCEPT ![x] =
                  [@ EXCEPT !.at = "resolved", !.target = Group, !.to = Group]]
      <3> DEFINE m == [letter[x] EXCEPT !.at = "resolved", !.target = Group, !.to = Group]
      <3>1. letter' = [letter EXCEPT ![x] = m]
        BY <2>4
      <3>2. GoodLetter(m) /\ m.copies = letter[x].copies
        BY <2>1
      <3> HIDE DEF m
      <3>3. QED
        BY <3>1, <3>2
    <2>5. CASE /\ letter[x].at = "sent"
               /\ \E to \in IF letter[x].target = Group THEN {Group}
                            ELSE Current(letter[x].target) :
                     letter' = [letter EXCEPT ![x].at = "resolved", ![x].to = to]
      <3>1. PICK to \in Sessions \cup {Group} :
              letter' = [letter EXCEPT ![x].at = "resolved", ![x].to = to]
        <4>1. letter[x].target = Group \/ letter[x].target \in Sessions
          BY <1>2, <2>5 DEF GoodLetter
        <4>2. QED
          BY <2>5, <4>1, CurrentTypes
      <3> DEFINE m == [letter[x] EXCEPT !.at = "resolved", !.to = to]
      <3>2. letter' = [letter EXCEPT ![x] = m]
        BY <1>1, <3>1 DEF LettersOK
      <3>3. GoodLetter(m) /\ m.copies = letter[x].copies
        BY <2>2, <2>5
      <3> HIDE DEF m
      <3>4. QED
        BY <3>2, <3>3
    <2>6. QED
      BY <2>3, <2>4, <2>5 DEF Resolve
  <1>4. LettersOK'
    BY <1>1, <1>3 DEF LettersOK, GoodLetter
  <1>5. CopiesStay
    BY <1>1, <1>3 DEF CopiesStay, LettersOK
  <1>6. QED
    BY <1>1, <1>4, <1>5, Unmoved, MishapType, Combine

(* What is stored has no copies yet; the first time sets their number.       *)
LEMMA StoreInv == ASSUME CommsInv, NEW x \in Messages, Store(x) PROVE CommsInv'
  <1> DEFINE to == letter[x].to
             recipients == IF to = Group THEN {s \in Sessions : Online(s)} ELSE {to}
  <1>1. /\ SessionsOK /\ LettersOK /\ MailOK /\ CopiesOK /\ handed' = handed
        /\ bridge' = bridge /\ session' = session /\ clash' = clash /\ mishaps' = mishaps
    BY DEF CommsInv, Store
  <1>2. letter[x] \in LetterRecord /\ GoodLetter(letter[x]) /\ letter[x].at = "resolved"
    BY <1>1 DEF LettersOK, Store
  <1>3. recipients \subseteq Sessions
    BY <1>2 DEF GoodLetter
  <1>4. IsFiniteSet(recipients) /\ Cardinality(recipients) \in Nat
    BY <1>3, FS_Subset, FS_CardinalityType, CommsAssumption DEF CommsAssumption
  <1>5. BridgesOK' /\ NothingTaken
    BY <1>1, Unmoved
  <1>6. CASE StoresNew(x) /\ recipients # {}
    <2>1. /\ row' = [row EXCEPT ![x] = [s \in Sessions |->
                        IF s \in recipients THEN "pending" ELSE @[s]]]
          /\ late' = late \cup {<<x, s>> : s \in {r \in recipients : ~session[r].fresh}}
          /\ letter' = [letter EXCEPT ![x].at = "sent",
                            ![x].copies = IF @ = 0 THEN Cardinality(recipients) ELSE @]
      BY <1>6 DEF Store
    <2> HIDE DEF recipients
    <2>2. \A s \in Sessions : row[x][s] = "none"
      BY <1>6 DEF StoresNew, Stored
    <2>3. letter[x].copies = 0
      <3>1. Holders(x) = {}
        BY <2>2 DEF Holders
      <3>2. QED
        BY <1>1, <3>1, FS_EmptySet DEF CopiesOK
    <2> DEFINE m == [letter[x] EXCEPT !.at = "sent", !.copies = Cardinality(recipients)]
    <2>4. letter' = [letter EXCEPT ![x] = m]
      BY <1>1, <2>1, <2>3 DEF LettersOK
    <2>5. m \in LetterRecord /\ GoodLetter(m) /\ m.copies = Cardinality(recipients)
      BY <1>2, <1>4 DEF LetterRecord, GoodLetter
    <2> HIDE DEF m
    <2>6. LettersOK'
      BY <1>1, <2>4, <2>5 DEF LettersOK
    <2>7. \A y \in Messages, s \in Sessions :
            row'[y][s] = IF y = x /\ s \in recipients THEN "pending" ELSE row[y][s]
      BY <1>1, <2>1 DEF MailOK
    <2>8. row' \in [Messages -> [Sessions -> RowStates]]
      BY <1>1, <2>1 DEF MailOK, RowStates
    <2>9. ClaimsStay
      BY <2>2, <2>7 DEF ClaimsStay
    <2>10. CopiesOK'
      <3>1. Holders(x)' = recipients
        BY <1>3, <2>2, <2>7 DEF Holders
      <3>2. letter'[x].copies = Cardinality(recipients)
        BY <1>1, <2>4, <2>5 DEF LettersOK
      <3>3. \A y \in Messages \ {x} : Holders(y)' = Holders(y) /\ letter'[y] = letter[y]
        BY <1>1, <2>4, <2>7 DEF Holders, LettersOK
      <3>4. \A y \in Messages : Cardinality(Holders(y)') = letter'[y].copies
        <4> TAKE y \in Messages
        <4>1. CASE y = x
          BY <3>1, <3>2, <4>1
        <4>2. CASE y # x
          <5>1. Holders(y)' = Holders(y) /\ letter'[y] = letter[y]
            BY <3>3, <4>2
          <5>2. QED
            BY <1>1, <5>1 DEF CopiesOK
        <4>3. QED
          BY <4>1, <4>2
      <3>5. QED
        BY <3>4 DEF CopiesOK
    <2>11. SessionsOK'
      BY <1>1, <1>3, <2>1 DEF SessionsOK
    <2>12. MailOK'
      BY <1>1, <2>8 DEF MailOK
    <2>13. UnclaimedOK' /\ HandedOK'
      BY <1>1, <1>5, <2>9, ClaimsKept DEF CommsInv
    <2>14. NumbersDistinct'
      BY <1>1 DEF CommsInv, NumbersDistinct, Online
    <2>15. QED
      BY <1>5, <2>6, <2>10, <2>11, <2>12, <2>13, <2>14 DEF CommsInv
  <1>7. CASE ~(StoresNew(x) /\ recipients # {})
    <2>1. letter' = [letter EXCEPT ![x].at = "sent"] /\ row' = row /\ late' = late
      BY <1>7 DEF Store
    <2> DEFINE m == [letter[x] EXCEPT !.at = "sent"]
    <2>2. letter' = [letter EXCEPT ![x] = m]
      BY <2>1
    <2>3. m \in LetterRecord /\ GoodLetter(m) /\ m.copies = letter[x].copies
      BY <1>2 DEF LetterRecord, GoodLetter
    <2> HIDE DEF m
    <2>4. LettersOK' /\ CopiesStay
      BY <1>1, <2>1, <2>2, <2>3 DEF LettersOK, CopiesStay
    <2>5. QED
      BY <1>1, <1>5, <2>1, <2>4, Unmoved, MishapType, Combine
  <1>8. QED
    BY <1>6, <1>7

LEMMA AcknowledgeInv ==
  ASSUME CommsInv, NEW s \in Sessions, NEW x \in Messages, Acknowledge(s, x)
  PROVE  CommsInv'
  <1>1. /\ SessionsOK /\ MailOK /\ letter' = letter /\ handed' = handed /\ bridge' = bridge
        /\ UNCHANGED <<session, late, clash>> /\ mishaps' = mishaps
    BY DEF CommsInv, Acknowledge
  <1>2. row' = [row EXCEPT ![x][s] = "acknowledged"] /\ row[x][s] # "none"
    BY DEF Acknowledge
  <1>3. row' \in [Messages -> [Sessions -> RowStates]]
    BY <1>1, <1>2 DEF MailOK, RowStates
  <1>4. ClaimsStay /\ CopiesStay
    BY <1>1, <1>2 DEF MailOK, ClaimsStay, CopiesStay
  <1>5. QED
    BY <1>1, <1>3, <1>4, Unmoved, MishapType, Combine

LEMMA WaitInv == ASSUME CommsInv, NEW b \in Bridges, Wait(b) PROVE CommsInv'
  <1> DEFINE pending == {x \in Messages : row[x][bridge[b].for] = "pending"}
             r == [bridge[b] EXCEPT !.todo = pending,
                       !.at = IF pending = {} THEN "beating" ELSE "claiming"]
  <1>1. /\ SessionsOK /\ BridgesOK
        /\ row' = row /\ letter' = letter /\ handed' = handed
        /\ UNCHANGED <<session, late, clash>> /\ mishaps' = mishaps
    BY DEF CommsInv, Wait
  <1>2. GoodBridge(bridge[b]) /\ bridge[b].at = "waiting"
    BY <1>1 DEF BridgesOK, Wait
  <1>3. bridge' = [bridge EXCEPT ![b] = r]
    BY DEF Wait
  <1>4. pending \subseteq Messages
    OBVIOUS
  <1> HIDE DEF pending
  <1>5. /\ r \in BridgeRecord /\ r.at \in {"beating", "claiming"}
        /\ r.for = bridge[b].for /\ r.taken = bridge[b].taken
    BY <1>2, <1>4 DEF GoodBridge, BridgeRecord
  <1> HIDE DEF r
  <1>6. GoodBridge(r) /\ ~Handing(r)
    BY <1>2, <1>5 DEF GoodBridge, Handing
  <1>7. BridgesOK' /\ NothingTaken
    BY <1>1, <1>3, <1>6, BridgeSet
  <1>8. QED
    BY <1>1, <1>7, Unmoved, MishapType, Combine

(* A claim takes a pending row to "uncertain".                               *)
LEMMA ClaimRow ==
  ASSUME MailOK, NEW x \in Messages, NEW s \in Sessions, Claimable(s, x),
         row' = [row EXCEPT ![x][s] = "uncertain"]
  PROVE  /\ row' \in [Messages -> [Sessions -> RowStates]]
         /\ ClaimsStay
         /\ letter' = letter => CopiesStay
         /\ row'[x][s] = "uncertain"
  BY DEF MailOK, RowStates, Claimable, ClaimsStay, CopiesStay

LEMMA ReserveInv ==
  ASSUME CommsInv, NEW b \in Bridges, NEW x \in Messages, Reserve(b, x)
  PROVE  CommsInv'
  <1> DEFINE s == bridge[b].for
             left == bridge[b].todo \ {x}
  <1>1. /\ SessionsOK /\ BridgesOK /\ MailOK /\ letter' = letter /\ handed' = handed
        /\ clash' = clash
    BY DEF CommsInv, Reserve
  <1>2. GoodBridge(bridge[b]) /\ bridge[b].at = "claiming" /\ s \in Sessions
    BY <1>1 DEF BridgesOK, Reserve, GoodBridge
  <1>3. GoodBridge(Restarted(s)) /\ ~Handing(Restarted(s))
    BY <1>2, StartBridges
  <1>4. left \subseteq Messages
    BY <1>2 DEF GoodBridge, BridgeRecord
  <1>5. CASE /\ Claimable(s, x)
             /\ row' = [row EXCEPT ![x][s] = "uncertain"]
             /\ bridge' = [bridge EXCEPT ![b] = [@ EXCEPT !.at = "sending", !.x = x,
                                                          !.todo = left]]
             /\ UNCHANGED <<session, late, mishaps>>
    <2> DEFINE r == [bridge[b] EXCEPT !.at = "sending", !.x = x, !.todo = left]
    <2>1. bridge' = [bridge EXCEPT ![b] = r]
      BY <1>5
    <2> HIDE DEF left
    <2>2. /\ r \in BridgeRecord /\ r.at = "sending" /\ r.x = x
          /\ r.for = bridge[b].for /\ r.taken = bridge[b].taken
      BY <1>2, <1>4 DEF GoodBridge, BridgeRecord
    <2> HIDE DEF r
    <2>3. GoodBridge(r)
      BY <1>2, <2>2 DEF GoodBridge, Handing
    <2>4. BridgesOK'
      BY <1>1, <2>1, <2>3, BridgeSet
    <2>5. row' \in [Messages -> [Sessions -> RowStates]] /\ ClaimsStay /\ CopiesStay
      BY <1>1, <1>2, <1>5, ClaimRow
    <2>6. \A y \in Messages, t \in Sessions :
            row'[y][t] = IF y = x /\ t = s THEN "uncertain" ELSE row[y][t]
      BY <1>1, <1>2, <1>5 DEF MailOK
    <2>7. UnclaimedOK'
      BY <1>1, <2>5 DEF CommsInv, UnclaimedOK, ClaimsStay
    <2>8. \A c \in Bridges : bridge'[c] = IF c = b THEN r ELSE bridge[c]
      BY <1>1, <2>1 DEF BridgesOK
    <2>9. row[x][s] = "pending" /\ handed[x][s] = 0
      BY <1>2, <1>5 DEF Claimable, CommsInv, UnclaimedOK
    <2>10. \A c \in Bridges : ~Has(bridge[c], x, s)
      BY <1>2, <2>9 DEF CommsInv, HandedOK
    <2>11. \A y \in Messages, t \in Sessions : Has(r, y, t) <=> y = x /\ t = s
      BY <2>2 DEF Has, Handing
    <2> HIDE DEF s
    <2>12. ASSUME NEW c \in Bridges, NEW y \in Messages, NEW t \in Sessions,
                  Has(bridge'[c], y, t)
           PROVE  /\ row'[y][t] \notin {"none", "pending"}
                  /\ bridge'[c].at = "sending" => handed'[y][t] = 0
                  /\ \A d \in Bridges : Has(bridge'[d], y, t) => d = c
      <3>1. CASE c = b
        <4>1. y = x /\ t = s
          BY <2>8, <2>11, <2>12, <3>1
        <4>2. row'[y][t] = "uncertain" /\ handed'[y][t] = 0
          BY <1>1, <2>6, <2>9, <4>1
        <4>3. \A d \in Bridges \ {b} : ~Has(bridge'[d], y, t)
          BY <2>8, <2>10, <4>1
        <4>4. QED
          BY <3>1, <4>2, <4>3
      <3>2. CASE c # b
        <4>1. bridge'[c] = bridge[c] /\ Has(bridge[c], y, t)
          BY <2>8, <2>12, <3>2
        <4>2. ~(y = x /\ t = s)
          BY <2>10, <4>1
        <4>3. \A d \in Bridges : Has(bridge'[d], y, t) => Has(bridge[d], y, t)
          BY <2>8, <2>11, <4>2
        <4>4. row'[y][t] = row[y][t]
          BY <2>6, <4>2
        <4>5. QED
          BY <1>1, <4>1, <4>3, <4>4 DEF CommsInv, HandedOK
      <3>3. QED
        BY <3>1, <3>2
    <2>13. HandedOK'
      BY <2>12 DEF HandedOK
    <2>14. SessionsOK' /\ LettersOK' /\ NumbersDistinct'
      BY <1>1, <1>5, Unmoved, MishapType
    <2>15. CopiesOK' /\ MailOK'
      BY <1>1, <2>5, CopiesStayed DEF CommsInv, MailOK
    <2>16. QED
      BY <2>4, <2>7, <2>13, <2>14, <2>15 DEF CommsInv
  <1>6. CASE /\ Claimable(s, x)
             /\ Mishap
             /\ SaysOffline(s)
             /\ row' = [row EXCEPT ![x][s] = "uncertain"]
             /\ bridge' = [bridge EXCEPT ![b] = Restarted(s)]
    <2>1. BridgesOK' /\ NothingTaken
      BY <1>1, <1>3, <1>6, BridgeSet
    <2>2. row' \in [Messages -> [Sessions -> RowStates]] /\ ClaimsStay /\ CopiesStay
      BY <1>1, <1>2, <1>6, ClaimRow
    <2>3. SessionsOK' /\ NumbersDistinct'
      BY <1>1, <1>2, <1>6, GoodbyeTypes, MishapType, NumbersStayed DEF CommsInv
    <2>4. QED
      BY <1>1, <2>1, <2>2, <2>3, Unmoved, Combine
  <1>7. CASE /\ row[x][s] = "none"
             /\ Offline(s)
             /\ bridge' = [bridge EXCEPT ![b] = Restarted(s)]
             /\ UNCHANGED <<row, mishaps>>
    <2>1. BridgesOK' /\ NothingTaken
      BY <1>1, <1>3, <1>7, BridgeSet
    <2>2. SessionsOK' /\ NumbersDistinct'
      BY <1>1, <1>2, <1>7, GoodbyeTypes, MishapType, NumbersStayed DEF CommsInv, SaysOffline
    <2>3. QED
      BY <1>1, <1>7, <2>1, <2>2, Unmoved, Combine
  <1>8. CASE /\ bridge' = [bridge EXCEPT ![b].at = NextAfter(left), ![b].todo = left]
             /\ UNCHANGED <<session, row, late, mishaps>>
    <2> DEFINE r == [bridge[b] EXCEPT !.at = NextAfter(left), !.todo = left]
    <2>1. bridge' = [bridge EXCEPT ![b] = r]
      BY <1>1, <1>8 DEF BridgesOK
    <2>2. NextAfter(left) \in {"beating", "claiming"}
      BY DEF NextAfter
    <2> HIDE DEF left
    <2>3. /\ r \in BridgeRecord /\ r.at \in {"beating", "claiming"}
          /\ r.for = bridge[b].for /\ r.taken = bridge[b].taken
      BY <1>2, <1>4, <2>2 DEF GoodBridge, BridgeRecord
    <2> HIDE DEF r
    <2>4. GoodBridge(r) /\ ~Handing(r)
      BY <1>2, <2>3 DEF GoodBridge, Handing
    <2>5. BridgesOK' /\ NothingTaken
      BY <1>1, <2>1, <2>4, BridgeSet
    <2>6. QED
      BY <1>1, <1>8, <2>5, Unmoved, MishapType, Combine
  <1>9. QED
    BY <1>5, <1>6, <1>7, <1>8 DEF Reserve

(* Whoever is sending has a copy that was not handed over yet, alone.        *)
LEMMA HandInv == ASSUME CommsInv, NEW b \in Bridges, Hand(b) PROVE CommsInv'
  <1> DEFINE s == bridge[b].for
             x == bridge[b].x
  <1>1. /\ SessionsOK /\ BridgesOK /\ MailOK /\ row' = row /\ letter' = letter
        /\ UNCHANGED <<session, late, clash>> /\ (Mishap \/ UNCHANGED mishaps)
    BY DEF CommsInv, Hand
  <1>2. GoodBridge(bridge[b]) /\ bridge[b].at = "sending"
    BY <1>1 DEF BridgesOK, Hand
  <1>3. s \in Sessions /\ x \in Messages /\ Has(bridge[b], x, s)
    BY <1>2 DEF GoodBridge, Handing, Has
  <1>4. /\ handed[x][s] = 0 /\ row[x][s] \notin {"none", "pending"}
        /\ \A c \in Bridges : Has(bridge[c], x, s) => c = b
    BY <1>2, <1>3 DEF CommsInv, HandedOK
  <1>5. PICK r : /\ bridge' = [bridge EXCEPT ![b] = r]
                 /\ GoodBridge(r) /\ r.at = "recording" /\ r.x = x /\ r.for = s
    <2>1. ASSUME NEW report \in {"accepted", "uncertain"}
          PROVE  LET r == [bridge[b] EXCEPT !.at = "recording", !.report = report]
                 IN  GoodBridge(r) /\ r.at = "recording" /\ r.x = x /\ r.for = s
      <3> DEFINE r == [bridge[b] EXCEPT !.at = "recording", !.report = report]
      <3>1. /\ r \in BridgeRecord /\ r.at = "recording" /\ r.x = bridge[b].x
            /\ r.for = bridge[b].for /\ r.taken = bridge[b].taken
        BY <1>2 DEF GoodBridge, BridgeRecord
      <3> HIDE DEF r
      <3>2. GoodBridge(r)
        BY <1>2, <1>3, <3>1 DEF GoodBridge, Handing
      <3>3. QED
        BY <3>1, <3>2 DEF r
    <2>2. PICK report \in {"accepted", "uncertain"} :
            bridge' = [bridge EXCEPT ![b] = [@ EXCEPT !.at = "recording", !.report = report]]
      BY DEF Hand
    <2> DEFINE r == [bridge[b] EXCEPT !.at = "recording", !.report = report]
    <2>3. bridge' = [bridge EXCEPT ![b] = r]
      BY <2>2
    <2>4. GoodBridge(r) /\ r.at = "recording" /\ r.x = x /\ r.for = s
      BY <2>1
    <2> HIDE DEF r, s, x
    <2>5. QED
      BY <2>3, <2>4
  <1>6. \A c \in Bridges : bridge'[c] = IF c = b THEN r ELSE bridge[c]
    BY <1>1, <1>5 DEF BridgesOK
  <1>7. BridgesOK'
    BY <1>1, <1>5, BridgeSet
  <1>8. \E n \in {0, 1} : handed' = [handed EXCEPT ![x][s] = @ + n]
    BY DEF Hand
  <1> HIDE DEF s, x
  <1>9. PICK n \in {0, 1} : handed' = [handed EXCEPT ![x][s] = n]
    <2>1. PICK n \in {0, 1} : handed' = [handed EXCEPT ![x][s] = @ + n]
      BY <1>8
    <2>2. handed[x][s] + n = n
      BY <1>4
    <2>3. QED
      BY <1>1, <1>3, <2>1, <2>2 DEF MailOK
  <1>10. /\ handed' \in [Messages -> [Sessions -> {0, 1}]]
         /\ \A y \in Messages, t \in Sessions :
               ~(y = x /\ t = s) => handed'[y][t] = handed[y][t]
    BY <1>1, <1>3, <1>9 DEF MailOK
  <1>11. MailOK'
    BY <1>1, <1>10 DEF MailOK
  <1>12. UnclaimedOK'
    BY <1>1, <1>4, <1>10 DEF CommsInv, UnclaimedOK
  <1>13. \A c \in Bridges, y \in Messages, t \in Sessions :
           Has(bridge'[c], y, t) <=> Has(bridge[c], y, t)
    <2>1. \A y \in Messages, t \in Sessions : Has(r, y, t) <=> Has(bridge[b], y, t)
      BY <1>3, <1>5 DEF Has, Handing
    <2>2. QED
      BY <1>6, <2>1
  <1>14. ASSUME NEW c \in Bridges, NEW y \in Messages, NEW t \in Sessions,
                Has(bridge'[c], y, t)
         PROVE  /\ row'[y][t] \notin {"none", "pending"}
                /\ bridge'[c].at = "sending" => handed'[y][t] = 0
                /\ \A d \in Bridges : Has(bridge'[d], y, t) => d = c
    <2>1. /\ row[y][t] \notin {"none", "pending"}
          /\ bridge[c].at = "sending" => handed[y][t] = 0
          /\ \A d \in Bridges : Has(bridge[d], y, t) => d = c
      BY <1>13, <1>14 DEF CommsInv, HandedOK
    <2>2. bridge'[c].at = "sending" => handed'[y][t] = 0
      <3>1. CASE c = b
        BY <1>5, <1>6, <3>1
      <3>2. CASE c # b
        <4>1. Has(bridge[c], y, t)
          BY <1>13, <1>14
        <4>2. ~(y = x /\ t = s)
          BY <1>4, <3>2, <4>1
        <4>3. QED
          BY <1>6, <1>10, <2>1, <3>2, <4>2
      <3>3. QED
        BY <3>1, <3>2
    <2>3. QED
      BY <1>1, <1>13, <2>1, <2>2
  <1>15. HandedOK'
    BY <1>14 DEF HandedOK
  <1>16. SessionsOK' /\ LettersOK' /\ NumbersDistinct' /\ CopiesOK'
    BY <1>1, Unmoved, MishapType, CopiesStayed DEF CommsInv
  <1>17. QED
    BY <1>7, <1>11, <1>12, <1>15, <1>16 DEF CommsInv

(* A report finds a row that was claimed: it stays claimed.                  *)
LEMMA RecordInv == ASSUME CommsInv, NEW b \in Bridges, Record(b) PROVE CommsInv'
  <1> DEFINE s == bridge[b].for
             x == bridge[b].x
             r == [bridge[b] EXCEPT !.at = NextAfter(bridge[b].todo), !.x = None,
                                    !.report = "uncertain"]
  <1>1. /\ SessionsOK /\ BridgesOK /\ MailOK /\ letter' = letter /\ handed' = handed
        /\ UNCHANGED <<session, late, clash>> /\ mishaps' = mishaps
    BY DEF CommsInv, Record
  <1>2. GoodBridge(bridge[b]) /\ bridge[b].at = "recording"
    BY <1>1 DEF BridgesOK, Record
  <1>3. s \in Sessions /\ x \in Messages /\ Has(bridge[b], x, s)
    BY <1>2 DEF GoodBridge, Handing, Has
  <1>4. row[x][s] \notin {"none", "pending"}
    BY <1>3 DEF CommsInv, HandedOK
  <1>5. row' = [row EXCEPT ![x][s] = IF row[x][s] = "none" THEN row[x][s]
                                     ELSE Recorded(row[x][s], bridge[b].report)]
    BY <1>1, <1>3 DEF Record, MailOK
  <1>6. bridge' = [bridge EXCEPT ![b] = r]
    BY DEF Record
  <1>7. NextAfter(bridge[b].todo) \in {"beating", "claiming"}
    BY DEF NextAfter
  <1>8. /\ r \in BridgeRecord /\ r.at \in {"beating", "claiming"}
        /\ r.for = bridge[b].for /\ r.taken = bridge[b].taken
    BY <1>2, <1>7 DEF GoodBridge, BridgeRecord
  <1>9. Recorded(row[x][s], bridge[b].report) \in {"uncertain", "accepted", "acknowledged"}
    BY <1>2 DEF Recorded, GoodBridge, BridgeRecord
  <1> HIDE DEF r, s, x
  <1>10. GoodBridge(r) /\ ~Handing(r)
    BY <1>2, <1>8 DEF GoodBridge, Handing
  <1>11. BridgesOK' /\ NothingTaken
    BY <1>1, <1>6, <1>10, BridgeSet
  <1> DEFINE new == Recorded(row[x][s], bridge[b].report)
  <1>12. row' = [row EXCEPT ![x][s] = new]
    BY <1>4, <1>5
  <1> HIDE DEF new
  <1>13. new \in {"uncertain", "accepted", "acknowledged"}
    BY <1>9 DEF new
  <1>14. row' \in [Messages -> [Sessions -> RowStates]] /\ ClaimsStay /\ CopiesStay
    BY <1>1, <1>3, <1>4, <1>12, <1>13 DEF MailOK, RowStates, ClaimsStay, CopiesStay
  <1>15. QED
    BY <1>1, <1>11, <1>14, Unmoved, MishapType, Combine

(* A failed round, or the end of a bridge.                                   *)
LEMMA EndsInv ==
  ASSUME CommsInv, NEW b \in Bridges, CallFails(b) \/ Stop(b)
  PROVE  CommsInv'
  <1>1. /\ SessionsOK /\ BridgesOK /\ row' = row /\ letter' = letter /\ handed' = handed
        /\ clash' = clash /\ Mishap /\ SaysOffline(bridge[b].for)
    BY DEF CommsInv, CallFails, Stop
  <1>2. bridge[b].for \in Sessions
    BY <1>1 DEF BridgesOK, GoodBridge, CallFails, Stop, InLoop
  <1>3. BridgesOK' /\ NothingTaken
    BY <1>1, <1>2, StartBridges, BridgeSet DEF CallFails, Stop
  <1>4. SessionsOK' /\ NumbersDistinct'
    BY <1>1, <1>2, GoodbyeTypes, MishapType, NumbersStayed DEF CommsInv
  <1>5. QED
    BY <1>1, <1>3, <1>4, Unmoved, Combine

LEMMA ExpireInv == ASSUME CommsInv, NEW s \in Sessions, Expire(s) PROVE CommsInv'
  <1>1. /\ SessionsOK /\ row' = row /\ letter' = letter /\ handed' = handed
        /\ bridge' = bridge /\ late' = late /\ clash' = clash
        /\ (Mishap \/ UNCHANGED mishaps)
        /\ session' = [session EXCEPT ![s].fresh = FALSE]
    BY DEF CommsInv, Expire
  <1>2. \A t \in Sessions : /\ session'[t].name = session[t].name
                            /\ session'[t].known = session[t].known
                            /\ session'[t].off = session[t].off
                            /\ session'[t].fresh => session[t].fresh
    BY <1>1 DEF SessionsOK, SessionRecord
  <1>3. session' \in [Sessions -> SessionRecord]
    BY <1>1 DEF SessionsOK, SessionRecord
  <1>4. NobodyNew
    BY <1>1, <1>2 DEF NobodyNew, Online
  <1>5. SessionsOK' /\ NumbersDistinct'
    BY <1>1, <1>3, <1>4, MishapType, NumbersStayed DEF CommsInv, SessionsOK
  <1>6. QED
    BY <1>1, <1>5, Unmoved, Combine

-----------------------------------------------------------------------------

LEMMA InitInv == Init => CommsInv
  <1> SUFFICES ASSUME Init PROVE CommsInv
    OBVIOUS
  <1>1. 0 \in Names
    BY FS_CardinalityType, CommsAssumption DEF CommsAssumption, Names
  <1>2. SessionsOK
    BY <1>1, CommsAssumption
       DEF Init, SessionsOK, SessionRecord, Unregistered, CommsAssumption
  <1>3. MailOK
    BY DEF Init, MailOK, RowStates
  <1>4. LettersOK
    BY DEF Init, LettersOK, GoodLetter, LetterRecord, Unsent
  <1>5. BridgesOK
    BY StartBridges DEF Init, BridgesOK, GoodBridge
  <1>6. CopiesOK
    <2>1. \A x \in Messages : Holders(x) = {} /\ letter[x].copies = 0
      BY DEF Init, Holders, Unsent
    <2>2. QED
      BY <2>1, FS_EmptySet DEF CopiesOK
  <1>7. UnclaimedOK
    BY DEF Init, UnclaimedOK
  <1>8. HandedOK
    BY DEF Init, HandedOK, Has, Handing, OffBridge
  <1>9. NumbersDistinct
    BY DEF Init, NumbersDistinct, Online, Unregistered
  <1>10. QED
    BY <1>2, <1>3, <1>4, <1>5, <1>6, <1>7, <1>8, <1>9 DEF CommsInv

LEMMA NextInv == CommsInv /\ [Next]_vars => CommsInv'
  <1> SUFFICES ASSUME CommsInv, [Next]_vars PROVE CommsInv'
    OBVIOUS
  <1>1. CASE UNCHANGED vars
    BY <1>1, Unmoved, Combine, MishapType DEF vars, CommsInv
  <1>2. ASSUME NEW b \in Bridges,
               \/ \E s \in Sessions : Launch(b, s)
               \/ ReadNumber(b) \/ Register(b) \/ Heartbeat(b) \/ Adopt(b) \/ Wait(b)
               \/ \E x \in Messages : Reserve(b, x)
               \/ Hand(b) \/ Record(b) \/ CallFails(b) \/ Stop(b)
        PROVE  CommsInv'
    BY <1>2, LaunchInv, ReadNumberInv, RegisterInv, HeartbeatInv, AdoptInv, WaitInv,
       ReserveInv, HandInv, RecordInv, EndsInv
  <1>3. ASSUME NEW s \in Sessions, Expire(s) \/ \E x \in Messages : Acknowledge(s, x)
        PROVE  CommsInv'
    BY <1>3, ExpireInv, AcknowledgeInv
  <1>4. ASSUME NEW x \in Messages, Resolve(x) \/ Store(x)
        PROVE  CommsInv'
    BY <1>4, ResolveInv, StoreInv
  <1>5. QED
    BY <1>1, <1>2, <1>3, <1>4 DEF Next

LEMMA CommsInvariant == Spec => []CommsInv
  <1>1. Init => CommsInv
    BY InitInv
  <1>2. CommsInv /\ [Next]_vars => CommsInv'
    BY NextInv
  <1>3. QED
    BY <1>1, <1>2, PTL DEF Spec

(* Names, rows, letters and bridges keep their types: a name is a base or a  *)
(* number below the number of sessions, and one is always free.              *)
THEOREM CommsTypeCorrect == Spec => []TypeOK
  <1>1. CommsInv => TypeOK
    BY InvTypes
  <1>2. QED
    BY <1>1, CommsInvariant, PTL

(* A message has the copies it was first stored with, and each is handed     *)
(* over at most once, to the session that has it, however claims, forwards,  *)
(* repeated sends, reports and acknowledgments of any number of bridges      *)
(* follow each other.                                                        *)
THEOREM CommsCopiesKept == Spec => []CopiesKept
  <1>1. CommsInv => CopiesKept
    BY InvCopies
  <1>2. QED
    BY <1>1, CommsInvariant, PTL

(* Two live sessions share a number only if one took it while it could not   *)
(* see the other.                                                            *)
THEOREM CommsNumbersDistinct == Spec => []NumbersDistinct
  <1>1. CommsInv => NumbersDistinct
    BY DEF CommsInv
  <1>2. QED
    BY <1>1, CommsInvariant, PTL

=============================================================================
