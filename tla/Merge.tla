-------------------------------- MODULE Merge --------------------------------
(***************************************************************************)
(* three_way_merge (tjai_app/inflight.py): the lines a save stores when    *)
(* somebody else saved since the editor loaded.  A text is the sequence of *)
(* its lines.                                                              *)
(***************************************************************************)
EXTENDS Integers, FiniteSets, Sequences

Yours == "<<<<<<<"
Equals == "="
Theirs == ">>>>>>>"

(* --------------------- difflib.SequenceMatcher(a, b) --------------------- *)

(* Of the longest common runs of a[alo..ahi] and b[blo..bhi] the first in   *)
(* a, and of those the first in b.                                          *)
Boxes(a, b) == [alo : 1..(Len(a) + 1), ahi : 0..Len(a),
                blo : 1..(Len(b) + 1), bhi : 0..Len(b)]
Runs(a, b, x) ==
    {r \in [i : x.alo..x.ahi, j : x.blo..x.bhi, k : 1..Len(a)] :
        /\ r.i + r.k - 1 <= x.ahi /\ r.j + r.k - 1 <= x.bhi
        /\ \A d \in 0..(r.k - 1) : a[r.i + d] = b[r.j + d]}
Longest(runs) ==
    CHOOSE r \in runs : \A q \in runs :
        \/ q.k < r.k
        \/ q.k = r.k /\ q.i > r.i
        \/ q.k = r.k /\ q.i = r.i /\ q.j >= r.j

(* The lines it pairs: those of the longest run, and what it pairs before   *)
(* and behind.                                                              *)
Before(x, r) == [x EXCEPT !.ahi = r.i - 1, !.bhi = r.j - 1]
Behind(x, r) == [x EXCEPT !.alo = r.i + r.k, !.blo = r.j + r.k]
Pairs(r) == {[i |-> r.i + d, j |-> r.j + d] : d \in 0..(r.k - 1)}
Within(a, b) ==
    LET within[x \in Boxes(a, b)] ==
            LET runs == Runs(a, b, x)
                r == Longest(runs)
            IN  IF runs = {} THEN {}
                ELSE within[Before(x, r)] \cup Pairs(r) \cup within[Behind(x, r)]
    IN  within
Matched(a, b) == Within(a, b)[[alo |-> 1, ahi |-> Len(a), blo |-> 1, bhi |-> Len(b)]]

(* Its opcodes but for "equal": lines from..to of a (none if to < from)     *)
(* become by.                                                               *)
Marks(a, b) ==
    Matched(a, b) \cup {[i |-> 0, j |-> 0], [i |-> Len(a) + 1, j |-> Len(b) + 1]}
Gaps(marks) ==
    {g \in [p : marks, q : marks] :
        /\ g.p.i < g.q.i
        /\ \A r \in marks : ~(g.p.i < r.i /\ r.i < g.q.i)
        /\ g.p.i + 1 < g.q.i \/ g.p.j + 1 < g.q.j}
Hunk(b, g) ==
    [from |-> g.p.i + 1, to |-> g.q.i - 1, by |-> SubSeq(b, g.p.j + 1, g.q.j - 1)]
Hunks(a, b) == {Hunk(b, g) : g \in Gaps(Marks(a, b))}

(* ------------------------------ the merge -------------------------------- *)

(* Under way are the text so far and the line of a to go on from, which a   *)
(* region that starts before the last one's end takes back; the region of a *)
(* that is being formed, start..end-1; and of each side the hunks left,     *)
(* whether the region has one, and what it makes of the lines before at.    *)
First(hunks) == CHOOSE h \in hunks : \A g \in hunks : h.from <= g.from

Unchanged(left, start) == [left |-> left, took |-> FALSE, out |-> <<>>, at |-> start]
Opened(a, m) ==
    LET left == m.ours.left \cup m.theirs.left
        start == IF left = {} THEN Len(a) + 1 ELSE First(left).from
    IN  [m EXCEPT !.start = start, !.end = start,
                  !.ours = Unchanged(@.left, start),
                  !.theirs = Unchanged(@.left, start)]

(* An insertion joins a region strictly around it or at the same point,     *)
(* another change one it overlaps.                                          *)
Joins(h, start, end) ==
    IF h.to < h.from
    THEN (start < h.from /\ h.from < end) \/ (h.from = start /\ start = end)
    ELSE h.from < end \/ (start = end /\ h.from = start)
Joining(m, side) == side.left # {} /\ Joins(First(side.left), m.start, m.end)
Taken(a, side) ==
    LET h == First(side.left)
    IN  [left |-> side.left \ {h}, took |-> TRUE,
         out |-> side.out \o SubSeq(a, side.at, h.from - 1) \o h.by, at |-> h.to + 1]
Past(m, side) == LET h == First(side.left) IN IF h.to + 1 > m.end THEN h.to + 1 ELSE m.end

(* A region changed on one side, on both alike, inserted by both at one     *)
(* point, or changed by both: a conflict.                                   *)
Applied(a, m, side) == side.out \o SubSeq(a, side.at, m.end - 1)
SettledOnce(m, ob, oc) ==                  \* mutant: one of two insertions stands
    IF ~m.theirs.took \/ ob = oc \/ m.start = m.end THEN ob
    ELSE IF ~m.ours.took THEN oc
    ELSE <<Yours>> \o ob \o <<Equals>> \o oc \o <<Theirs>>
Settled(m, ob, oc) ==
    IF ~m.theirs.took \/ ob = oc THEN ob
    ELSE IF ~m.ours.took THEN oc
    ELSE IF m.start = m.end THEN ob \o oc
    ELSE <<Yours>> \o ob \o <<Equals>> \o oc \o <<Theirs>>
Clash(m, ob, oc) == m.ours.took /\ m.theirs.took /\ ob # oc /\ m.start # m.end
Settle(a, m) ==
    LET ob == Applied(a, m, m.ours)
        oc == Applied(a, m, m.theirs)
    IN  Opened(a, [m EXCEPT !.text = @ \o SubSeq(a, m.from, m.start - 1) \o Settled(m, ob, oc),
                            !.from = m.end,
                            !.conflict = @ \/ Clash(m, ob, oc)])

Step(a, m) ==
    IF Joining(m, m.ours)
    THEN [m EXCEPT !.ours = Taken(a, @), !.end = Past(m, m.ours)]
    ELSE IF Joining(m, m.theirs)
    THEN [m EXCEPT !.theirs = Taken(a, @), !.end = Past(m, m.theirs)]
    ELSE IF m.ours.took \/ m.theirs.took THEN Settle(a, m)
    ELSE m

Begin(a, hb, hc) ==
    Opened(a, [text |-> <<>>, from |-> 1, conflict |-> FALSE, start |-> 1, end |-> 1,
               ours |-> Unchanged(hb, 1), theirs |-> Unchanged(hc, 1)])

(* Each step takes a hunk or settles a region that has one. *)
Merge3(base, ours, theirs) ==
    LET hb == Hunks(base, ours)
        hc == Hunks(base, theirs)
        after[n \in Nat] == IF n = 0 THEN Begin(base, hb, hc) ELSE Step(base, after[n - 1])
        m == after[2 * (Cardinality(hb) + Cardinality(hc))]
    IN  [text |-> m.text \o SubSeq(base, m.from, Len(base)), conflict |-> m.conflict]
=============================================================================
