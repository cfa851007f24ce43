---------------------------- MODULE EntryProofs ----------------------------
(***************************************************************************)
(* Proofs about the entries that several hands change: the merge of an     *)
(* inflight activity, the tabs that save it, and a poke.                   *)
(*                                                                         *)
(* Of Merge, for any three texts: its matched lines are equal and do not   *)
(* cross, hunks have an unchanged line between them, each step takes a     *)
(* hunk or settles a region, and so the merge ends, with every line that   *)
(* either side wrote.  Of Inflight: its invariant, what each tab knows of  *)
(* the stored content.  Of Poke: one record for an issue, an approval that *)
(* is for the text, the entries and exits of Keep, and that a writer       *)
(* replaces what it was shown.                                             *)
(***************************************************************************)
EXTENDS Poke, Inflight, TLAPS, WellFoundedInduction, FiniteSetTheorems,
        SequenceTheorems, FunctionTheorems

(* ------------------------------- numbers ----------------------------- *)

(* Every set of numbers has a least one, and a bounded one a greatest.      *)
LEMMA LeastNat ==
  ASSUME NEW S, S \subseteq Nat, S # {}
  PROVE  \E n \in S : \A m \in S : n <= m
  <1>1. IsWellFoundedOn(OpToRel(<, Nat), Nat)
    BY NatLessThanWellFounded
  <1>2. PICK n \in S : \A m \in S : ~ (<<m, n>> \in OpToRel(<, Nat))
    BY <1>1, WFMin
  <1>3. \A x, y \in Nat : <<y, x>> \in OpToRel(<, Nat) <=> y < x
    BY DEF OpToRel
  <1>4. \A m \in S : ~ (m < n)
    BY <1>2, <1>3
  <1>5. QED
    BY <1>4

LEMMA GreatestNat ==
  ASSUME NEW S, S \subseteq Nat, S # {}, NEW top \in Nat, \A n \in S : n <= top
  PROVE  \E n \in S : \A m \in S : m <= n
  <1> DEFINE T == {top - n : n \in S}
  <1>1. T \subseteq Nat /\ T # {}
    <2>1. PICK n \in S : TRUE
      OBVIOUS
    <2>2. top - n \in T
      BY <2>1
    <2>3. \A k \in S : top - k \in Nat
      OBVIOUS
    <2>4. QED
      BY <2>2, <2>3
  <1>2. PICK t \in T : \A u \in T : t <= u
    <2> HIDE DEF T
    <2> QED BY <1>1, LeastNat
  <1>3. PICK n \in S : t = top - n
    BY <1>2
  <1>4. \A m \in S : top - m \in T
    OBVIOUS
  <1>5. \A m \in S : t <= top - m
    BY <1>2, <1>4
  <1>6. \A m \in S : m <= n
    BY <1>3, <1>5
  <1>7. QED
    BY <1>6

(* Induction, over a set.                                                   *)
LEMMA NatSteps ==
  ASSUME NEW S, 0 \in S, \A n \in Nat : n \in S => n + 1 \in S
  PROVE  Nat \subseteq S
  <1> DEFINE T == Nat \ S
  <1> SUFFICES ASSUME T # {} PROVE FALSE
    OBVIOUS
  <1>1. PICK n \in T : \A m \in T : n <= m
    BY LeastNat
  <1>2. n \in Nat /\ n # 0
    OBVIOUS
  <1>3. n - 1 \in Nat /\ n - 1 \notin T
    BY <1>1, <1>2
  <1>4. n - 1 \in S /\ (n - 1) + 1 = n
    BY <1>2, <1>3
  <1>5. QED
    BY <1>3, <1>4

(* Steps that start at x and go by t, a function of the step's number.      *)
Begins(f, n, x, t) ==
    /\ f[0] = x
    /\ \A i \in 0..(n - 1) : f[i + 1] = t[i][f[i]]

Iteration(f, x, t) == f[0] = x /\ \A n \in Nat : f[n + 1] = t[n][f[n]]

(* Such steps go on for ever.                                               *)
LEMMA Iterates ==
  ASSUME NEW S, NEW x \in S, NEW t \in [Nat -> [S -> S]]
  PROVE  \E f \in [Nat -> S] : Iteration(f, x, t)
  <1> DEFINE Upto(n) == {f \in [0..n -> S] : Begins(f, n, x, t)}
             N == {n \in Nat : Upto(n) # {}}
  <1>1. 0 \in N
    <2>1. [i \in 0..0 |-> x] \in Upto(0)
      BY DEF Begins
    <2>2. QED
      BY <2>1
  <1>2. ASSUME NEW n \in Nat, n \in N
        PROVE  n + 1 \in N
    <2>1. PICK f \in [0..n -> S] : Begins(f, n, x, t)
      BY <1>2
    <2> DEFINE g == [i \in 0..(n + 1) |-> IF i <= n THEN f[i] ELSE t[n][f[n]]]
    <2>2. t[n][f[n]] \in S
      BY <2>1
    <2>3. g \in [0..(n + 1) -> S]
      BY <2>1, <2>2
    <2>4. ASSUME NEW i \in 0..n PROVE g[i + 1] = t[i][g[i]]
      <3>1. CASE i = n
        BY <3>1
      <3>2. CASE i < n
        <4>1. i \in 0..(n - 1) /\ i + 1 <= n /\ i + 1 \in 0..(n + 1) /\ i \in 0..(n + 1)
          BY <3>2
        <4>2. f[i + 1] = t[i][f[i]]
          BY <2>1, <4>1 DEF Begins
        <4>3. QED
          BY <4>1, <4>2
      <3>3. QED
        BY <3>1, <3>2
    <2>5. g[0] = x
      BY <2>1 DEF Begins
    <2>6. g \in Upto(n + 1)
      <3>1. (n + 1) - 1 = n
        OBVIOUS
      <3> HIDE DEF g
      <3>2. QED
        BY <2>3, <2>4, <2>5, <3>1 DEF Begins
    <2>7. QED
      BY <2>6
  <1>3. Nat \subseteq N
    <2> HIDE DEF N
    <2> QED BY <1>1, <1>2, NatSteps
  <1> DEFINE it == [n \in Nat |-> CHOOSE f \in Upto(n) : TRUE]
  <1>4. \A n \in Nat : it[n] \in Upto(n)
    <2>1. \A n \in Nat : Upto(n) # {}
      BY <1>3
    <2> HIDE DEF Upto
    <2>2. QED
      BY <2>1
  <1>5. ASSUME NEW n \in Nat, NEW m \in Nat, n <= m
        PROVE  it[n][n] = it[m][n]
    <2> DEFINE E == {i \in Nat : i <= n => it[n][i] = it[m][i]}
    <2>1. Begins(it[n], n, x, t) /\ Begins(it[m], m, x, t)
      <3> HIDE DEF it
      <3> QED BY <1>4
    <2> HIDE DEF it
    <2>2. 0 \in E
      BY <2>1 DEF Begins
    <2>3. ASSUME NEW i \in Nat, i \in E PROVE i + 1 \in E
      <3>1. CASE i + 1 <= n
        <4>1. i \in 0..(n - 1) /\ i \in 0..(m - 1)
          BY <3>1, <1>5
        <4>2. it[n][i + 1] = t[i][it[n][i]] /\ it[m][i + 1] = t[i][it[m][i]]
          BY <4>1, <2>1 DEF Begins
        <4>3. QED
          BY <4>2, <4>1, <2>3
      <3>2. QED
        BY <3>1
    <2>4. Nat \subseteq E
      <3> HIDE DEF E
      <3> QED BY <2>2, <2>3, NatSteps
    <2>5. n \in E
      BY <2>4
    <2>6. QED
      BY <2>5
  <1> DEFINE f == [n \in Nat |-> it[n][n]]
  <1>6. f \in [Nat -> S]
    <2>1. \A n \in Nat : it[n][n] \in S
      <3> HIDE DEF it
      <3> QED BY <1>4
    <2> HIDE DEF it
    <2>2. QED
      BY <2>1
  <1>7. f[0] = x
    <2>1. it[0][0] = x
      <3> HIDE DEF it
      <3> QED BY <1>4 DEF Begins
    <2> HIDE DEF it
    <2>2. QED
      BY <2>1
  <1>8. ASSUME NEW n \in Nat PROVE f[n + 1] = t[n][f[n]]
    <2> HIDE DEF it
    <2>1. n \in 0..((n + 1) - 1) /\ n + 1 \in Nat /\ n <= n + 1
      OBVIOUS
    <2>2. it[n + 1][n + 1] = t[n][it[n + 1][n]]
      <3>1. Begins(it[n + 1], n + 1, x, t)
        BY <1>4, <2>1
      <3>2. QED
        BY <3>1, <2>1 DEF Begins
    <2>3. it[n][n] = it[n + 1][n]
      BY <1>5, <2>1
    <2>4. QED
      BY <2>1, <2>2, <2>3
  <1>9. QED
    <2> HIDE DEF f
    <2> QED BY <1>6, <1>7, <1>8 DEF Iteration

(* --------------------- difflib: the matched lines -------------------- *)

(* Among runs there is a longest one.                                       *)
LEMMA LongestIsOne ==
  ASSUME NEW n \in Nat, NEW runs, runs # {},
         \A r \in runs : r.i \in Nat /\ r.j \in Nat /\ r.k \in 1..n
  PROVE  Longest(runs) \in runs /\ \A q \in runs : q.k <= Longest(runs).k
  <1>1. PICK k \in {r.k : r \in runs} : \A m \in {r.k : r \in runs} : m <= k
    <2> DEFINE K == {r.k : r \in runs}
    <2>1. K \subseteq Nat /\ K # {} /\ \A m \in K : m <= n
      OBVIOUS
    <2> HIDE DEF K
    <2>2. \E k \in K : \A m \in K : m <= k
      BY <2>1, GreatestNat
    <2>3. QED
      BY <2>2 DEF K
  <1> DEFINE R == {r \in runs : r.k = k}
  <1>2. PICK i \in {r.i : r \in R} : \A m \in {r.i : r \in R} : i <= m
    <2> DEFINE I == {r.i : r \in R}
    <2>1. I \subseteq Nat /\ I # {}
      BY <1>1
    <2> HIDE DEF I
    <2>2. \E l \in I : \A m \in I : l <= m
      BY <2>1, LeastNat
    <2>3. QED
      BY <2>2 DEF I
  <1> DEFINE Q == {r \in R : r.i = i}
  <1>3. PICK j \in {r.j : r \in Q} : \A m \in {r.j : r \in Q} : j <= m
    <2> DEFINE J == {r.j : r \in Q}
    <2>1. J \subseteq Nat /\ J # {}
      BY <1>2
    <2> HIDE DEF J
    <2>2. \E l \in J : \A m \in J : l <= m
      BY <2>1, LeastNat
    <2>3. QED
      BY <2>2 DEF J
  <1>4. PICK r \in runs : r.k = k /\ r.i = i /\ r.j = j
    BY <1>3
  <1>5. ASSUME NEW q \in runs
        PROVE  \/ q.k < r.k
               \/ q.k = r.k /\ q.i > r.i
               \/ q.k = r.k /\ q.i = r.i /\ q.j >= r.j
    <2>1. q.k <= k /\ q.k \in Nat /\ k \in Nat
      BY <1>1
    <2>2. CASE q.k = k
      <3>1. i <= q.i /\ i \in Nat /\ q.i \in Nat
        BY <1>2, <2>2
      <3>2. CASE q.i = i
        BY <1>3, <1>4, <2>2, <3>2
      <3>3. QED
        BY <1>4, <2>2, <3>1, <3>2
    <2>3. QED
      BY <1>4, <2>1, <2>2
  <1> DEFINE Best(s) == \A q \in runs : \/ q.k < s.k
                                        \/ q.k = s.k /\ q.i > s.i
                                        \/ q.k = s.k /\ q.i = s.i /\ q.j >= s.j
             s == Longest(runs)
  <1>6. s \in runs /\ Best(s)
    <2>1. Best(r)
      BY <1>5
    <2>2. s = CHOOSE q \in runs : Best(q)
      BY DEF Longest
    <2> HIDE DEF Best, s
    <2>3. QED
      BY <2>1, <2>2
  <1>7. \A q \in runs : q.k <= s.k
    <2> HIDE DEF s
    <2> QED BY <1>6
  <1>8. QED
    BY <1>6, <1>7

(* What a run is.                                                           *)
LEMMA RunIs ==
  ASSUME NEW V, NEW a \in Seq(V), NEW b \in Seq(V), NEW x \in Boxes(a, b),
         NEW r \in Runs(a, b, x)
  PROVE  /\ r.i \in Nat /\ r.j \in Nat /\ r.k \in 1..Len(a)
         /\ x.alo <= r.i /\ x.blo <= r.j
         /\ r.i + r.k - 1 <= x.ahi /\ r.j + r.k - 1 <= x.bhi
         /\ \A d \in 0..(r.k - 1) : a[r.i + d] = b[r.j + d]
  <1>1. /\ x.alo \in 1..(Len(a) + 1) /\ x.ahi \in 0..Len(a)
        /\ x.blo \in 1..(Len(b) + 1) /\ x.bhi \in 0..Len(b)
        /\ Len(a) \in Nat /\ Len(b) \in Nat
    BY DEF Boxes
  <1>2. /\ r.i \in x.alo..x.ahi /\ r.j \in x.blo..x.bhi /\ r.k \in 1..Len(a)
        /\ r.i + r.k - 1 <= x.ahi /\ r.j + r.k - 1 <= x.bhi
        /\ \A d \in 0..(r.k - 1) : a[r.i + d] = b[r.j + d]
    BY DEF Runs
  <1>3. r.i \in Nat /\ x.alo <= r.i
    BY <1>1, <1>2
  <1>4. r.j \in Nat /\ x.blo <= r.j
    BY <1>1, <1>2
  <1>5. QED
    BY <1>2, <1>3, <1>4

(* The boxes before and behind a run are smaller ones.                      *)
LEMMA PartsAre ==
  ASSUME NEW V, NEW a \in Seq(V), NEW b \in Seq(V), NEW x \in Boxes(a, b),
         NEW r \in Runs(a, b, x)
  PROVE  /\ Before(x, r) \in Boxes(a, b)
         /\ Before(x, r).alo = x.alo /\ Before(x, r).ahi = r.i - 1
         /\ Before(x, r).blo = x.blo /\ Before(x, r).bhi = r.j - 1
         /\ Behind(x, r) \in Boxes(a, b)
         /\ Behind(x, r).alo = r.i + r.k /\ Behind(x, r).ahi = x.ahi
         /\ Behind(x, r).blo = r.j + r.k /\ Behind(x, r).bhi = x.bhi
  <1>1. r.i - 1 \in 0..Len(a) /\ r.i + r.k \in 1..(Len(a) + 1)
    <2>1. x.alo \in 1..(Len(a) + 1) /\ x.ahi \in 0..Len(a) /\ Len(a) \in Nat
      BY DEF Boxes
    <2>2. r.i \in Nat /\ r.k \in 1..Len(a) /\ x.alo <= r.i /\ r.i + r.k - 1 <= x.ahi
      BY RunIs
    <2>3. 1 <= r.i /\ r.i + r.k <= Len(a) + 1
      BY <2>1, <2>2
    <2>4. r.i - 1 \in 0..Len(a)
      BY <2>1, <2>2, <2>3, SMTT(30)
    <2>5. r.i + r.k \in 1..(Len(a) + 1)
      BY <2>1, <2>2, <2>3, SMTT(30)
    <2>6. QED
      BY <2>4, <2>5
  <1>2. r.j - 1 \in 0..Len(b) /\ r.j + r.k \in 1..(Len(b) + 1)
    <2>1. x.blo \in 1..(Len(b) + 1) /\ x.bhi \in 0..Len(b) /\ Len(b) \in Nat
      BY DEF Boxes
    <2>2. r.j \in Nat /\ r.k \in Nat \ {0} /\ x.blo <= r.j /\ r.j + r.k - 1 <= x.bhi
      BY RunIs
    <2>3. 1 <= r.j /\ r.j + r.k <= Len(b) + 1
      BY <2>1, <2>2
    <2>4. r.j - 1 \in 0..Len(b)
      BY <2>1, <2>2, <2>3, SMTT(30)
    <2>5. r.j + r.k \in 1..(Len(b) + 1)
      BY <2>1, <2>2, <2>3, SMTT(30)
    <2>6. QED
      BY <2>4, <2>5
  <1>4. /\ Before(x, r) \in Boxes(a, b)
        /\ Before(x, r).alo = x.alo /\ Before(x, r).ahi = r.i - 1
        /\ Before(x, r).blo = x.blo /\ Before(x, r).bhi = r.j - 1
    BY <1>1, <1>2 DEF Before, Boxes
  <1>5. /\ Behind(x, r) \in Boxes(a, b)
        /\ Behind(x, r).alo = r.i + r.k /\ Behind(x, r).ahi = x.ahi
        /\ Behind(x, r).blo = r.j + r.k /\ Behind(x, r).bhi = x.bhi
    BY <1>1, <1>2 DEF Behind, Boxes
  <1>6. QED
    BY <1>4, <1>5

(* The longest run is one of them.                                          *)
LEMMA LongestIsRun ==
  ASSUME NEW V, NEW a \in Seq(V), NEW b \in Seq(V), NEW x \in Boxes(a, b),
         Runs(a, b, x) # {}
  PROVE  Longest(Runs(a, b, x)) \in Runs(a, b, x)
  <1>1. \A q \in Runs(a, b, x) : q.i \in Nat /\ q.j \in Nat /\ q.k \in 1..Len(a)
    BY RunIs
  <1>2. Len(a) \in Nat
    OBVIOUS
  <1>3. QED
    BY <1>1, <1>2, LongestIsOne

(* What is paired within x, given what is within its parts. *)
Inner(a, b, f, x) ==
    LET r == Longest(Runs(a, b, x))
    IN  IF Runs(a, b, x) = {} THEN {} ELSE f[Before(x, r)] \cup Pairs(r) \cup f[Behind(x, r)]

Places == [i : Nat, j : Nat]

(* Inner is what the equation of Within says of x.                          *)
LEMMA InnerIs ==
  ASSUME NEW V, NEW a \in Seq(V), NEW b \in Seq(V), NEW x \in Boxes(a, b),
         NEW f, NEW g,
         \A y \in Boxes(a, b) : y.ahi - y.alo < x.ahi - x.alo => f[y] = g[y]
  PROVE  Inner(a, b, f, x) = Inner(a, b, g, x)
  <1>1. CASE Runs(a, b, x) = {}
    BY <1>1 DEF Inner
  <1>2. CASE Runs(a, b, x) # {}
    <2> DEFINE r == Longest(Runs(a, b, x))
    <2>1. r \in Runs(a, b, x)
      BY <1>2, LongestIsRun
    <2> HIDE DEF r
    <2>2. x.alo \in Nat /\ x.ahi \in Nat
      BY DEF Boxes
    <2>3. r.i \in Nat /\ r.k \in Nat \ {0} /\ x.alo <= r.i /\ r.i + r.k - 1 <= x.ahi
      BY <2>1, RunIs
    <2>4. Before(x, r) \in Boxes(a, b) /\ Behind(x, r) \in Boxes(a, b)
      BY <2>1, PartsAre
    <2>5. Before(x, r).ahi - Before(x, r).alo < x.ahi - x.alo
      <3>1. Before(x, r).alo = x.alo /\ Before(x, r).ahi = r.i - 1
        BY <2>1, PartsAre
      <3>2. QED
        BY <3>1, <2>2, <2>3, SMTT(30)
    <2>6. Behind(x, r).ahi - Behind(x, r).alo < x.ahi - x.alo
      <3>1. Behind(x, r).alo = r.i + r.k /\ Behind(x, r).ahi = x.ahi
        BY <2>1, PartsAre
      <3>2. QED
        BY <3>1, <2>2, <2>3, SMTT(30)
    <2>7. f[Before(x, r)] = g[Before(x, r)] /\ f[Behind(x, r)] = g[Behind(x, r)]
      BY <2>4, <2>5, <2>6
    <2>8. QED
      BY <2>7, Zenon DEF Inner, r
  <1>3. QED
    BY <1>1, <1>2

(* It pairs places.                                                         *)
LEMMA InnerType ==
  ASSUME NEW V, NEW a \in Seq(V), NEW b \in Seq(V), NEW x \in Boxes(a, b),
         NEW f \in [Boxes(a, b) -> SUBSET Places]
  PROVE  Inner(a, b, f, x) \subseteq Places
  <1>1. CASE Runs(a, b, x) = {}
    BY <1>1 DEF Inner
  <1>2. CASE Runs(a, b, x) # {}
    <2> DEFINE r == Longest(Runs(a, b, x))
    <2>1. r \in Runs(a, b, x)
      BY <1>2, LongestIsRun
    <2> HIDE DEF r
    <2>2. Before(x, r) \in Boxes(a, b) /\ Behind(x, r) \in Boxes(a, b)
      BY <2>1, PartsAre
    <2>3. r.i \in Nat /\ r.j \in Nat /\ r.k \in Nat \ {0}
      BY <2>1, RunIs
    <2>4. Pairs(r) \subseteq Places
      BY <2>3 DEF Pairs, Places
    <2>5. f[Before(x, r)] \subseteq Places /\ f[Behind(x, r)] \subseteq Places
      BY <2>2
    <2>6. QED
      BY <1>2, <2>4, <2>5 DEF Inner, r
  <1>3. QED
    BY <1>1, <1>2

(* The recursion of Within comes to an end: its equation has a solution.    *)
LEMMA WithinIs ==
  ASSUME NEW V, NEW a \in Seq(V), NEW b \in Seq(V)
  PROVE  Within(a, b) = [x \in Boxes(a, b) |-> Inner(a, b, Within(a, b), x)]
  <1> DEFINE B == Boxes(a, b)
             S == [B -> SUBSET Places]
             t == [n \in Nat |-> [f \in S |-> [x \in B |-> Inner(a, b, f, x)]]]
             none == [x \in B |-> {}]
             Size(x) == x.ahi - x.alo + 1
  <1>1. none \in S
    OBVIOUS
  <1>2. t \in [Nat -> [S -> S]]
    BY InnerType
  <1>3. PICK f \in [Nat -> S] : Iteration(f, none, t)
    <2> HIDE DEF t, none, S, B, Size
    <2> QED BY <1>1, <1>2, Iterates
  <1>4. \A n \in Nat : f[n] \in S /\ f[n + 1] = [x \in B |-> Inner(a, b, f[n], x)]
    BY <1>3 DEF Iteration
  <1> DEFINE Settles == {n \in Nat : \A x \in B : Size(x) < n => f[n][x] = f[n + 1][x]}
  <1>5. \A x \in B : Size(x) \in Int /\ Size(x) <= Len(a)
    <2>1. \A x \in B : x.alo \in 1..(Len(a) + 1) /\ x.ahi \in 0..Len(a)
      BY DEF Boxes
    <2>2. Len(a) \in Nat
      OBVIOUS
    <2>3. QED
      BY <2>1, <2>2
  <1>6. 0 \in Settles
    <2>1. ASSUME NEW x \in B, Size(x) < 0 PROVE f[0][x] = f[0 + 1][x]
      <3>1. Runs(a, b, x) = {}
        <4>1. x.alo \in Nat /\ x.ahi \in Nat
          BY DEF Boxes
        <4>2. x.alo..x.ahi = {}
          BY <2>1, <4>1
        <4>3. QED
          BY <4>2 DEF Runs
      <3>2. f[0 + 1][x] = Inner(a, b, f[0], x)
        BY <1>4
      <3>3. QED
        BY <3>1, <3>2, <1>3 DEF Inner, Iteration
    <2>2. QED
      BY <2>1
  <1>7. ASSUME NEW n \in Nat, n \in Settles PROVE n + 1 \in Settles
    <2>1. ASSUME NEW x \in B, Size(x) < n + 1 PROVE f[n + 1][x] = f[(n + 1) + 1][x]
      <3>1. \A y \in B : y.ahi - y.alo < x.ahi - x.alo => f[n][y] = f[n + 1][y]
        <4>1. ASSUME NEW y \in B, y.ahi - y.alo < x.ahi - x.alo PROVE Size(y) < n
          <5>1. Size(x) \in Int /\ Size(y) \in Int
            BY <1>5
          <5>2. x.alo \in Nat /\ x.ahi \in Nat /\ y.alo \in Nat /\ y.ahi \in Nat
            BY DEF Boxes
          <5>3. QED
            BY <4>1, <2>1, <5>2
        <4>2. QED
          BY <4>1, <1>7
      <3>2. Inner(a, b, f[n], x) = Inner(a, b, f[n + 1], x)
        BY <3>1, InnerIs
      <3>3. f[n + 1][x] = Inner(a, b, f[n], x) /\ f[(n + 1) + 1][x] = Inner(a, b, f[n + 1], x)
        <4>1. n + 1 \in Nat
          OBVIOUS
        <4> HIDE DEF Settles, Size
        <4>2. QED
          BY <1>4, <4>1
      <3>4. QED
        BY <3>2, <3>3
    <2>2. QED
      BY <2>1
  <1>8. Len(a) + 1 \in Settles
    <2>1. Nat \subseteq Settles
      <3> HIDE DEF Settles
      <3> QED BY <1>6, <1>7, NatSteps
    <2>2. Len(a) + 1 \in Nat
      OBVIOUS
    <2>3. QED
      BY <2>1, <2>2
  <1> DEFINE w == f[Len(a) + 1]
  <1>9. w = [x \in B |-> Inner(a, b, w, x)]
    <2>1. Len(a) + 1 \in Nat /\ \A x \in B : Size(x) < Len(a) + 1
      BY <1>5
    <2>2. \A x \in B : w[x] = f[Len(a) + 1 + 1][x]
      BY <2>1, <1>8
    <2>3. w \in S /\ f[Len(a) + 1 + 1] = [x \in B |-> Inner(a, b, w, x)]
      BY <2>1, <1>4
    <2>4. QED
      BY <2>2, <2>3
  <1>10. Within(a, b) = CHOOSE g : g = [x \in B |-> Inner(a, b, g, x)]
    BY DEF Within, Inner
  <1> HIDE DEF w, B
  <1>11. QED
    BY <1>9, <1>10 DEF B

(* Pairs of equal lines that do not cross. *)
Parallel(M) == \A p, q \in M : p.i < q.i <=> p.j < q.j
Equal(a, b, M) == \A p \in M : p.i \in 1..Len(a) /\ p.j \in 1..Len(b) /\ a[p.i] = b[p.j]
Inside(M, x) == \A p \in M : p.i \in x.alo..x.ahi /\ p.j \in x.blo..x.bhi

(* What is paired before a run, in it and behind it is parallel.            *)
LEMMA Joined ==
  ASSUME NEW P, NEW Q, NEW R, P \subseteq Places, Q \subseteq Places, R \subseteq Places,
         Parallel(P), Parallel(Q), Parallel(R),
         \A p \in P, q \in Q : p.i < q.i /\ p.j < q.j,
         \A q \in Q, r \in R : q.i < r.i /\ q.j < r.j,
         \A p \in P, r \in R : p.i < r.i /\ p.j < r.j
  PROVE  Parallel(P \cup Q \cup R)
  <1>1. \A p \in P \cup Q \cup R : p.i \in Nat /\ p.j \in Nat
    BY DEF Places
  <1>2. ASSUME NEW p \in P \cup Q \cup R, NEW q \in P \cup Q \cup R
        PROVE  p.i < q.i <=> p.j < q.j
    <2>1. CASE p \in P
      BY <1>1, <2>1 DEF Parallel
    <2>2. CASE p \in Q
      BY <1>1, <2>2 DEF Parallel
    <2>3. CASE p \in R
      BY <1>1, <2>3 DEF Parallel
    <2>4. QED
      BY <2>1, <2>2, <2>3
  <1>3. QED
    BY <1>2 DEF Parallel

MatchedIn(a, b, x, M) ==
    M \subseteq Places /\ Parallel(M) /\ Equal(a, b, M) /\ Inside(M, x)
Smaller(y, x) == y.ahi - y.alo < x.ahi - x.alo

(* So is what a box pairs, if what its parts pair is.                       *)
LEMMA InnerOK ==
  ASSUME NEW V, NEW a \in Seq(V), NEW b \in Seq(V), NEW x \in Boxes(a, b),
         NEW f, \A y \in Boxes(a, b) : Smaller(y, x) => MatchedIn(a, b, y, f[y])
  PROVE  MatchedIn(a, b, x, Inner(a, b, f, x))
  <1>1. CASE Runs(a, b, x) = {}
    BY <1>1 DEF Inner, MatchedIn, Parallel, Equal, Inside
  <1>2. CASE Runs(a, b, x) # {}
    <2> DEFINE r == Longest(Runs(a, b, x))
               y == Before(x, r)
               z == Behind(x, r)
    <2>1. r \in Runs(a, b, x)
      BY <1>2, LongestIsRun
    <2>2. Inner(a, b, f, x) = f[y] \cup Pairs(r) \cup f[z]
      BY <1>2 DEF Inner
    <2> HIDE DEF r
    <2>3. PICK n, m, alo, ahi, blo, bhi \in Nat :
              /\ Len(a) = n /\ Len(b) = m
              /\ x.alo = alo /\ x.ahi = ahi /\ x.blo = blo /\ x.bhi = bhi
              /\ 1 <= alo /\ ahi <= n /\ 1 <= blo /\ bhi <= m
      <3>1. /\ x.alo \in 1..(Len(a) + 1) /\ x.ahi \in 0..Len(a) /\ Len(a) \in Nat
            /\ x.blo \in 1..(Len(b) + 1) /\ x.bhi \in 0..Len(b) /\ Len(b) \in Nat
        BY DEF Boxes
      <3>2. /\ x.alo \in Nat /\ x.ahi \in Nat /\ x.blo \in Nat /\ x.bhi \in Nat
            /\ 1 <= x.alo /\ x.ahi <= Len(a) /\ 1 <= x.blo /\ x.bhi <= Len(b)
        BY <3>1
      <3> USE <3>1, <3>2
      <3>3. WITNESS Len(a) \in Nat, Len(b) \in Nat, x.alo \in Nat, x.ahi \in Nat,
                    x.blo \in Nat, x.bhi \in Nat
      <3>4. QED
        BY <3>2
    <2>4. /\ r.i \in Nat /\ r.j \in Nat /\ r.k \in Nat /\ 1 <= r.k
          /\ alo <= r.i /\ r.i + r.k - 1 <= ahi
          /\ blo <= r.j /\ r.j + r.k - 1 <= bhi
          /\ \A d \in 0..(r.k - 1) : a[r.i + d] = b[r.j + d]
      <3>1. r.i \in Nat /\ r.k \in Nat \ {0} /\ x.alo <= r.i /\ r.i + r.k - 1 <= x.ahi
        BY <2>1, RunIs
      <3>2. r.j \in Nat /\ x.blo <= r.j /\ r.j + r.k - 1 <= x.bhi
        BY <2>1, RunIs
      <3>3. \A d \in 0..(r.k - 1) : a[r.i + d] = b[r.j + d]
        BY <2>1, RunIs
      <3>4. r.k \in Nat /\ 1 <= r.k
        BY <3>1
      <3>5. /\ alo <= r.i /\ r.i + r.k - 1 <= ahi
            /\ blo <= r.j /\ r.j + r.k - 1 <= bhi
        BY <2>3, <3>1, <3>2
      <3>6. r.i \in Nat /\ r.j \in Nat /\ r.k \in Nat
        BY <3>1, <3>2
      <3>7. QED
        BY <3>3, <3>4, <3>5, <3>6
    <2>5. PICK i, j, k \in Nat : i = r.i /\ j = r.j /\ k = r.k
      BY <2>4, Zenon
    <2>6. /\ r.i = i /\ r.j = j /\ r.k = k
          /\ 1 <= k /\ alo <= i /\ i + k - 1 <= ahi /\ blo <= j /\ j + k - 1 <= bhi
          /\ \A d \in 0..(k - 1) : a[i + d] = b[j + d]
      BY <2>4, <2>5
    <2>7. /\ y \in Boxes(a, b) /\ y.alo = alo /\ y.ahi = i - 1
          /\ y.blo = blo /\ y.bhi = j - 1
      BY <2>1, <2>3, <2>6, PartsAre
    <2>8. /\ z \in Boxes(a, b) /\ z.alo = i + k /\ z.ahi = ahi
          /\ z.blo = j + k /\ z.bhi = bhi
      BY <2>1, <2>3, <2>6, PartsAre
    <2> HIDE DEF y, z
    <2>9. Smaller(y, x)
      BY <2>3, <2>6, <2>7, SMTT(30) DEF Smaller
    <2>10. Smaller(z, x)
      BY <2>3, <2>6, <2>8, SMTT(30) DEF Smaller
    <2>11. /\ f[y] \subseteq Places /\ Parallel(f[y])
           /\ Equal(a, b, f[y]) /\ Inside(f[y], y)
      BY <2>7, <2>9 DEF MatchedIn
    <2>12. /\ f[z] \subseteq Places /\ Parallel(f[z])
           /\ Equal(a, b, f[z]) /\ Inside(f[z], z)
      BY <2>8, <2>10 DEF MatchedIn
    <2>13. \A p \in Pairs(r) : \E d \in 0..(k - 1) : p.i = i + d /\ p.j = j + d
      BY <2>6 DEF Pairs
    <2>14. Pairs(r) \subseteq Places
      BY <2>6 DEF Pairs, Places
    <2>15. ASSUME NEW p \in Pairs(r)
           PROVE  /\ p.i \in i..(i + k - 1) /\ p.j \in j..(j + k - 1)
                  /\ a[p.i] = b[p.j]
      <3>1. PICK d \in 0..(k - 1) : p.i = i + d /\ p.j = j + d
        BY <2>13
      <3>2. a[i + d] = b[j + d]
        BY <2>6
      <3>3. QED
        BY <3>1, <3>2
    <2>16. Parallel(Pairs(r))
      <3>1. ASSUME NEW p \in Pairs(r), NEW q \in Pairs(r) PROVE p.i < q.i <=> p.j < q.j
        <4>1. PICK d \in 0..(k - 1) : p.i = i + d /\ p.j = j + d
          BY <2>13
        <4>2. PICK e \in 0..(k - 1) : q.i = i + e /\ q.j = j + e
          BY <2>13
        <4>3. QED
          BY <4>1, <4>2
      <3>2. QED
        BY <3>1 DEF Parallel
    <2>17. \A p \in f[y] : p.i \in alo..(i - 1) /\ p.j \in blo..(j - 1)
      BY <2>7, <2>11 DEF Inside
    <2>18. \A p \in f[z] : p.i \in (i + k)..ahi /\ p.j \in (j + k)..bhi
      BY <2>8, <2>12 DEF Inside
    <2>19. Inside(Inner(a, b, f, x), x)
      <3>5. alo..(i - 1) \subseteq alo..ahi /\ blo..(j - 1) \subseteq blo..bhi
        BY <2>6, SMTT(30)
      <3>1. \A p \in f[y] : p.i \in alo..ahi /\ p.j \in blo..bhi
        BY <2>17, <3>5
      <3>6. (i + k)..ahi \subseteq alo..ahi /\ (j + k)..bhi \subseteq blo..bhi
        BY <2>6, SMTT(30)
      <3>2. \A p \in f[z] : p.i \in alo..ahi /\ p.j \in blo..bhi
        BY <2>18, <3>6
      <3>3. \A p \in Pairs(r) : p.i \in alo..ahi /\ p.j \in blo..bhi
        BY <2>6, <2>15
      <3>4. QED
        BY <2>2, <2>3, <3>1, <3>2, <3>3 DEF Inside
    <2>20. Equal(a, b, Inner(a, b, f, x))
      <3>1. \A p \in Pairs(r) : p.i \in 1..n /\ p.j \in 1..m
        BY <2>3, <2>6, <2>15
      <3>2. QED
        BY <2>2, <2>3, <2>11, <2>12, <2>15, <3>1 DEF Equal
    <2>21. /\ \A p \in f[y], q \in Pairs(r) : p.i < q.i /\ p.j < q.j
           /\ \A p \in Pairs(r), q \in f[z] : p.i < q.i /\ p.j < q.j
           /\ \A p \in f[y], q \in f[z] : p.i < q.i /\ p.j < q.j
      <3>1. \A p \in f[y], q \in Pairs(r) : p.i < q.i /\ p.j < q.j
        BY <2>15, <2>17
      <3>2. \A p \in Pairs(r), q \in f[z] : p.i < q.i /\ p.j < q.j
        BY <2>15, <2>18
      <3>3. \A p \in f[y], q \in f[z] : p.i < q.i /\ p.j < q.j
        <4>1. ASSUME NEW s \in alo..(i - 1), NEW t \in (i + k)..ahi PROVE s < t
          BY <2>6
        <4>2. ASSUME NEW s \in blo..(j - 1), NEW t \in (j + k)..bhi PROVE s < t
          BY <2>6
        <4>3. QED
          BY <2>17, <2>18, <4>1, <4>2
      <3>4. QED
        BY <3>1, <3>2, <3>3
    <2>22. Parallel(f[y] \cup Pairs(r) \cup f[z])
      BY <2>11, <2>12, <2>14, <2>16, <2>21, Joined
    <2>23. QED
      BY <2>2, <2>11, <2>12, <2>14, <2>19, <2>20, <2>22 DEF MatchedIn
  <1>3. QED
    BY <1>1, <1>2

(* The matched lines are equal, parallel and places of the two texts.       *)
LEMMA MatchedOK ==
  ASSUME NEW V, NEW a \in Seq(V), NEW b \in Seq(V)
  PROVE  /\ Matched(a, b) \subseteq Places
         /\ Parallel(Matched(a, b))
         /\ Equal(a, b, Matched(a, b))
  <1> DEFINE B == Boxes(a, b)
             w == Within(a, b)
             OK(x) == MatchedIn(a, b, x, w[x])
             N == {n \in Nat : \A x \in B : x.ahi - x.alo + 1 < n => OK(x)}
  <1>1. \A x \in B : w[x] = Inner(a, b, w, x)
    <2>1. w = [x \in B |-> Inner(a, b, w, x)]
      BY WithinIs
    <2> HIDE DEF w
    <2>2. QED
      BY <2>1
  <1>2. \A x \in B : x.alo \in 1..(Len(a) + 1) /\ x.ahi \in 0..Len(a) /\ Len(a) \in Nat
    BY DEF Boxes
  <1> HIDE DEF w
  <1>3. 0 \in N
    <2>1. ASSUME NEW x \in B, x.ahi - x.alo + 1 < 0 PROVE OK(x)
      <3>1. Runs(a, b, x) = {}
        <4>1. x.alo..x.ahi = {}
          BY <2>1, <1>2
        <4>2. QED
          BY <4>1 DEF Runs
      <3>2. w[x] = {}
        BY <1>1, <3>1 DEF Inner
      <3>3. QED
        BY <3>2 DEF MatchedIn, Parallel, Equal, Inside
    <2>2. QED
      BY <2>1
  <1>4. ASSUME NEW n \in Nat, n \in N PROVE n + 1 \in N
    <2>1. ASSUME NEW x \in B, x.ahi - x.alo + 1 < n + 1 PROVE OK(x)
      <3>1. ASSUME NEW y \in B, Smaller(y, x) PROVE OK(y)
        <4>1. y.ahi - y.alo + 1 < n
          BY <1>2, <2>1, <3>1 DEF Smaller
        <4>2. QED
          BY <4>1, <1>4
      <3>2. MatchedIn(a, b, x, Inner(a, b, w, x))
        BY <3>1, InnerOK
      <3>3. QED
        BY <1>1, <3>2
    <2> HIDE DEF OK
    <2>2. QED
      BY <2>1
  <1>5. Len(a) + 1 \in N
    <2>1. Nat \subseteq N
      <3> HIDE DEF N
      <3> QED BY <1>3, <1>4, NatSteps
    <2>2. Len(a) + 1 \in Nat
      OBVIOUS
    <2>3. QED
      BY <2>1, <2>2
  <1> DEFINE all == [alo |-> 1, ahi |-> Len(a), blo |-> 1, bhi |-> Len(b)]
  <1>6. all \in B /\ all.ahi - all.alo + 1 < Len(a) + 1
    <2>1. Len(a) \in Nat /\ Len(b) \in Nat
      OBVIOUS
    <2>2. QED
      BY <2>1 DEF Boxes
  <1>7. OK(all)
    <2> HIDE DEF OK, all
    <2> QED BY <1>5, <1>6
  <1>8. QED
    BY <1>7 DEF Matched, w, MatchedIn

(* ------------------------------ the hunks ---------------------------- *)

(* The marks of two texts: ends included, equal lines, none crossing.       *)
MarksFor(a, b, M) ==
    /\ M \subseteq Places
    /\ \A p \in M : p.i \in 0..(Len(a) + 1) /\ p.j \in 0..(Len(b) + 1)
    /\ \A p \in M : /\ p.i = 0 <=> p.j = 0
                    /\ p.i = Len(a) + 1 <=> p.j = Len(b) + 1
                    /\ p.i \in 1..Len(a) => a[p.i] = b[p.j]
    /\ \E p \in M : p.i = 0
    /\ \E p \in M : p.i = Len(a) + 1
    /\ Parallel(M)

(* Marks does what MarksFor says.                                           *)
LEMMA MarksAre ==
  ASSUME NEW V, NEW a \in Seq(V), NEW b \in Seq(V)
  PROVE  MarksFor(a, b, Marks(a, b))
  <1> DEFINE P == {[i |-> 0, j |-> 0]}
             Q == Matched(a, b)
             R == {[i |-> Len(a) + 1, j |-> Len(b) + 1]}
  <1>1. Len(a) \in Nat /\ Len(b) \in Nat
    OBVIOUS
  <1>2. Q \subseteq Places /\ Parallel(Q) /\ Equal(a, b, Q)
    BY MatchedOK
  <1>3. P \subseteq Places /\ R \subseteq Places /\ Parallel(P) /\ Parallel(R)
    BY <1>1 DEF Places, Parallel
  <1>4. \A p \in P : p.i = 0 /\ p.j = 0
    OBVIOUS
  <1>5. \A p \in R : p.i = Len(a) + 1 /\ p.j = Len(b) + 1
    OBVIOUS
  <1>6. \A p \in Q : p.i \in 1..Len(a) /\ p.j \in 1..Len(b) /\ a[p.i] = b[p.j]
    BY <1>2 DEF Equal
  <1>7. Marks(a, b) = P \cup Q \cup R
    BY DEF Marks
  <1>8. \E p \in P : TRUE
    OBVIOUS
  <1>9. \E p \in R : TRUE
    OBVIOUS
  <1> HIDE DEF P, Q, R
  <1>10. Parallel(P \cup Q \cup R)
    <2>1. \A p \in P, q \in Q : p.i < q.i /\ p.j < q.j
      BY <1>4, <1>6
    <2>2. \A q \in Q, r \in R : q.i < r.i /\ q.j < r.j
      BY <1>1, <1>5, <1>6
    <2>3. \A p \in P, r \in R : p.i < r.i /\ p.j < r.j
      BY <1>1, <1>4, <1>5
    <2>4. QED
      BY <1>2, <1>3, <2>1, <2>2, <2>3, Joined
  <1>11. \A p \in Marks(a, b) :
            /\ p.i \in 0..(Len(a) + 1) /\ p.j \in 0..(Len(b) + 1)
            /\ p.i = 0 <=> p.j = 0
            /\ p.i = Len(a) + 1 <=> p.j = Len(b) + 1
            /\ p.i \in 1..Len(a) => a[p.i] = b[p.j]
    <2>1. ASSUME NEW p \in Marks(a, b)
          PROVE  /\ p.i \in 0..(Len(a) + 1) /\ p.j \in 0..(Len(b) + 1)
                 /\ p.i = 0 <=> p.j = 0
                 /\ p.i = Len(a) + 1 <=> p.j = Len(b) + 1
                 /\ p.i \in 1..Len(a) => a[p.i] = b[p.j]
      <3>1. CASE p \in P
        BY <1>1, <1>4, <3>1
      <3>2. CASE p \in Q
        BY <1>1, <1>6, <3>2
      <3>3. CASE p \in R
        BY <1>1, <1>5, <3>3
      <3>4. QED
        BY <1>7, <3>1, <3>2, <3>3
    <2>2. QED
      BY <2>1
  <1>12. QED
    BY <1>2, <1>3, <1>4, <1>5, <1>7, <1>8, <1>9, <1>10, <1>11 DEF MarksFor

(* Two marks at one line of a, or of b, are one.                            *)
LEMMA SamePlace ==
  ASSUME NEW V, NEW a \in Seq(V), NEW b \in Seq(V), NEW M, MarksFor(a, b, M),
         NEW p \in M, NEW q \in M
  PROVE  /\ p.i \in Nat /\ p.j \in Nat
         /\ p.i < q.i <=> p.j < q.j
         /\ p.i = q.i <=> p.j = q.j
         /\ p.i = q.i => p = q
  <1>1. p \in Places /\ q \in Places
    BY DEF MarksFor
  <1>2. p.i \in Nat /\ p.j \in Nat /\ q.i \in Nat /\ q.j \in Nat
    BY <1>1 DEF Places
  <1>3. (p.i < q.i <=> p.j < q.j) /\ (q.i < p.i <=> q.j < p.j)
    BY DEF MarksFor, Parallel
  <1>4. p.i = q.i <=> p.j = q.j
    BY <1>2, <1>3
  <1>5. p.i = q.i => p = q
    BY <1>1, <1>4 DEF Places
  <1>6. QED
    BY <1>2, <1>3, <1>4, <1>5

(* Behind every mark but the last there is a next one.                      *)
Next1(M, p, q) == p.i < q.i /\ \A r \in M : ~(p.i < r.i /\ r.i < q.i)

(* A mark that is not the last has a next one.                              *)
LEMMA NextMark ==
  ASSUME NEW V, NEW a \in Seq(V), NEW b \in Seq(V), NEW M, MarksFor(a, b, M),
         NEW p \in M, p.i <= Len(a)
  PROVE  \E q \in M : Next1(M, p, q)
  <1> DEFINE S == {q.i : q \in {r \in M : p.i < r.i}}
  <1>1. Len(a) \in Nat /\ \A q \in M : q.i \in Nat
    BY SamePlace
  <1>2. S \subseteq Nat /\ S # {}
    <2>1. PICK q \in M : q.i = Len(a) + 1
      BY DEF MarksFor
    <2>2. q.i \in S
      BY <1>1, <2>1
    <2>3. QED
      BY <1>1, <2>2
  <1>3. PICK n \in S : \A m \in S : n <= m
    <2> HIDE DEF S
    <2> QED BY <1>2, LeastNat
  <1>4. PICK q \in M : p.i < q.i /\ n = q.i
    BY <1>3
  <1>5. \A r \in M : p.i < r.i => q.i <= r.i
    BY <1>3, <1>4
  <1>6. QED
    BY <1>1, <1>4, <1>5 DEF Next1

GapIn(M, g) ==
    /\ g.p \in M /\ g.q \in M /\ Next1(M, g.p, g.q)
    /\ g.p.i + 1 < g.q.i \/ g.p.j + 1 < g.q.j

(* Gaps are what GapIn says.                                                *)
LEMMA GapsAre ==
  ASSUME NEW M, NEW g
  PROVE  g \in Gaps(M) <=> g \in [p : M, q : M] /\ GapIn(M, g)
  BY DEF Gaps, GapIn, Next1

(* Hunks of a text of n lines by lines of V: an unchanged line lies between *)
(* any two.                                                                 *)
Separate(H, n, V) ==
    /\ H \subseteq [from : 1..(n + 1), to : 0..n, by : Seq(V)]
    /\ \A h \in H : h.from <= h.to + 1
    /\ \A g, h \in H : g = h \/ g.to + 1 < h.from \/ h.to + 1 < g.from

(* Where the ends of a gap are.                                             *)
LEMMA GapPlaces ==
  ASSUME NEW V, NEW a \in Seq(V), NEW b \in Seq(V), NEW M, MarksFor(a, b, M),
         NEW g \in Gaps(M)
  PROVE  /\ g.p \in M /\ g.q \in M /\ Next1(M, g.p, g.q)
         /\ g.p.i \in Nat /\ g.p.j \in Nat /\ g.q.i \in Nat /\ g.q.j \in Nat
         /\ g.p.i < g.q.i /\ g.p.j < g.q.j
         /\ g.q.i <= Len(a) + 1 /\ g.q.j <= Len(b) + 1
         /\ Len(a) \in Nat /\ Len(b) \in Nat
  <1>1. g.p \in M /\ g.q \in M /\ Next1(M, g.p, g.q)
    BY GapsAre DEF GapIn
  <1>2. g.p.i \in Nat /\ g.p.j \in Nat /\ g.q.i \in Nat /\ g.q.j \in Nat
    BY <1>1, SamePlace
  <1>3. g.p.i < g.q.i
    BY <1>1 DEF Next1
  <1>4. g.p.j < g.q.j
    BY <1>1, <1>3, SamePlace
  <1>5. g.q.i \in 0..(Len(a) + 1) /\ g.q.j \in 0..(Len(b) + 1)
    BY <1>1 DEF MarksFor
  <1>6. Len(a) \in Nat /\ Len(b) \in Nat
    OBVIOUS
  <1>7. QED
    BY <1>1, <1>2, <1>3, <1>4, <1>5, <1>6

(* The hunk of a gap.                                                       *)
LEMMA HunkIs ==
  ASSUME NEW V, NEW a \in Seq(V), NEW b \in Seq(V), NEW M, MarksFor(a, b, M),
         NEW g \in Gaps(M)
  PROVE  /\ Hunk(b, g).from = g.p.i + 1 /\ Hunk(b, g).to = g.q.i - 1
         /\ Hunk(b, g).by = SubSeq(b, g.p.j + 1, g.q.j - 1)
         /\ Hunk(b, g) \in [from : 1..(Len(a) + 1), to : 0..Len(a), by : Seq(V)]
         /\ Hunk(b, g).from <= Hunk(b, g).to + 1
         /\ Len(Hunk(b, g).by) = g.q.j - 1 - g.p.j
         /\ \A k \in 1..(g.q.j - 1 - g.p.j) : Hunk(b, g).by[k] = b[g.p.j + k]
  <1>1. PICK i, j, k, l, n, m \in Nat :
            /\ g.p.i = i /\ g.p.j = j /\ g.q.i = k /\ g.q.j = l /\ Len(a) = n /\ Len(b) = m
            /\ i < k /\ j < l /\ k <= n + 1 /\ l <= m + 1
    <2> USE GapPlaces
    <2>1. WITNESS g.p.i \in Nat, g.p.j \in Nat, g.q.i \in Nat, g.q.j \in Nat,
                  Len(a) \in Nat, Len(b) \in Nat
    <2>2. QED
      OBVIOUS
  <1>2. Hunk(b, g) = [from |-> i + 1, to |-> k - 1, by |-> SubSeq(b, j + 1, l - 1)]
    BY <1>1 DEF Hunk
  <1>3. /\ i + 1 \in 1..(n + 1) /\ k - 1 \in 0..n /\ i + 1 <= (k - 1) + 1
        /\ j + 1 \in Int /\ l - 1 \in Int
    BY <1>1
  <1>4. \A d \in (j + 1)..(l - 1) : b[d] \in V
    <2>1. \A d \in (j + 1)..(l - 1) : d \in 1..m
      BY <1>1
    <2>2. QED
      BY <1>1, <2>1, ElementOfSeq
  <1>5. /\ SubSeq(b, j + 1, l - 1) \in Seq(V)
        /\ Len(SubSeq(b, j + 1, l - 1)) = IF j + 1 <= l - 1 THEN (l - 1) - (j + 1) + 1 ELSE 0
        /\ \A d \in 1..((l - 1) - (j + 1) + 1) :
              SubSeq(b, j + 1, l - 1)[d] = b[(j + 1) + d - 1]
    BY <1>3, <1>4, SubSeqProperties
  <1>6. Len(SubSeq(b, j + 1, l - 1)) = l - 1 - j
    BY <1>1, <1>5
  <1>7. \A d \in 1..(l - 1 - j) : SubSeq(b, j + 1, l - 1)[d] = b[j + d]
    <2>1. ASSUME NEW d \in 1..(l - 1 - j) PROVE SubSeq(b, j + 1, l - 1)[d] = b[j + d]
      <3>1. d \in 1..((l - 1) - (j + 1) + 1) /\ (j + 1) + d - 1 = j + d
        OBVIOUS
      <3>2. SubSeq(b, j + 1, l - 1)[d] = b[(j + 1) + d - 1]
        BY <1>5, <3>1
      <3>3. QED
        BY <3>1, <3>2
    <2>2. QED
      BY <2>1
  <1>8. QED
    BY <1>1, <1>2, <1>3, <1>5, <1>6, <1>7

(* Two gaps share at most a mark.                                           *)
LEMMA GapsApart ==
  ASSUME NEW V, NEW a \in Seq(V), NEW b \in Seq(V), NEW M, MarksFor(a, b, M),
         NEW g \in Gaps(M), NEW h \in Gaps(M)
  PROVE  \/ g = h
         \/ Hunk(b, g).to + 1 < Hunk(b, h).from
         \/ Hunk(b, h).to + 1 < Hunk(b, g).from
  <1>1. /\ g.p \in M /\ g.q \in M /\ Next1(M, g.p, g.q)
        /\ g.p.i \in Nat /\ g.q.i \in Nat
    BY GapPlaces
  <1>2. /\ h.p \in M /\ h.q \in M /\ Next1(M, h.p, h.q)
        /\ h.p.i \in Nat /\ h.q.i \in Nat
    BY GapPlaces
  <1>3. /\ Hunk(b, g).from = g.p.i + 1 /\ Hunk(b, g).to = g.q.i - 1
        /\ Hunk(b, h).from = h.p.i + 1 /\ Hunk(b, h).to = h.q.i - 1
    BY HunkIs
  <1>4. CASE g.p.i < h.p.i
    <2>1. g.q.i <= h.p.i
      BY <1>1, <1>2, <1>4 DEF Next1
    <2>2. QED
      BY <1>1, <1>2, <1>3, <2>1
  <1>5. CASE h.p.i < g.p.i
    <2>1. h.q.i <= g.p.i
      BY <1>1, <1>2, <1>5 DEF Next1
    <2>2. QED
      BY <1>1, <1>2, <1>3, <2>1
  <1>6. CASE g.p.i = h.p.i
    <2>1. g.q.i = h.q.i
      BY <1>1, <1>2, <1>6 DEF Next1
    <2>2. g.p = h.p /\ g.q = h.q
      BY <1>1, <1>2, <1>6, <2>1, SamePlace
    <2>3. g \in [p : M, q : M] /\ h \in [p : M, q : M]
      BY GapsAre
    <2>4. QED
      BY <2>2, <2>3
  <1>7. QED
    BY <1>1, <1>2, <1>4, <1>5, <1>6

(* The hunks of two texts are separate.                                     *)
LEMMA HunksSeparate ==
  ASSUME NEW V, NEW a \in Seq(V), NEW b \in Seq(V)
  PROVE  Separate(Hunks(a, b), Len(a), V)
  <1> DEFINE M == Marks(a, b)
  <1>1. MarksFor(a, b, M)
    BY MarksAre
  <1>2. Hunks(a, b) = {Hunk(b, g) : g \in Gaps(M)}
    BY DEF Hunks
  <1> HIDE DEF M
  <1>3. ASSUME NEW h \in Hunks(a, b)
        PROVE  /\ h \in [from : 1..(Len(a) + 1), to : 0..Len(a), by : Seq(V)]
               /\ h.from <= h.to + 1
    BY <1>1, <1>2, HunkIs
  <1>4. ASSUME NEW g \in Hunks(a, b), NEW h \in Hunks(a, b)
        PROVE  g = h \/ g.to + 1 < h.from \/ h.to + 1 < g.from
    <2>1. PICK x \in Gaps(M) : g = Hunk(b, x)
      BY <1>2
    <2>2. PICK y \in Gaps(M) : h = Hunk(b, y)
      BY <1>2
    <2>3. QED
      BY <1>1, <2>1, <2>2, GapsApart
  <1>5. QED
    BY <1>3, <1>4 DEF Separate

(* Every line of b is in a hunk or paired with an equal line of a.          *)
Covered(a, b, k) ==
    \/ \E h \in Hunks(a, b) : \E d \in 1..Len(h.by) : h.by[d] = b[k]
    \/ \E p \in Marks(a, b) : p.j = k /\ p.i \in 1..Len(a) /\ a[p.i] = b[k]

(* So it is for each line.                                                  *)
LEMMA LineCovered ==
  ASSUME NEW V, NEW a \in Seq(V), NEW b \in Seq(V), NEW k \in 1..Len(b)
  PROVE  Covered(a, b, k)
  <1> DEFINE M == Marks(a, b)
             S == {p.j : p \in {r \in M : r.j < k}}
  <1>1. MarksFor(a, b, M)
    BY MarksAre
  <1>2. Hunks(a, b) = {Hunk(b, g) : g \in Gaps(M)}
    BY DEF Hunks
  <1>3. Len(a) \in Nat /\ Len(b) \in Nat /\ k \in Nat /\ 1 <= k /\ k <= Len(b)
    OBVIOUS
  <1> HIDE DEF M
  <1>4. \A p \in M : p.i \in Nat /\ p.j \in Nat
    BY <1>1, SamePlace
  <1>5. CASE \E p \in M : p.j = k
    <2>1. PICK p \in M : p.j = k
      BY <1>5
    <2>2. p.i \in 1..Len(a) /\ a[p.i] = b[k]
      <3>1. /\ p.i \in 0..(Len(a) + 1) /\ (p.i = 0 <=> p.j = 0)
            /\ p.i = Len(a) + 1 <=> p.j = Len(b) + 1
            /\ p.i \in 1..Len(a) => a[p.i] = b[p.j]
        BY <1>1 DEF MarksFor
      <3>2. QED
        BY <1>3, <2>1, <3>1
    <2>3. QED
      BY <2>1, <2>2 DEF M, Covered
  <1>6. CASE ~ \E p \in M : p.j = k
    <2>1. S \subseteq Nat /\ S # {} /\ \A n \in S : n <= k
      <3>1. PICK p \in M : p.i = 0 /\ p.j = 0
        BY <1>1 DEF MarksFor
      <3>2. 0 \in S
        BY <1>3, <3>1
      <3>3. \A n \in S : n \in Nat /\ n <= k
        BY <1>3, <1>4
      <3> HIDE DEF S
      <3>4. QED
        BY <3>2, <3>3
    <2>2. PICK n \in S : \A m \in S : m <= n
      <3> HIDE DEF S
      <3> QED BY <1>3, <2>1, GreatestNat
    <2>3. PICK p \in M : p.j < k /\ n = p.j
      BY <2>2
    <2>4. \A r \in M : r.j < k => r.j <= p.j
      BY <2>2, <2>3
    <2>5. p.i <= Len(a)
      <3>1. p.i \in 0..(Len(a) + 1) /\ (p.i = Len(a) + 1 => p.j = Len(b) + 1)
        BY <1>1 DEF MarksFor
      <3>2. QED
        BY <1>3, <2>3, <3>1
    <2>6. PICK q \in M : Next1(M, p, q)
      BY <1>1, <2>5, NextMark
    <2>7. p.j < q.j
      BY <1>1, <2>6, SamePlace DEF Next1
    <2>8. k < q.j
      BY <1>3, <1>4, <1>6, <2>4, <2>7
    <2> DEFINE g == [p |-> p, q |-> q]
    <2>9. g \in Gaps(M) /\ g.p = p /\ g.q = q
      <3>1. g \in [p : M, q : M] /\ g.p = p /\ g.q = q
        OBVIOUS
      <3> HIDE DEF g
      <3>2. g.p.j + 1 < g.q.j
        BY <1>3, <1>4, <2>3, <2>8, <3>1
      <3>3. QED
        BY <2>6, <3>1, <3>2, GapsAre DEF GapIn
    <2> HIDE DEF g
    <2>10. Hunk(b, g) \in Hunks(a, b)
      BY <1>2, <2>9
    <2>11. /\ Len(Hunk(b, g).by) = q.j - 1 - p.j
           /\ \A d \in 1..(q.j - 1 - p.j) : Hunk(b, g).by[d] = b[p.j + d]
      BY <1>1, <2>9, HunkIs
    <2>12. k - p.j \in 1..(q.j - 1 - p.j) /\ p.j + (k - p.j) = k
      BY <1>3, <1>4, <2>3, <2>8
    <2>13. QED
      BY <2>10, <2>11, <2>12 DEF Covered
  <1>7. QED
    BY <1>5, <1>6

(* A paired line of a is in no hunk.                                        *)
Outside(H, k) == \A h \in H : k < h.from \/ h.to < k

(* The hunks go around the paired lines.                                    *)
LEMMA PairedOutside ==
  ASSUME NEW V, NEW a \in Seq(V), NEW b \in Seq(V), NEW p \in Marks(a, b)
  PROVE  Outside(Hunks(a, b), p.i)
  <1> DEFINE M == Marks(a, b)
  <1>1. MarksFor(a, b, M)
    BY MarksAre
  <1>2. Hunks(a, b) = {Hunk(b, g) : g \in Gaps(M)}
    BY DEF Hunks
  <1>3. p \in M
    OBVIOUS
  <1> HIDE DEF M
  <1>4. ASSUME NEW g \in Gaps(M) PROVE p.i < Hunk(b, g).from \/ Hunk(b, g).to < p.i
    <2>1. Next1(M, g.p, g.q) /\ g.p.i \in Nat /\ g.q.i \in Nat
      BY <1>1, GapPlaces
    <2>2. p.i \in Nat
      BY <1>1, <1>3, SamePlace
    <2>3. p.i <= g.p.i \/ g.q.i <= p.i
      BY <1>3, <2>1, <2>2 DEF Next1
    <2>4. Hunk(b, g).from = g.p.i + 1 /\ Hunk(b, g).to = g.q.i - 1
      BY <1>1, HunkIs
    <2>5. QED
      BY <2>1, <2>2, <2>3, <2>4
  <1>5. QED
    BY <1>2, <1>4 DEF Outside

(* There are finitely many of them.                                         *)
LEMMA SeparateFinite ==
  ASSUME NEW V, NEW n \in Nat, NEW H, Separate(H, n, V)
  PROVE  IsFiniteSet(H)
  <1> DEFINE f == [h \in H |-> h.from]
  <1>1. f \in [H -> 1..(n + 1)]
    BY DEF Separate
  <1>2. ASSUME NEW g \in H, NEW h \in H, f[g] = f[h] PROVE g = h
    <2>1. g.from \in Nat /\ g.to \in Nat /\ g.from <= g.to + 1
      BY DEF Separate
    <2>2. h.from \in Nat /\ h.to \in Nat /\ h.from <= h.to + 1
      BY DEF Separate
    <2>3. g = h \/ g.to + 1 < h.from \/ h.to + 1 < g.from
      BY DEF Separate
    <2>4. g.from = h.from
      BY <1>2
    <2>5. QED
      BY <2>1, <2>2, <2>3, <2>4
  <1>3. f \in Injection(H, 1..(n + 1))
    <2> HIDE DEF f
    <2> QED BY <1>1, <1>2 DEF Injection, IsInjective
  <1>4. IsFiniteSet(1..(n + 1))
    BY FS_Interval
  <1>5. QED
    BY <1>3, <1>4, FS_Injection

(* First is the first of hunks left.                                        *)
LEMMA FirstIs ==
  ASSUME NEW V, NEW n \in Nat, NEW H, Separate(H, n, V), NEW G, Separate(G, n, V),
         NEW L, L \subseteq H \cup G, L # {}
  PROVE  First(L) \in L /\ \A g \in L : First(L).from <= g.from
  <1> DEFINE S == {h.from : h \in L}
  <1>1. S \subseteq Nat /\ S # {}
    BY DEF Separate
  <1>2. PICK k \in S : \A m \in S : k <= m
    <2> HIDE DEF S
    <2> QED BY <1>1, LeastNat
  <1>3. PICK h \in L : h.from = k
    BY <1>2
  <1>4. \A g \in L : h.from <= g.from
    BY <1>2, <1>3
  <1>5. QED
    BY <1>3, <1>4 DEF First

(* The lines of a text, and of two in a row.                                *)
LEMMA RangeIs ==
  ASSUME NEW V, NEW s \in Seq(V), NEW x
  PROVE  x \in Range(s) <=> \E k \in 1..Len(s) : s[k] = x
  BY LenProperties DEF Range

LEMMA RangeConcat ==
  ASSUME NEW V, NEW s \in Seq(V), NEW t \in Seq(V)
  PROVE  s \o t \in Seq(V) /\ Range(s \o t) = Range(s) \cup Range(t)
  <1>1. QED
    BY ConcatProperties, RangeConcatenation

(* Lines k..l of a. *)
LEMMA Piece ==
  ASSUME NEW V, NEW a \in Seq(V), NEW k \in Nat \ {0}, NEW l \in Int, l <= Len(a)
  PROVE  /\ SubSeq(a, k, l) \in Seq(V)
         /\ Len(SubSeq(a, k, l)) = IF k <= l THEN l - k + 1 ELSE 0
         /\ \A i \in 1..(l - k + 1) : SubSeq(a, k, l)[i] = a[k + i - 1]
         /\ \A i \in k..l : a[i] \in Range(SubSeq(a, k, l))
  <1>1. \A i \in k..l : a[i] \in V
    <2>1. \A i \in k..l : i \in 1..Len(a)
      OBVIOUS
    <2>2. QED
      BY <2>1, ElementOfSeq
  <1>2. /\ SubSeq(a, k, l) \in Seq(V)
        /\ Len(SubSeq(a, k, l)) = IF k <= l THEN l - k + 1 ELSE 0
        /\ \A i \in 1..(l - k + 1) : SubSeq(a, k, l)[i] = a[k + i - 1]
    BY <1>1, SubSeqProperties
  <1>3. ASSUME NEW i \in k..l PROVE a[i] \in Range(SubSeq(a, k, l))
    <2>1. i - k + 1 \in 1..(l - k + 1) /\ k + (i - k + 1) - 1 = i /\ k <= l
      OBVIOUS
    <2>2. SubSeq(a, k, l)[i - k + 1] = a[i]
      BY <1>2, <2>1
    <2>3. Len(SubSeq(a, k, l)) = l - k + 1
      BY <1>2, <2>1
    <2>4. QED
      BY <1>2, <2>1, <2>2, <2>3, RangeIs
  <1>4. QED
    BY <1>2, <1>3

(* ----------------------- the steps of the merge ---------------------- *)

SideStates(V, n, H) == [left : SUBSET H, took : BOOLEAN, out : Seq(V), at : 1..(n + 1)]
MergeStates(V, n, H, G) ==
    [text : Seq(V), from : 1..(n + 1), conflict : BOOLEAN,
     start : 1..(n + 1), end : 1..(n + 1),
     ours : SideStates(V, n, H), theirs : SideStates(V, n, G)]

(* H and G are changes of a; the lines of all texts are in V. *)
Changes(V, a, H, G) ==
    /\ a \in Seq(V)
    /\ {Yours, Equals, Theirs} \subseteq V
    /\ Separate(H, Len(a), V) /\ Separate(G, Len(a), V)

(* A region without a hunk is empty, and starts where the next hunk does.   *)
Begun(m, side) == ~side.took => side.out = <<>> /\ side.at = m.start
Empty(m) == ~m.ours.took /\ ~m.theirs.took
Left1(m) == m.ours.left \cup m.theirs.left
Forming(m) ==
    /\ m.start <= m.end
    /\ Begun(m, m.ours) /\ Begun(m, m.theirs)
    /\ Empty(m) => m.end = m.start /\ (Left1(m) # {} => m.start = First(Left1(m)).from)

(* What a side has when it took its first hunk.                             *)
LEMMA TakenIs ==
  ASSUME NEW V, NEW a, NEW H, NEW G, Changes(V, a, H, G),
         NEW side \in SideStates(V, Len(a), H), side.left # {},
         NEW h, h = First(side.left)
  PROVE  /\ h \in side.left /\ h \in H
         /\ h.from \in 1..(Len(a) + 1) /\ h.to \in 0..Len(a) /\ h.from <= h.to + 1
         /\ h.by \in Seq(V)
         /\ h.to + 1 \in 1..(Len(a) + 1)
         /\ Taken(a, side) \in SideStates(V, Len(a), H)
         /\ Taken(a, side).left = side.left \ {h}
         /\ Taken(a, side).took
         /\ Taken(a, side).out = side.out \o SubSeq(a, side.at, h.from - 1) \o h.by
         /\ Taken(a, side).at = h.to + 1
         /\ SubSeq(a, side.at, h.from - 1) \in Seq(V)
         /\ side.out \in Seq(V)
  <1>1. a \in Seq(V) /\ Separate(H, Len(a), V) /\ Len(a) \in Nat
    BY DEF Changes
  <1>2. /\ side.left \subseteq H /\ side.took \in BOOLEAN /\ side.out \in Seq(V)
        /\ side.at \in 1..(Len(a) + 1)
    BY DEF SideStates
  <1>3. h \in side.left
    BY <1>1, <1>2, FirstIs
  <1>4. /\ h \in H /\ h.from \in 1..(Len(a) + 1) /\ h.to \in 0..Len(a)
        /\ h.by \in Seq(V) /\ h.from <= h.to + 1
    BY <1>1, <1>2, <1>3 DEF Separate
  <1>5. h.to + 1 \in 1..(Len(a) + 1)
    BY <1>1, <1>4
  <1>6. SubSeq(a, side.at, h.from - 1) \in Seq(V)
    <2>1. side.at \in Nat \ {0} /\ h.from - 1 \in Int /\ h.from - 1 <= Len(a)
      BY <1>1, <1>2, <1>4
    <2>2. QED
      BY <1>1, <2>1, Piece
  <1>7. side.out \o SubSeq(a, side.at, h.from - 1) \o h.by \in Seq(V)
    BY <1>2, <1>4, <1>6, RangeConcat
  <1>8. Taken(a, side) =
          [left |-> side.left \ {h}, took |-> TRUE,
           out |-> side.out \o SubSeq(a, side.at, h.from - 1) \o h.by, at |-> h.to + 1]
    BY DEF Taken
  <1>9. Taken(a, side) \in SideStates(V, Len(a), H)
    <2>1. side.left \ {h} \in SUBSET H
      BY <1>2
    <2>2. QED
      BY <1>5, <1>7, <1>8, <2>1 DEF SideStates
  <1>10. /\ Taken(a, side).left = side.left \ {h} /\ Taken(a, side).took
         /\ Taken(a, side).out = side.out \o SubSeq(a, side.at, h.from - 1) \o h.by
         /\ Taken(a, side).at = h.to + 1
    <2> DEFINE out == side.out \o SubSeq(a, side.at, h.from - 1) \o h.by
               at == h.to + 1
               left == side.left \ {h}
    <2>1. Taken(a, side) = [left |-> left, took |-> TRUE, out |-> out, at |-> at]
      BY <1>8
    <2> HIDE DEF out, at, left
    <2>2. /\ Taken(a, side).left = left /\ Taken(a, side).took
          /\ Taken(a, side).out = out /\ Taken(a, side).at = at
      BY <2>1
    <2>3. QED
      BY <2>2 DEF out, at, left
  <1>11. side.out \in Seq(V)
    BY <1>2
  <1>12. QED
    BY <1>3, <1>4, <1>5, <1>6, <1>9, <1>10, <1>11, Zenon

(* The fields of a state of the merge.                                      *)
LEMMA Fields ==
  ASSUME NEW V, NEW n, NEW H, NEW G, NEW m \in MergeStates(V, n, H, G)
  PROVE  /\ m.text \in Seq(V) /\ m.from \in 1..(n + 1) /\ m.conflict \in BOOLEAN
         /\ m.start \in 1..(n + 1) /\ m.end \in 1..(n + 1)
         /\ m.ours \in SideStates(V, n, H) /\ m.theirs \in SideStates(V, n, G)
         /\ m.ours.left \subseteq H /\ m.ours.took \in BOOLEAN /\ m.ours.out \in Seq(V)
         /\ m.ours.at \in 1..(n + 1)
         /\ m.theirs.left \subseteq G /\ m.theirs.took \in BOOLEAN
         /\ m.theirs.out \in Seq(V) /\ m.theirs.at \in 1..(n + 1)
  BY DEF MergeStates, SideStates

(* A hunk of ours, or of theirs, joins the region.                          *)
OursJoins(a, m, m2) ==
    /\ Joining(m, m.ours)
    /\ m2.ours = Taken(a, m.ours) /\ m2.end = Past(m, m.ours)
    /\ m2.theirs = m.theirs /\ m2.start = m.start
    /\ m2.text = m.text /\ m2.from = m.from /\ m2.conflict = m.conflict
TheirsJoins(a, m, m2) ==
    /\ ~Joining(m, m.ours) /\ Joining(m, m.theirs)
    /\ m2.theirs = Taken(a, m.theirs) /\ m2.end = Past(m, m.theirs)
    /\ m2.ours = m.ours /\ m2.start = m.start
    /\ m2.text = m.text /\ m2.from = m.from /\ m2.conflict = m.conflict
Settles(a, m, m2) ==
    LET ob == Applied(a, m, m.ours)
        oc == Applied(a, m, m.theirs)
    IN  /\ ~Joining(m, m.ours) /\ ~Joining(m, m.theirs) /\ ~Empty(m)
        /\ m2.text = m.text \o SubSeq(a, m.from, m.start - 1) \o Settled(m, ob, oc)
        /\ m2.from = m.end
        /\ m2.conflict = (m.conflict \/ Clash(m, ob, oc))
        /\ m2.start = IF Left1(m) = {} THEN Len(a) + 1 ELSE First(Left1(m)).from
        /\ m2.end = m2.start
        /\ m2.ours = Unchanged(m.ours.left, m2.start)
        /\ m2.theirs = Unchanged(m.theirs.left, m2.start)
Stays(m, m2) == ~Joining(m, m.ours) /\ ~Joining(m, m.theirs) /\ Empty(m) /\ m2 = m

(* A step is one of the four.                                               *)
LEMMA StepIs ==
  ASSUME NEW V, NEW a, NEW H, NEW G, NEW m \in MergeStates(V, Len(a), H, G),
         NEW m2, m2 = Step(a, m)
  PROVE  OursJoins(a, m, m2) \/ TheirsJoins(a, m, m2) \/ Settles(a, m, m2) \/ Stays(m, m2)
  <1>1. CASE Joining(m, m.ours)
    <2>1. m2 = [m EXCEPT !.ours = Taken(a, @), !.end = Past(m, m.ours)]
      BY <1>1 DEF Step
    <2>2. QED
      BY <1>1, <2>1 DEF OursJoins, MergeStates
  <1>2. CASE ~Joining(m, m.ours) /\ Joining(m, m.theirs)
    <2>1. m2 = [m EXCEPT !.theirs = Taken(a, @), !.end = Past(m, m.theirs)]
      BY <1>2 DEF Step
    <2>2. QED
      BY <1>2, <2>1 DEF TheirsJoins, MergeStates
  <1>3. CASE ~Joining(m, m.ours) /\ ~Joining(m, m.theirs) /\ ~Empty(m)
    <2> DEFINE ob == Applied(a, m, m.ours)
               oc == Applied(a, m, m.theirs)
               text == m.text \o SubSeq(a, m.from, m.start - 1) \o Settled(m, ob, oc)
               clash == m.conflict \/ Clash(m, ob, oc)
               k == [m EXCEPT !.text = text, !.from = m.end, !.conflict = clash]
               start == IF Left1(m) = {} THEN Len(a) + 1 ELSE First(Left1(m)).from
    <2>1. m2 = Opened(a, k)
      <3>1. m.ours.took \/ m.theirs.took
        BY <1>3 DEF Empty
      <3>2. m2 = Settle(a, m)
        BY <1>3, <3>1 DEF Step
      <3>3. QED
        BY <3>2, Zenon DEF Settle
    <2> HIDE DEF text, clash
    <2>2. /\ k.ours = m.ours /\ k.theirs = m.theirs
      BY DEF MergeStates
    <2>3. m2 = [k EXCEPT !.start = start, !.end = start,
                         !.ours = Unchanged(m.ours.left, start),
                         !.theirs = Unchanged(m.theirs.left, start)]
      <3> HIDE DEF k
      <3>1. m2 = [k EXCEPT !.start = start, !.end = start,
                           !.ours = Unchanged(k.ours.left, start),
                           !.theirs = Unchanged(k.theirs.left, start)]
        BY <2>1, <2>2 DEF Opened, Left1
      <3>2. QED
        BY <2>2, <3>1
    <2> HIDE DEF start
    <2>4. /\ m2.text = text /\ m2.from = m.end /\ m2.conflict = clash
          /\ m2.start = start /\ m2.end = start
          /\ m2.ours = Unchanged(m.ours.left, start)
          /\ m2.theirs = Unchanged(m.theirs.left, start)
      BY <2>3 DEF MergeStates
    <2>5. QED
      BY <1>3, <2>4 DEF Settles, text, clash, start
  <1>4. CASE ~Joining(m, m.ours) /\ ~Joining(m, m.theirs) /\ Empty(m)
    <2>1. m2 = m
      BY <1>4 DEF Step, Empty
    <2>2. QED
      BY <1>4, <2>1 DEF Stays
  <1>5. QED
    BY <1>1, <1>2, <1>3, <1>4

(* What a side makes of the region is a text that has what it gathered.     *)
LEMMA AppliedIs ==
  ASSUME NEW V, NEW a, NEW H, NEW G, Changes(V, a, H, G),
         NEW m \in MergeStates(V, Len(a), H, G),
         NEW K, NEW side \in SideStates(V, Len(a), K)
  PROVE  /\ Applied(a, m, side) \in Seq(V)
         /\ Range(Applied(a, m, side)) =
                Range(side.out) \cup Range(SubSeq(a, side.at, m.end - 1))
  <1>1. a \in Seq(V) /\ Len(a) \in Nat
    BY DEF Changes
  <1>2. side.out \in Seq(V) /\ side.at \in 1..(Len(a) + 1) /\ m.end \in 1..(Len(a) + 1)
    BY Fields DEF SideStates
  <1>3. SubSeq(a, side.at, m.end - 1) \in Seq(V)
    <2>1. side.at \in Nat \ {0} /\ m.end - 1 \in Int /\ m.end - 1 <= Len(a)
      BY <1>1, <1>2
    <2>2. QED
      BY <1>1, <2>1, Piece
  <1>4. QED
    <2> DEFINE piece == SubSeq(a, side.at, m.end - 1)
    <2>1. Applied(a, m, side) = side.out \o piece
      BY DEF Applied
    <2>2. piece \in Seq(V)
      BY <1>3
    <2> HIDE DEF piece
    <2>3. side.out \o piece \in Seq(V) /\ Range(side.out \o piece) = Range(side.out) \cup Range(piece)
      BY <1>2, <2>2, RangeConcat
    <2>4. QED
      BY <2>1, <2>3 DEF piece

(* What is stored of a region has the lines of each side that changed it,   *)
(* and what the two have in common.                                         *)
LEMMA SettledIs ==
  ASSUME NEW V, {Yours, Equals, Theirs} \subseteq V, NEW m,
         m.ours.took \in BOOLEAN, m.theirs.took \in BOOLEAN, ~Empty(m),
         NEW ob \in Seq(V), NEW oc \in Seq(V)
  PROVE  /\ Settled(m, ob, oc) \in Seq(V)
         /\ m.ours.took => Range(ob) \subseteq Range(Settled(m, ob, oc))
         /\ m.theirs.took => Range(oc) \subseteq Range(Settled(m, ob, oc))
  <1>1. CASE ~m.theirs.took \/ ob = oc
    BY <1>1 DEF Settled, Empty
  <1>2. CASE m.theirs.took /\ ob # oc /\ ~m.ours.took
    BY <1>2 DEF Settled, Empty
  <1>3. CASE m.theirs.took /\ ob # oc /\ m.ours.took /\ m.start = m.end
    <2>1. Settled(m, ob, oc) = ob \o oc
      BY <1>3 DEF Settled
    <2>2. QED
      BY <2>1, RangeConcat
  <1>4. CASE m.theirs.took /\ ob # oc /\ m.ours.took /\ m.start # m.end
    <2> DEFINE u == <<Yours>>
               v == <<Equals>>
               w == <<Theirs>>
               y == u \o ob
               e == y \o v
               t == e \o oc
    <2>1. Settled(m, ob, oc) = t \o w
      BY <1>4 DEF Settled
    <2>2. u \in Seq(V) /\ v \in Seq(V) /\ w \in Seq(V)
      OBVIOUS
    <2> HIDE DEF u, v, w
    <2>3. y \in Seq(V) /\ Range(ob) \subseteq Range(y)
      <3>1. u \o ob \in Seq(V) /\ Range(u \o ob) = Range(u) \cup Range(ob)
        BY <2>2, RangeConcat
      <3>2. QED
        BY <3>1
    <2> HIDE DEF y
    <2>4. e \in Seq(V) /\ Range(ob) \subseteq Range(e)
      <3>1. y \o v \in Seq(V) /\ Range(y \o v) = Range(y) \cup Range(v)
        BY <2>2, <2>3, RangeConcat
      <3>2. QED
        BY <2>3, <3>1
    <2> HIDE DEF e
    <2>5. t \in Seq(V) /\ Range(ob) \subseteq Range(t) /\ Range(oc) \subseteq Range(t)
      <3>1. e \o oc \in Seq(V) /\ Range(e \o oc) = Range(e) \cup Range(oc)
        BY <2>4, RangeConcat
      <3>2. QED
        BY <2>4, <3>1
    <2> HIDE DEF t
    <2>6. t \o w \in Seq(V) /\ Range(t \o w) = Range(t) \cup Range(w)
      BY <2>2, <2>5, RangeConcat
    <2>7. QED
      BY <2>1, <2>5, <2>6
  <1>5. QED
    BY <1>1, <1>2, <1>3, <1>4

(* The text of a region, before and behind. *)
LEMMA SettlesText ==
  ASSUME NEW V, NEW a, NEW H, NEW G, Changes(V, a, H, G),
         NEW m \in MergeStates(V, Len(a), H, G), NEW m2, Settles(a, m, m2)
  PROVE  /\ m2.text \in Seq(V)
         /\ Range(m.text) \subseteq Range(m2.text)
         /\ Range(SubSeq(a, m.from, m.start - 1)) \subseteq Range(m2.text)
         /\ m.ours.took => Range(Applied(a, m, m.ours)) \subseteq Range(m2.text)
         /\ m.theirs.took => Range(Applied(a, m, m.theirs)) \subseteq Range(m2.text)
  <1> DEFINE ob == Applied(a, m, m.ours)
             oc == Applied(a, m, m.theirs)
             s == Settled(m, ob, oc)
             c == SubSeq(a, m.from, m.start - 1)
  <1>1. a \in Seq(V) /\ Len(a) \in Nat /\ {Yours, Equals, Theirs} \subseteq V
    BY DEF Changes
  <1>2. ob \in Seq(V) /\ oc \in Seq(V)
    <2>1. m.ours \in SideStates(V, Len(a), H) /\ m.theirs \in SideStates(V, Len(a), G)
      BY Fields
    <2>2. QED
      BY <2>1, AppliedIs
  <1>3. ~Empty(m) /\ m2.text = m.text \o c \o s
    BY DEF Settles
  <1>4. c \in Seq(V)
    <2>1. m.from \in Nat \ {0} /\ m.start - 1 \in Int /\ m.start - 1 <= Len(a)
      BY <1>1, Fields
    <2>2. QED
      BY <1>1, <2>1, Piece
  <1>5. m.text \in Seq(V) /\ m.ours.took \in BOOLEAN /\ m.theirs.took \in BOOLEAN
    BY Fields
  <1> HIDE DEF ob, oc, c
  <1>6. /\ s \in Seq(V)
        /\ m.ours.took => Range(ob) \subseteq Range(s)
        /\ m.theirs.took => Range(oc) \subseteq Range(s)
    BY <1>1, <1>2, <1>3, <1>5, SettledIs
  <1> HIDE DEF s
  <1>7. m.text \o c \in Seq(V) /\ Range(m.text \o c) = Range(m.text) \cup Range(c)
    BY <1>4, <1>5, RangeConcat
  <1> DEFINE before == m.text \o c
  <1>8. before \in Seq(V) /\ Range(before) = Range(m.text) \cup Range(c)
        /\ m2.text = before \o s
    BY <1>3, <1>7
  <1> HIDE DEF before
  <1>9. before \o s \in Seq(V) /\ Range(before \o s) = Range(before) \cup Range(s)
    BY <1>6, <1>8, RangeConcat
  <1>10. QED
    BY <1>6, <1>8, <1>9 DEF ob, oc, c

(* The types of what a hunk that joins changes.                             *)
LEMMA TookIs ==
  ASSUME NEW V, NEW a, NEW H, NEW G, Changes(V, a, H, G),
         NEW side \in SideStates(V, Len(a), H), side.left # {}
  PROVE  /\ First(side.left) \in side.left
         /\ Taken(a, side).left = side.left \ {First(side.left)}
         /\ Taken(a, side).took
  <1> DEFINE h == First(side.left)
  <1>1. h = First(side.left)
    OBVIOUS
  <1> HIDE DEF h
  <1>2. h \in side.left /\ Taken(a, side).left = side.left \ {h} /\ Taken(a, side).took
    BY <1>1, TakenIs
  <1>3. QED
    BY <1>1, <1>2

LEMMA PastIs ==
  ASSUME NEW V, NEW a, NEW H, NEW G, Changes(V, a, H, G),
         NEW m \in MergeStates(V, Len(a), H, G),
         NEW K, Separate(K, Len(a), V),
         NEW side \in SideStates(V, Len(a), K), side.left # {}
  PROVE  /\ Past(m, side) \in 1..(Len(a) + 1) /\ m.end <= Past(m, side)
         /\ First(side.left).to + 1 <= Past(m, side)
         /\ Past(m, side) = m.end \/ Past(m, side) = First(side.left).to + 1
  <1> DEFINE h == First(side.left)
  <1>1. a \in Seq(V) /\ Len(a) \in Nat
    BY DEF Changes
  <1>2. h \in K
    <2>1. side.left \subseteq K
      BY DEF SideStates
    <2>2. QED
      BY <1>1, <2>1, FirstIs
  <1> HIDE DEF h
  <1>3. h.to \in 0..Len(a)
    BY <1>2 DEF Separate
  <1>4. m.end \in 1..(Len(a) + 1)
    BY Fields
  <1>5. Past(m, side) = IF h.to + 1 > m.end THEN h.to + 1 ELSE m.end
    BY DEF Past, h
  <1>6. QED
    BY <1>1, <1>3, <1>4, <1>5 DEF h

(* The fields of a side at the start of a region.                           *)
LEMMA UnchangedIs ==
  ASSUME NEW left, NEW start
  PROVE  /\ Unchanged(left, start).left = left /\ ~Unchanged(left, start).took
         /\ Unchanged(left, start).out = <<>> /\ Unchanged(left, start).at = start
  BY DEF Unchanged

LEMMA UnchangedType ==
  ASSUME NEW V, NEW n, NEW H, NEW left, left \subseteq H, NEW start \in 1..(n + 1)
  PROVE  Unchanged(left, start) \in SideStates(V, n, H)
  BY DEF Unchanged, SideStates

(* The region to come starts with the next hunk of either side. *)
LEMMA NextStart ==
  ASSUME NEW V, NEW a, NEW H, NEW G, Changes(V, a, H, G),
         NEW L, L \subseteq H \cup G
  PROVE  /\ (IF L = {} THEN Len(a) + 1 ELSE First(L).from) \in 1..(Len(a) + 1)
         /\ L # {} => First(L) \in L /\ \A g \in L : First(L).from <= g.from
  <1>1. /\ Len(a) \in Nat /\ Separate(H, Len(a), V) /\ Separate(G, Len(a), V)
    BY DEF Changes
  <1>2. CASE L = {}
    BY <1>1, <1>2
  <1>3. CASE L # {}
    <2>1. First(L) \in L /\ \A g \in L : First(L).from <= g.from
      BY <1>1, <1>3, FirstIs
    <2>2. First(L).from \in 1..(Len(a) + 1)
      BY <1>1, <2>1 DEF Separate
    <2>3. QED
      BY <1>3, <2>1, <2>2
  <1>4. QED
    BY <1>2, <1>3

(* Steps keep the types, and say where a region is.                         *)
LEMMA StepType ==
  ASSUME NEW V, NEW a, NEW H, NEW G, Changes(V, a, H, G),
         NEW m \in MergeStates(V, Len(a), H, G)
  PROVE  Step(a, m) \in MergeStates(V, Len(a), H, G)
  <1> DEFINE m2 == Step(a, m)
  <1>1. /\ a \in Seq(V) /\ Len(a) \in Nat
        /\ Separate(H, Len(a), V) /\ Separate(G, Len(a), V)
    BY DEF Changes
  <1>2. CASE Joining(m, m.ours)
    <2> DEFINE t == Taken(a, m.ours)
               e == Past(m, m.ours)
    <2>1. m.ours.left # {} /\ m.ours \in SideStates(V, Len(a), H)
      BY <1>2, Fields DEF Joining
    <2>2. t \in SideStates(V, Len(a), H)
      BY <2>1, TakenIs
    <2>3. e \in 1..(Len(a) + 1)
      BY <1>1, <2>1, PastIs
    <2>4. m2 = [m EXCEPT !.ours = t, !.end = e]
      BY <1>2 DEF Step
    <2> HIDE DEF t, e, m2
    <2>5. QED
      BY <2>2, <2>3, <2>4 DEF MergeStates, m2
  <1>3. CASE ~Joining(m, m.ours) /\ Joining(m, m.theirs)
    <2> DEFINE t == Taken(a, m.theirs)
               e == Past(m, m.theirs)
    <2>1. m.theirs.left # {} /\ m.theirs \in SideStates(V, Len(a), G)
      BY <1>3, Fields DEF Joining
    <2>2. t \in SideStates(V, Len(a), G)
      <3>1. Changes(V, a, G, H)
        BY DEF Changes
      <3>2. QED
        BY <2>1, <3>1, TakenIs
    <2>3. e \in 1..(Len(a) + 1)
      BY <1>1, <2>1, PastIs
    <2>4. m2 = [m EXCEPT !.theirs = t, !.end = e]
      BY <1>3 DEF Step
    <2> HIDE DEF t, e, m2
    <2>5. QED
      BY <2>2, <2>3, <2>4 DEF MergeStates, m2
  <1>4. CASE ~Joining(m, m.ours) /\ ~Joining(m, m.theirs) /\ ~Empty(m)
    <2>1. Settles(a, m, m2)
      BY <1>4, StepIs DEF OursJoins, TheirsJoins, Stays
    <2>2. m2.text \in Seq(V)
      BY <2>1, SettlesText
    <2>3. m2.start \in 1..(Len(a) + 1)
      <3>1. Left1(m) \subseteq H \cup G
        BY Fields DEF Left1
      <3>2. m2.start = IF Left1(m) = {} THEN Len(a) + 1 ELSE First(Left1(m)).from
        BY <2>1 DEF Settles
      <3>3. QED
        BY <3>1, <3>2, NextStart
    <2>4. /\ Unchanged(m.ours.left, m2.start) \in SideStates(V, Len(a), H)
          /\ Unchanged(m.theirs.left, m2.start) \in SideStates(V, Len(a), G)
      BY <2>3, Fields, UnchangedType
    <2>5. m2.conflict \in BOOLEAN
      <3>1. m2.conflict = (m.conflict \/ Clash(m, Applied(a, m, m.ours), Applied(a, m, m.theirs)))
        BY <2>1 DEF Settles
      <3>2. QED
        BY <3>1
    <2>6. m2.from \in 1..(Len(a) + 1)
      BY <2>1, Fields DEF Settles
    <2>7. \E text, from, conflict, start, ours, theirs :
             m2 = [m EXCEPT !.text = text, !.from = from, !.conflict = conflict,
                            !.start = start, !.end = start,
                            !.ours = ours, !.theirs = theirs]
      <3> DEFINE text == m.text \o SubSeq(a, m.from, m.start - 1)
                            \o Settled(m, Applied(a, m, m.ours), Applied(a, m, m.theirs))
                 clash == m.conflict \/ Clash(m, Applied(a, m, m.ours), Applied(a, m, m.theirs))
                 k == [m EXCEPT !.text = text, !.from = m.end, !.conflict = clash]
                 start == IF k.ours.left \cup k.theirs.left = {} THEN Len(a) + 1
                          ELSE First(k.ours.left \cup k.theirs.left).from
                 ours == Unchanged(k.ours.left, start)
                 theirs == Unchanged(k.theirs.left, start)
      <3>1. m2 = Settle(a, m)
        BY <1>4 DEF Step, Empty
      <3>2. m2 = Opened(a, k)
        BY <3>1, Zenon DEF Settle
      <3>3. m2 = [k EXCEPT !.start = start, !.end = start, !.ours = ours, !.theirs = theirs]
        <4> HIDE DEF k
        <4> QED BY <3>2, Zenon DEF Opened
      <3> HIDE DEF text, clash, start, ours, theirs, m2
      <3>4. m2 = [m EXCEPT !.text = text, !.from = m.end, !.conflict = clash,
                           !.start = start, !.end = start,
                           !.ours = ours, !.theirs = theirs]
        BY <3>3 DEF MergeStates
      <3>5. QED
        BY <3>4
    <2>8. PICK text, from, conflict, start, ours, theirs :
             m2 = [m EXCEPT !.text = text, !.from = from, !.conflict = conflict,
                            !.start = start, !.end = start,
                            !.ours = ours, !.theirs = theirs]
      BY <2>7
    <2>9. /\ m2.ours = Unchanged(m.ours.left, m2.start)
          /\ m2.theirs = Unchanged(m.theirs.left, m2.start)
      BY <2>1 DEF Settles
    <2> HIDE DEF m2
    <2>10. /\ m2.text = text /\ m2.from = from /\ m2.conflict = conflict
           /\ m2.start = start /\ m2.ours = ours /\ m2.theirs = theirs
      BY <2>8 DEF MergeStates
    <2>11. /\ text \in Seq(V) /\ from \in 1..(Len(a) + 1) /\ conflict \in BOOLEAN
           /\ start \in 1..(Len(a) + 1)
           /\ ours \in SideStates(V, Len(a), H) /\ theirs \in SideStates(V, Len(a), G)
      BY <2>2, <2>3, <2>4, <2>5, <2>6, <2>9, <2>10
    <2>12. m2 \in MergeStates(V, Len(a), H, G)
      BY <2>8, <2>11 DEF MergeStates
    <2>13. QED
      BY <2>12 DEF m2
  <1>5. CASE ~Joining(m, m.ours) /\ ~Joining(m, m.theirs) /\ Empty(m)
    BY <1>5 DEF Step, Empty
  <1>6. QED
    BY <1>2, <1>3, <1>4, <1>5

(* An untouched region stays empty.                                         *)
LEMMA StepForming ==
  ASSUME NEW V, NEW a, NEW H, NEW G, Changes(V, a, H, G),
         NEW m \in MergeStates(V, Len(a), H, G), Forming(m)
  PROVE  Forming(Step(a, m))
  <1> DEFINE m2 == Step(a, m)
  <1>1. /\ a \in Seq(V) /\ Len(a) \in Nat
        /\ Separate(H, Len(a), V) /\ Separate(G, Len(a), V)
    BY DEF Changes
  <1>2. /\ m.start \in 1..(Len(a) + 1) /\ m.end \in 1..(Len(a) + 1)
        /\ m.ours \in SideStates(V, Len(a), H) /\ m.theirs \in SideStates(V, Len(a), G)
    BY Fields
  <1>3. m2 = Step(a, m)
    OBVIOUS
  <1> HIDE DEF m2
  <1>4. CASE OursJoins(a, m, m2)
    <2>1. m.ours.left # {}
      BY <1>4 DEF OursJoins, Joining
    <2>2. m2.ours.took
      BY <1>2, <1>4, <2>1, TookIs DEF OursJoins
    <2>3. m.end <= Past(m, m.ours) /\ Past(m, m.ours) \in 1..(Len(a) + 1)
      BY <1>1, <1>2, <2>1, PastIs
    <2>4. m2.start <= m2.end
      BY <1>1, <1>2, <1>4, <2>3 DEF OursJoins, Forming
    <2>5. Begun(m2, m2.ours) /\ Begun(m2, m2.theirs) /\ ~Empty(m2)
      BY <1>4, <2>2 DEF OursJoins, Forming, Begun, Empty
    <2>6. QED
      BY <2>4, <2>5, <1>3 DEF Forming
  <1>5. CASE TheirsJoins(a, m, m2)
    <2>1. m.theirs.left # {} /\ Changes(V, a, G, H)
      BY <1>5 DEF TheirsJoins, Joining, Changes
    <2>2. m2.theirs.took
      BY <1>2, <1>5, <2>1, TookIs DEF TheirsJoins
    <2>3. m.end <= Past(m, m.theirs) /\ Past(m, m.theirs) \in 1..(Len(a) + 1)
      BY <1>1, <1>2, <2>1, PastIs
    <2>4. m2.start <= m2.end
      BY <1>1, <1>2, <1>5, <2>3 DEF TheirsJoins, Forming
    <2>5. Begun(m2, m2.ours) /\ Begun(m2, m2.theirs) /\ ~Empty(m2)
      BY <1>5, <2>2 DEF TheirsJoins, Forming, Begun, Empty
    <2>6. QED
      BY <2>4, <2>5, <1>3 DEF Forming
  <1>6. CASE Settles(a, m, m2)
    <2>1. /\ m2.ours = Unchanged(m.ours.left, m2.start)
          /\ m2.theirs = Unchanged(m.theirs.left, m2.start)
          /\ m2.end = m2.start
          /\ m2.start = IF Left1(m) = {} THEN Len(a) + 1 ELSE First(Left1(m)).from
      BY <1>6 DEF Settles
    <2>2. m2.start \in 1..(Len(a) + 1)
      BY <1>1, <1>3, StepType, Fields
    <2>3. Left1(m2) = Left1(m)
      BY <2>1, UnchangedIs DEF Left1
    <2>4. Begun(m2, m2.ours) /\ Begun(m2, m2.theirs)
      BY <2>1, UnchangedIs DEF Begun
    <2>5. QED
      BY <1>3, <2>1, <2>2, <2>3, <2>4 DEF Forming
  <1>7. CASE Stays(m, m2)
    BY <1>7, <1>3 DEF Stays
  <1>8. QED
    BY <1>3, <1>4, <1>5, <1>6, <1>7, StepIs

(* The hunk a region starts with joins it: "first hunk starts here by       *)
(* construction", and the merge's RuntimeError is out of reach.             *)
THEOREM Progress ==
  ASSUME NEW V, NEW a, NEW H, NEW G, Changes(V, a, H, G),
         NEW m \in MergeStates(V, Len(a), H, G), Forming(m), Empty(m), Left1(m) # {}
  PROVE  Joining(m, m.ours) \/ Joining(m, m.theirs)
  <1>1. /\ Len(a) \in Nat /\ Separate(H, Len(a), V) /\ Separate(G, Len(a), V)
    BY DEF Changes
  <1>2. m.end = m.start /\ m.start = First(Left1(m)).from /\ m.start \in 1..(Len(a) + 1)
    BY Fields DEF Forming
  <1>3. m.ours.left \subseteq H /\ m.theirs.left \subseteq G
    BY Fields
  <1>4. /\ First(Left1(m)) \in Left1(m)
        /\ \A g \in Left1(m) : First(Left1(m)).from <= g.from
    BY <1>1, <1>3, FirstIs DEF Left1
  <1>5. ASSUME NEW left, left \subseteq Left1(m), First(Left1(m)) \in left
        PROVE  Joins(First(left), m.start, m.end)
    <2>1. First(left) \in left /\ First(left).from <= First(Left1(m)).from
      BY <1>1, <1>3, <1>5, FirstIs DEF Left1
    <2>2. First(Left1(m)).from <= First(left).from
      BY <1>4, <1>5, <2>1
    <2>3. First(left).from \in Nat /\ First(Left1(m)).from \in Nat
      BY <1>1, <1>3, <1>4, <1>5, <2>1 DEF Separate, Left1
    <2>4. First(left).from = m.start
      BY <1>2, <2>1, <2>2, <2>3
    <2>5. QED
      BY <1>2, <2>4 DEF Joins
  <1>6. CASE First(Left1(m)) \in m.ours.left
    BY <1>5, <1>6 DEF Joining, Left1
  <1>7. CASE First(Left1(m)) \in m.theirs.left
    BY <1>5, <1>7 DEF Joining, Left1
  <1>8. QED
    BY <1>4, <1>6, <1>7 DEF Left1

(* How many steps are left at most.                                         *)
Weight(m) ==
    2 * (Cardinality(m.ours.left) + Cardinality(m.theirs.left))
    + (IF Empty(m) THEN 0 ELSE 1)
Ended(m) == Left1(m) = {} /\ Empty(m)

(* The weight is a number.                                                  *)
LEMMA WeightIs ==
  ASSUME NEW V, NEW a, NEW H, NEW G, Changes(V, a, H, G),
         NEW m \in MergeStates(V, Len(a), H, G)
  PROVE  /\ IsFiniteSet(m.ours.left) /\ IsFiniteSet(m.theirs.left)
         /\ Cardinality(m.ours.left) \in Nat /\ Cardinality(m.theirs.left) \in Nat
         /\ Weight(m) \in Nat
         /\ Weight(m) = 0 <=> Ended(m)
  <1>1. /\ Len(a) \in Nat /\ Separate(H, Len(a), V) /\ Separate(G, Len(a), V)
    BY DEF Changes
  <1>2. IsFiniteSet(H) /\ IsFiniteSet(G)
    BY <1>1, SeparateFinite
  <1>3. IsFiniteSet(m.ours.left) /\ IsFiniteSet(m.theirs.left)
    BY <1>2, Fields, FS_Subset
  <1> DEFINE o == Cardinality(m.ours.left)
             t == Cardinality(m.theirs.left)
  <1>4. o \in Nat /\ t \in Nat /\ (o = 0 <=> m.ours.left = {}) /\ (t = 0 <=> m.theirs.left = {})
    BY <1>3, FS_CardinalityType, FS_EmptySet
  <1>5. Weight(m) = 2 * (o + t) + (IF Empty(m) THEN 0 ELSE 1)
    BY DEF Weight
  <1> HIDE DEF o, t
  <1>6. Weight(m) \in Nat /\ (Weight(m) = 0 <=> o = 0 /\ t = 0 /\ Empty(m))
    BY <1>4, <1>5
  <1>7. Weight(m) = 0 <=> Ended(m)
    BY <1>4, <1>6 DEF Ended, Left1
  <1>8. QED
    BY <1>3, <1>4, <1>6, <1>7 DEF o, t

(* Each step that is not the last makes it less.                            *)
LEMMA StepDown ==
  ASSUME NEW V, NEW a, NEW H, NEW G, Changes(V, a, H, G),
         NEW m \in MergeStates(V, Len(a), H, G), Forming(m)
  PROVE  /\ Weight(m) # 0 => Weight(Step(a, m)) < Weight(m)
         /\ Weight(m) = 0 => Weight(Step(a, m)) = 0
  <1> DEFINE m2 == Step(a, m)
             o == Cardinality(m.ours.left)
             t == Cardinality(m.theirs.left)
             o2 == Cardinality(m2.ours.left)
             t2 == Cardinality(m2.theirs.left)
  <1>1. m2 \in MergeStates(V, Len(a), H, G) /\ m2 = Step(a, m)
    BY StepType
  <1>2. /\ m.ours \in SideStates(V, Len(a), H) /\ m.theirs \in SideStates(V, Len(a), G)
        /\ IsFiniteSet(m.ours.left) /\ IsFiniteSet(m.theirs.left)
        /\ Weight(m) \in Nat /\ (Weight(m) = 0 <=> Ended(m))
    BY WeightIs, Fields
  <1> HIDE DEF m2
  <1>3. o \in Nat /\ t \in Nat /\ o2 \in Nat /\ t2 \in Nat
    BY <1>1, WeightIs
  <1>4. /\ Weight(m) = 2 * (o + t) + (IF Empty(m) THEN 0 ELSE 1)
        /\ Weight(m2) = 2 * (o2 + t2) + (IF Empty(m2) THEN 0 ELSE 1)
    BY DEF Weight
  <1>5. CASE OursJoins(a, m, m2)
    <2>1. m.ours.left # {}
      BY <1>5 DEF OursJoins, Joining
    <2>2. First(m.ours.left) \in m.ours.left
      BY <1>2, <2>1, TookIs
    <2>3. m2.ours.left = m.ours.left \ {First(m.ours.left)} /\ m2.ours.took
      BY <1>2, <1>5, <2>1, TookIs DEF OursJoins
    <2>4. o2 = o - 1
      <3>1. m2.ours.left = m.ours.left \ {First(m.ours.left)}
        BY <2>3
      <3>2. Cardinality(m.ours.left \ {First(m.ours.left)}) = Cardinality(m.ours.left) - 1
        BY <1>2, <2>2, FS_RemoveElement
      <3>3. QED
        BY <3>1, <3>2
    <2>5. t2 = t /\ ~Empty(m2)
      BY <1>5, <2>3 DEF OursJoins, Empty
    <2>6. ~Ended(m)
      BY <2>1 DEF Ended, Left1
    <2> HIDE DEF o, t, o2, t2
    <2>7. Weight(m2) < Weight(m)
      BY <1>3, <1>4, <2>4, <2>5
    <2>8. QED
      BY <1>1, <1>2, <2>6, <2>7
  <1>6. CASE TheirsJoins(a, m, m2)
    <2>1. m.theirs.left # {} /\ Changes(V, a, G, H)
      BY <1>6 DEF TheirsJoins, Joining, Changes
    <2>2. First(m.theirs.left) \in m.theirs.left
      BY <1>2, <2>1, TookIs
    <2>3. m2.theirs.left = m.theirs.left \ {First(m.theirs.left)} /\ m2.theirs.took
      BY <1>2, <1>6, <2>1, TookIs DEF TheirsJoins
    <2>4. t2 = t - 1
      <3>1. m2.theirs.left = m.theirs.left \ {First(m.theirs.left)}
        BY <2>3
      <3>2. Cardinality(m.theirs.left \ {First(m.theirs.left)}) = Cardinality(m.theirs.left) - 1
        BY <1>2, <2>2, FS_RemoveElement
      <3>3. QED
        BY <3>1, <3>2
    <2>5. o2 = o /\ ~Empty(m2)
      BY <1>6, <2>3 DEF TheirsJoins, Empty
    <2>6. ~Ended(m)
      BY <2>1 DEF Ended, Left1
    <2> HIDE DEF o, t, o2, t2
    <2>7. Weight(m2) < Weight(m)
      BY <1>3, <1>4, <2>4, <2>5
    <2>8. QED
      BY <1>1, <1>2, <2>6, <2>7
  <1>7. CASE Settles(a, m, m2)
    <2>1. /\ m2.ours = Unchanged(m.ours.left, m2.start)
          /\ m2.theirs = Unchanged(m.theirs.left, m2.start)
          /\ ~Empty(m)
      BY <1>7 DEF Settles
    <2>2. /\ m2.ours.left = m.ours.left /\ m2.theirs.left = m.theirs.left
          /\ ~m2.ours.took /\ ~m2.theirs.took
      BY <2>1, UnchangedIs
    <2>3. o2 = o /\ t2 = t /\ Empty(m2) /\ ~Ended(m)
      BY <2>1, <2>2 DEF Empty, Ended
    <2> HIDE DEF o, t, o2, t2
    <2>4. Weight(m2) < Weight(m)
      BY <1>3, <1>4, <2>1, <2>3
    <2>5. QED
      BY <1>1, <1>2, <2>3, <2>4
  <1>8. CASE Stays(m, m2)
    <2>1. Empty(m) /\ m2 = m /\ Left1(m) = {}
      BY <1>8, Progress DEF Stays
    <2>2. QED
      BY <1>1, <1>2, <2>1 DEF Ended
  <1>9. QED
    BY <1>1, <1>5, <1>6, <1>7, <1>8, StepIs

(* How the merge starts.                                                    *)
LEMMA BeginIs ==
  ASSUME NEW V, NEW a, NEW H, NEW G, Changes(V, a, H, G)
  PROVE  LET m == Begin(a, H, G)
         IN  /\ m \in MergeStates(V, Len(a), H, G)
             /\ Forming(m) /\ Empty(m)
             /\ m.text = <<>> /\ m.from = 1 /\ ~m.conflict
             /\ m.ours = Unchanged(H, m.start) /\ m.theirs = Unchanged(G, m.start)
  <1> DEFINE m == Begin(a, H, G)
             start == IF H \cup G = {} THEN Len(a) + 1 ELSE First(H \cup G).from
             k == [text |-> <<>>, from |-> 1, conflict |-> FALSE, start |-> 1, end |-> 1,
                   ours |-> Unchanged(H, 1), theirs |-> Unchanged(G, 1)]
  <1>1. Len(a) \in Nat
    BY DEF Changes
  <1>2. start \in 1..(Len(a) + 1)
    BY NextStart
  <1>3. Unchanged(H, 1).left = H /\ Unchanged(G, 1).left = G
    BY UnchangedIs
  <1>4. k.ours.left = H /\ k.theirs.left = G
    BY <1>3
  <1>5. m = [k EXCEPT !.start = start, !.end = start,
                      !.ours = Unchanged(H, start), !.theirs = Unchanged(G, start)]
    <2> DEFINE left == k.ours.left \cup k.theirs.left
               begin == IF left = {} THEN Len(a) + 1 ELSE First(left).from
    <2>1. m = [k EXCEPT !.start = begin, !.end = begin,
                        !.ours = Unchanged(k.ours.left, begin),
                        !.theirs = Unchanged(k.theirs.left, begin)]
      <3> HIDE DEF k
      <3>1. Begin(a, H, G) = Opened(a, k)
        BY DEF Begin, k
      <3>2. QED
        BY <3>1, Zenon DEF Opened
    <2> HIDE DEF k
    <2>2. left = H \cup G
      BY <1>4
    <2>3. begin = start
      BY <2>2
    <2> HIDE DEF begin, start
    <2>4. QED
      BY <1>4, <2>1, <2>3
  <1> DEFINE o == Unchanged(H, start)
             t == Unchanged(G, start)
  <1>6. o \in SideStates(V, Len(a), H) /\ t \in SideStates(V, Len(a), G)
    BY <1>2, UnchangedType
  <1>7. /\ o.left = H /\ ~o.took /\ o.out = <<>> /\ o.at = start
        /\ t.left = G /\ ~t.took /\ t.out = <<>> /\ t.at = start
    BY UnchangedIs
  <1> HIDE DEF o, t, start, m
  <1>8. m = [text |-> <<>>, from |-> 1, conflict |-> FALSE, start |-> start, end |-> start,
             ours |-> o, theirs |-> t]
    BY <1>5 DEF o, t
  <1>9. m \in MergeStates(V, Len(a), H, G)
    <2>1. <<>> \in Seq(V) /\ 1 \in 1..(Len(a) + 1) /\ FALSE \in BOOLEAN
      BY <1>1
    <2>2. QED
      BY <1>2, <1>6, <1>8, <2>1 DEF MergeStates
  <1>10. /\ m.text = <<>> /\ m.from = 1 /\ ~m.conflict
         /\ m.ours = o /\ m.theirs = t /\ m.start = start /\ m.end = start
    BY <1>8
  <1>11. Empty(m)
    BY <1>7, <1>10 DEF Empty
  <1>12. Begun(m, m.ours) /\ Begun(m, m.theirs)
    BY <1>7, <1>10 DEF Begun
  <1>13. m.end = m.start /\ (Left1(m) # {} => m.start = First(Left1(m)).from)
    BY <1>7, <1>10 DEF Left1, start
  <1>14. m.start <= m.end
    BY <1>1, <1>2, <1>10
  <1>15. QED
    BY <1>9, <1>10, <1>11, <1>12, <1>13, <1>14 DEF Forming, o, t, m

(* What holds at first and after each step of the merge holds at its end,   *)
(* when no hunk is left and no region is under way.                         *)
Merging(V, a, H, G) == {m \in MergeStates(V, Len(a), H, G) : Forming(m)}
Result(a, m) == [text |-> m.text \o SubSeq(a, m.from, Len(a)), conflict |-> m.conflict]

LEMMA MergeEnds ==
  ASSUME NEW V, NEW a, NEW b, NEW c, Changes(V, a, Hunks(a, b), Hunks(a, c)),
         NEW I \in SUBSET Merging(V, a, Hunks(a, b), Hunks(a, c)),
         Begin(a, Hunks(a, b), Hunks(a, c)) \in I,
         \A m \in I : Step(a, m) \in I
  PROVE  \E m \in I : Ended(m) /\ Merge3(a, b, c) = Result(a, m)
  <1> DEFINE H == Hunks(a, b)
             G == Hunks(a, c)
             begin == Begin(a, H, G)
             t == [n \in Nat |-> [m \in I |-> Step(a, m)]]
             Recurs(f) == f = [n \in Nat |-> IF n = 0 THEN begin ELSE Step(a, f[n - 1])]
             last == 2 * (Cardinality(H) + Cardinality(G))
             after == CHOOSE f : Recurs(f)
  <1>1. Recurs(after)
    <2>1. t \in [Nat -> [I -> I]]
      OBVIOUS
    <2>2. begin \in I
      OBVIOUS
    <2> HIDE DEF begin
    <2>3. PICK f \in [Nat -> I] : Iteration(f, begin, t)
      <3> HIDE DEF t
      <3> QED BY <2>1, <2>2, Iterates
    <2>4. \A n \in Nat : f[n + 1] = Step(a, f[n])
      BY <2>3 DEF Iteration
    <2>5. ASSUME NEW n \in Nat
          PROVE  f[n] = IF n = 0 THEN begin ELSE Step(a, f[n - 1])
      <3>1. CASE n = 0
        BY <2>3, <3>1 DEF Iteration
      <3>2. CASE n # 0
        <4>1. n - 1 \in Nat /\ (n - 1) + 1 = n
          BY <3>2
        <4>2. f[(n - 1) + 1] = Step(a, f[n - 1])
          BY <2>4, <4>1
        <4>3. QED
          BY <3>2, <4>1, <4>2
      <3>3. QED
        BY <3>1, <3>2
    <2>6. Recurs(f)
      BY <2>5
    <2> HIDE DEF Recurs
    <2>7. QED
      BY <2>6
  <1>2. Merge3(a, b, c) = Result(a, after[last])
    BY Zenon DEF Merge3, Result
  <1>3. begin \in I /\ begin \in MergeStates(V, Len(a), H, G) /\ Empty(begin)
        /\ begin.ours.left = H /\ begin.theirs.left = G
    <2>1. /\ begin \in MergeStates(V, Len(a), H, G) /\ Empty(begin)
          /\ begin.ours = Unchanged(H, begin.start) /\ begin.theirs = Unchanged(G, begin.start)
      BY BeginIs
    <2> HIDE DEF begin, H, G
    <2>2. begin.ours.left = H /\ begin.theirs.left = G
      BY <2>1, UnchangedIs
    <2>3. begin \in I
      BY DEF begin, H, G
    <2>4. QED
      BY <2>1, <2>2, <2>3
  <1>4. \A m \in I : m \in MergeStates(V, Len(a), H, G) /\ Forming(m)
    BY DEF Merging
  <1> HIDE DEF begin, H, G, after
  <1>5. after[0] = begin /\ \A n \in Nat : after[n + 1] = Step(a, after[n])
    <2>1. \A n \in Nat : after[n] = IF n = 0 THEN begin ELSE Step(a, after[n - 1])
      BY <1>1
    <2>2. ASSUME NEW n \in Nat PROVE after[n + 1] = Step(a, after[n])
      <3>1. n + 1 \in Nat /\ n + 1 # 0 /\ (n + 1) - 1 = n
        OBVIOUS
      <3>2. QED
        BY <2>1, <3>1
    <2>3. QED
      BY <2>1, <2>2
  <1>6. Changes(V, a, H, G)
    BY DEF H, G
  <1>7. last \in Nat /\ Weight(begin) = last
    <2>1. Cardinality(H) \in Nat /\ Cardinality(G) \in Nat
      BY <1>3, <1>6, WeightIs
    <2>2. Weight(begin) = 2 * (Cardinality(H) + Cardinality(G)) + 0
      BY <1>3 DEF Weight
    <2>3. QED
      BY <2>1, <2>2
  <1> HIDE DEF last
  <1> DEFINE N == {n \in Nat : after[n] \in I /\ (n <= last => Weight(after[n]) + n <= last)}
  <1>8. 0 \in N
    <2>1. after[0] \in I /\ Weight(after[0]) = last
      BY <1>3, <1>5, <1>7
    <2>2. Weight(after[0]) + 0 <= last
      BY <1>7, <2>1
    <2>3. QED
      BY <2>1, <2>2
  <1>9. ASSUME NEW n \in Nat, n \in N PROVE n + 1 \in N
    <2>1. after[n] \in I /\ after[n + 1] = Step(a, after[n])
      BY <1>5, <1>9
    <2>2. after[n + 1] \in I
      BY <2>1
    <2>3. CASE n + 1 <= last
      <3>1. Weight(after[n]) + n <= last
        BY <1>7, <1>9, <2>3
      <3>2. /\ Weight(after[n]) \in Nat /\ Weight(after[n + 1]) \in Nat
            /\ Weight(after[n]) # 0 => Weight(after[n + 1]) < Weight(after[n])
            /\ Weight(after[n]) = 0 => Weight(after[n + 1]) = 0
        BY <1>4, <1>6, <2>1, <2>2, StepDown, WeightIs
      <3>3. Weight(after[n + 1]) + (n + 1) <= last
        BY <1>7, <2>3, <3>1, <3>2
      <3>4. QED
        BY <2>2, <3>3
    <2>4. QED
      BY <2>2, <2>3
  <1>10. after[last] \in I /\ Weight(after[last]) + last <= last
    <2>1. Nat \subseteq N
      <3> HIDE DEF N
      <3> QED BY <1>8, <1>9, NatSteps
    <2>2. QED
      BY <1>7, <2>1
  <1>11. Ended(after[last])
    <2>1. Weight(after[last]) \in Nat /\ (Weight(after[last]) = 0 <=> Ended(after[last]))
      BY <1>4, <1>6, <1>10, WeightIs
    <2>2. QED
      BY <1>7, <1>10, <2>1
  <1>12. QED
    BY <1>2, <1>10, <1>11

(* --------------------------- no line is lost ------------------------- *)

(* The lines a side brings are still to come, or in what is stored so far.  *)
Added(text, side, H) ==
    \A h \in H : h \in side.left \/ Range(h.by) \subseteq Range(text) \cup Range(side.out)

(* So are the lines of a that neither side touches.                         *)
Untouched(a, H, G) == {k \in 1..Len(a) : Outside(H, k) /\ Outside(G, k)}
Held(a, start, side, F) ==
    \A k \in F : start <= k /\ k < side.at => a[k] \in Range(side.out)
Passed(a, m, F) == \A k \in F : k < m.from => a[k] \in Range(m.text)

Carried(a, m, H, G) ==
    /\ Added(m.text, m.ours, H) /\ Added(m.text, m.theirs, G)
    /\ Held(a, m.start, m.ours, Untouched(a, H, G)) /\ Held(a, m.start, m.theirs, Untouched(a, H, G))
    /\ Passed(a, m, Untouched(a, H, G))

(* A hunk that is taken is carried on.                                      *)
LEMMA TakenCarries ==
  ASSUME NEW V, NEW a, NEW H, NEW G, Changes(V, a, H, G),
         NEW side \in SideStates(V, Len(a), H), side.left # {},
         NEW text, NEW start \in Nat,
         NEW F, F \subseteq 1..Len(a), \A k \in F : Outside(H, k),
         Added(text, side, H), Held(a, start, side, F)
  PROVE  Added(text, Taken(a, side), H) /\ Held(a, start, Taken(a, side), F)
  <1> DEFINE h == First(side.left)
             p == SubSeq(a, side.at, h.from - 1)
             t == Taken(a, side)
  <1>1. /\ h \in side.left /\ h \in H
        /\ h.from \in 1..(Len(a) + 1) /\ h.to \in 0..Len(a) /\ h.by \in Seq(V)
        /\ t.left = side.left \ {h} /\ t.out = side.out \o p \o h.by /\ t.at = h.to + 1
        /\ p \in Seq(V) /\ side.out \in Seq(V)
    <2>1. h = First(side.left)
      OBVIOUS
    <2> HIDE DEF h, p, t
    <2>2. /\ h \in side.left /\ h \in H
          /\ h.from \in 1..(Len(a) + 1) /\ h.to \in 0..Len(a) /\ h.by \in Seq(V)
      BY <2>1, TakenIs
    <2>3. t.left = side.left \ {h} /\ t.out = side.out \o p \o h.by /\ t.at = h.to + 1
      <3>1. t.left = side.left \ {h}
        BY <2>1, TakenIs DEF t
      <3>2. t.out = side.out \o p \o h.by
        BY <2>1 DEF t, p, Taken
      <3>3. t.at = h.to + 1
        BY <2>1, TakenIs DEF t
      <3>4. QED
        BY <3>1, <3>2, <3>3
    <2>4. p \in Seq(V) /\ side.out \in Seq(V)
      BY <2>1, TakenIs DEF p
    <2>5. QED
      BY <2>2, <2>3, <2>4
  <1>2. side.at \in 1..(Len(a) + 1) /\ side.left \subseteq H /\ a \in Seq(V) /\ Len(a) \in Nat
    BY DEF SideStates, Changes
  <1>3. \A i \in side.at..(h.from - 1) : a[i] \in Range(p)
    <2> HIDE DEF h
    <2>1. side.at \in Nat \ {0} /\ h.from - 1 \in Int /\ h.from - 1 <= Len(a)
      <3>1. h.from \in 1..(Len(a) + 1)
        BY <1>1
      <3>2. QED
        BY <1>2, <3>1
    <2>2. QED
      BY <1>2, <2>1, Piece
  <1> HIDE DEF h, p, t
  <1>4. Range(t.out) = Range(side.out) \cup Range(p) \cup Range(h.by)
    <2> DEFINE q == side.out \o p
    <2>1. q \in Seq(V) /\ Range(q) = Range(side.out) \cup Range(p)
      BY <1>1, RangeConcat
    <2>2. t.out = q \o h.by
      BY <1>1
    <2> HIDE DEF q
    <2>3. Range(q \o h.by) = Range(q) \cup Range(h.by)
      BY <1>1, <2>1, RangeConcat
    <2>4. QED
      BY <2>1, <2>2, <2>3
  <1>5. Added(text, t, H)
    BY <1>1, <1>4 DEF Added
  <1>6. Held(a, start, t, F)
    <2>1. ASSUME NEW k \in F, start <= k, k < t.at PROVE a[k] \in Range(t.out)
      <3>1. k < h.from
        BY <1>1, <2>1 DEF Outside
      <3>2. CASE k < side.at
        BY <1>4, <2>1, <3>2 DEF Held
      <3>3. CASE ~(k < side.at)
        <4>1. k \in side.at..(h.from - 1)
          BY <1>1, <1>2, <3>1, <3>3
        <4>2. QED
          BY <1>3, <1>4, <4>1
      <3>4. QED
        BY <3>2, <3>3
    <2>2. QED
      BY <2>1 DEF Held
  <1>7. QED
    BY <1>5, <1>6 DEF t

(* What a side makes of a region has the lines untouched there.             *)
LEMMA RegionHeld ==
  ASSUME NEW V, NEW a, NEW H, NEW G, Changes(V, a, H, G),
         NEW m \in MergeStates(V, Len(a), H, G),
         NEW K, NEW side \in SideStates(V, Len(a), K),
         NEW F, F \subseteq 1..Len(a), Held(a, m.start, side, F),
         NEW k \in F, m.start <= k, k < m.end
  PROVE  a[k] \in Range(Applied(a, m, side))
  <1>1. a \in Seq(V) /\ Len(a) \in Nat
    BY DEF Changes
  <1>2. side.at \in 1..(Len(a) + 1) /\ m.end \in 1..(Len(a) + 1) /\ k \in 1..Len(a)
    BY Fields DEF SideStates
  <1>3. Range(Applied(a, m, side)) = Range(side.out) \cup Range(SubSeq(a, side.at, m.end - 1))
    BY AppliedIs
  <1>4. CASE k < side.at
    BY <1>3, <1>4 DEF Held
  <1>5. CASE ~(k < side.at)
    <2>1. side.at \in Nat \ {0} /\ m.end - 1 \in Int /\ m.end - 1 <= Len(a)
      BY <1>1, <1>2
    <2>2. k \in side.at..(m.end - 1)
      BY <1>1, <1>2, <1>5
    <2>3. a[k] \in Range(SubSeq(a, side.at, m.end - 1))
      BY <1>1, <2>1, <2>2, Piece
    <2>4. QED
      BY <1>3, <2>3
  <1>6. QED
    BY <1>4, <1>5

(* A region that is settled is in the text.                                 *)
LEMMA SettledCarries ==
  ASSUME NEW V, NEW a, NEW H, NEW G, Changes(V, a, H, G),
         NEW m \in MergeStates(V, Len(a), H, G), Forming(m), Carried(a, m, H, G),
         NEW m2 \in MergeStates(V, Len(a), H, G), Settles(a, m, m2)
  PROVE  Carried(a, m2, H, G)
  <1> DEFINE F == Untouched(a, H, G)
  <1>1. /\ Range(m.text) \subseteq Range(m2.text)
        /\ Range(SubSeq(a, m.from, m.start - 1)) \subseteq Range(m2.text)
        /\ m.ours.took => Range(Applied(a, m, m.ours)) \subseteq Range(m2.text)
        /\ m.theirs.took => Range(Applied(a, m, m.theirs)) \subseteq Range(m2.text)
    BY SettlesText
  <1>2. /\ m2.from = m.end /\ ~Empty(m)
        /\ m2.ours = Unchanged(m.ours.left, m2.start)
        /\ m2.theirs = Unchanged(m.theirs.left, m2.start)
    BY DEF Settles
  <1>3. /\ m2.ours.left = m.ours.left /\ m2.ours.at = m2.start
        /\ m2.theirs.left = m.theirs.left /\ m2.theirs.at = m2.start
    BY <1>2, UnchangedIs
  <1>4. /\ m.ours \in SideStates(V, Len(a), H) /\ m.theirs \in SideStates(V, Len(a), G)
        /\ m.from \in 1..(Len(a) + 1) /\ m.start \in 1..(Len(a) + 1)
        /\ m.end \in 1..(Len(a) + 1) /\ m2.start \in 1..(Len(a) + 1)
        /\ m.ours.took \in BOOLEAN /\ m.theirs.took \in BOOLEAN
        /\ a \in Seq(V) /\ Len(a) \in Nat
    BY Fields DEF Changes
  <1>5. /\ Range(m.ours.out) \subseteq Range(Applied(a, m, m.ours))
        /\ Range(m.theirs.out) \subseteq Range(Applied(a, m, m.theirs))
    <2>1. Range(m.ours.out) \subseteq Range(Applied(a, m, m.ours))
      BY <1>4, AppliedIs
    <2>2. Range(m.theirs.out) \subseteq Range(Applied(a, m, m.theirs))
      BY <1>4, AppliedIs
    <2>3. QED
      BY <2>1, <2>2
  <1>6. Range(m.ours.out) \subseteq Range(m2.text) /\ Range(m.theirs.out) \subseteq Range(m2.text)
    <2>1. Range(<<>>) = {}
      BY DEF Range
    <2>2. ~m.ours.took => m.ours.out = <<>>
      BY DEF Forming, Begun
    <2>3. ~m.theirs.took => m.theirs.out = <<>>
      BY DEF Forming, Begun
    <2>4. QED
      BY <1>1, <1>5, <2>1, <2>2, <2>3
  <1>7. Added(m2.text, m2.ours, H) /\ Added(m2.text, m2.theirs, G)
    BY <1>1, <1>3, <1>6 DEF Carried, Added
  <1>8. Held(a, m2.start, m2.ours, F) /\ Held(a, m2.start, m2.theirs, F)
    <2>1. \A k \in F : k \in Nat
      BY <1>4 DEF Untouched
    <2> HIDE DEF F
    <2>2. \A k \in F : ~(m2.start <= k /\ k < m2.start)
      BY <1>4, <2>1
    <2>3. QED
      BY <1>3, <2>2 DEF Held
  <1>9. Passed(a, m2, F)
    <2>1. ASSUME NEW k \in F, k < m.end PROVE a[k] \in Range(m2.text)
      <3>1. F \subseteq 1..Len(a) /\ k \in 1..Len(a)
        BY DEF Untouched
      <3>2. CASE k < m.from
        BY <1>1, <3>2 DEF Carried, Passed
      <3>3. CASE ~(k < m.from) /\ k < m.start
        <4>1. m.from \in Nat \ {0} /\ m.start - 1 \in Int /\ m.start - 1 <= Len(a)
          BY <1>4
        <4>2. k \in m.from..(m.start - 1)
          BY <1>4, <3>1, <3>3
        <4>3. a[k] \in Range(SubSeq(a, m.from, m.start - 1))
          BY <1>4, <4>1, <4>2, Piece
        <4>4. QED
          BY <1>1, <4>3
      <3>4. CASE ~(k < m.start)
        <4>1. m.start <= k
          BY <1>4, <3>1, <3>4
        <4>2. Held(a, m.start, m.ours, F) /\ Held(a, m.start, m.theirs, F)
          BY DEF Carried
        <4> HIDE DEF F
        <4>3. a[k] \in Range(Applied(a, m, m.ours))
          BY <1>4, <2>1, <3>1, <4>1, <4>2, RegionHeld
        <4>4. a[k] \in Range(Applied(a, m, m.theirs))
          BY <1>4, <2>1, <3>1, <4>1, <4>2, RegionHeld
        <4>5. QED
          BY <1>1, <1>2, <4>3, <4>4 DEF Empty
      <3>5. QED
        BY <3>2, <3>3, <3>4
    <2>2. QED
      BY <1>2, <2>1 DEF Passed
  <1>10. QED
    BY <1>7, <1>8, <1>9 DEF Carried

(* Each step carries on what the one before did.                            *)
LEMMA StepCarries ==
  ASSUME NEW V, NEW a, NEW H, NEW G, Changes(V, a, H, G),
         NEW m \in MergeStates(V, Len(a), H, G), Forming(m), Carried(a, m, H, G)
  PROVE  Carried(a, Step(a, m), H, G)
  <1> DEFINE m2 == Step(a, m)
             F == Untouched(a, H, G)
  <1>1. m2 \in MergeStates(V, Len(a), H, G) /\ m2 = Step(a, m)
    BY StepType
  <1>2. /\ m.ours \in SideStates(V, Len(a), H) /\ m.theirs \in SideStates(V, Len(a), G)
        /\ m.start \in Nat
    BY Fields
  <1>3. F \subseteq 1..Len(a) /\ \A k \in F : Outside(H, k) /\ Outside(G, k)
    BY DEF Untouched
  <1> HIDE DEF m2
  <1>4. /\ Added(m.text, m.ours, H) /\ Added(m.text, m.theirs, G)
        /\ Held(a, m.start, m.ours, F) /\ Held(a, m.start, m.theirs, F)
        /\ Passed(a, m, F)
    BY DEF Carried
  <1> HIDE DEF F
  <1>5. CASE OursJoins(a, m, m2)
    <2>1. m.ours.left # {}
      BY <1>5 DEF OursJoins, Joining
    <2>2. Added(m.text, Taken(a, m.ours), H) /\ Held(a, m.start, Taken(a, m.ours), F)
      BY <1>2, <1>3, <1>4, <2>1, TakenCarries
    <2>3. QED
      BY <1>1, <1>4, <1>5, <2>2 DEF OursJoins, Carried, Passed, F
  <1>6. CASE TheirsJoins(a, m, m2)
    <2>1. m.theirs.left # {} /\ Changes(V, a, G, H)
      BY <1>6 DEF TheirsJoins, Joining, Changes
    <2>2. Added(m.text, Taken(a, m.theirs), G) /\ Held(a, m.start, Taken(a, m.theirs), F)
      BY <1>2, <1>3, <1>4, <2>1, TakenCarries
    <2>3. QED
      BY <1>1, <1>4, <1>6, <2>2 DEF TheirsJoins, Carried, Passed, F
  <1>7. CASE Settles(a, m, m2)
    BY <1>1, <1>7, SettledCarries
  <1>8. CASE Stays(m, m2)
    BY <1>1, <1>8 DEF Stays
  <1>9. QED
    BY <1>1, <1>5, <1>6, <1>7, <1>8, StepIs

(* The result has the lines of every hunk, and those nobody touched.        *)
LEMMA MergeCarries ==
  ASSUME NEW V, {Yours, Equals, Theirs} \subseteq V,
         NEW a \in Seq(V), NEW b \in Seq(V), NEW c \in Seq(V)
  PROVE  LET r == Merge3(a, b, c)
         IN  /\ r.text \in Seq(V)
             /\ \A h \in Hunks(a, b) \cup Hunks(a, c) : Range(h.by) \subseteq Range(r.text)
             /\ \A k \in Untouched(a, Hunks(a, b), Hunks(a, c)) : a[k] \in Range(r.text)
  <1> DEFINE H == Hunks(a, b)
             G == Hunks(a, c)
             F == Untouched(a, H, G)
             I == {m \in Merging(V, a, H, G) : Carried(a, m, H, G)}
             r == Merge3(a, b, c)
  <1>1. Changes(V, a, H, G) /\ Len(a) \in Nat
    BY HunksSeparate DEF Changes
  <1>2. Begin(a, H, G) \in I
    <2> DEFINE m == Begin(a, H, G)
    <2>1. /\ m \in MergeStates(V, Len(a), H, G) /\ Forming(m)
          /\ m.text = <<>> /\ m.from = 1
          /\ m.ours = Unchanged(H, m.start) /\ m.theirs = Unchanged(G, m.start)
      <3> HIDE DEF H, G
      <3> QED BY <1>1, BeginIs
    <2> HIDE DEF m
    <2>2. /\ m.ours.left = H /\ m.ours.at = m.start
          /\ m.theirs.left = G /\ m.theirs.at = m.start
      BY <2>1, UnchangedIs
    <2>3. Added(m.text, m.ours, H) /\ Added(m.text, m.theirs, G)
      BY <2>2 DEF Added
    <2>4. \A k \in F : k \in Nat /\ 1 <= k
      BY DEF Untouched
    <2>5. m.start \in Nat
      BY <2>1, Fields
    <2> HIDE DEF F
    <2>6. \A k \in F : ~(m.start <= k /\ k < m.start) /\ ~(k < 1)
      BY <2>4, <2>5
    <2>7. /\ Held(a, m.start, m.ours, F) /\ Held(a, m.start, m.theirs, F)
          /\ Passed(a, m, F)
      BY <2>1, <2>2, <2>6 DEF Held, Passed
    <2>8. Carried(a, m, H, G)
      BY <2>3, <2>7 DEF Carried, F
    <2>9. QED
      BY <2>1, <2>8 DEF Merging, m
  <1>3. \A m \in I : Step(a, m) \in I
    <2> HIDE DEF H, G
    <2> QED BY <1>1, StepType, StepForming, StepCarries DEF Merging
  <1>4. PICK m \in I : Ended(m) /\ r = Result(a, m)
    <2>1. I \in SUBSET Merging(V, a, H, G)
      OBVIOUS
    <2> HIDE DEF I
    <2>2. QED
      BY <1>1, <1>2, <1>3, <2>1, MergeEnds
  <1> HIDE DEF H, G, r
  <1>5. /\ m \in MergeStates(V, Len(a), H, G) /\ Forming(m) /\ Carried(a, m, H, G)
        /\ m.text \in Seq(V) /\ m.from \in 1..(Len(a) + 1)
    BY Fields DEF Merging
  <1> DEFINE p == SubSeq(a, m.from, Len(a))
  <1>6. p \in Seq(V) /\ \A i \in m.from..Len(a) : a[i] \in Range(p)
    <2>1. m.from \in Nat \ {0} /\ Len(a) \in Int /\ Len(a) <= Len(a)
      BY <1>1, <1>5
    <2>2. QED
      BY <2>1, Piece
  <1> HIDE DEF p
  <1>7. r.text = m.text \o p
    BY <1>4 DEF Result, p
  <1>8. r.text \in Seq(V) /\ Range(r.text) = Range(m.text) \cup Range(p)
    BY <1>5, <1>6, <1>7, RangeConcat
  <1>9. \A h \in H \cup G : Range(h.by) \subseteq Range(r.text)
    <2>1. m.ours.left = {} /\ m.theirs.left = {} /\ ~m.ours.took /\ ~m.theirs.took
      BY <1>4 DEF Ended, Left1, Empty
    <2>2. m.ours.out = <<>> /\ m.theirs.out = <<>>
      BY <1>5, <2>1 DEF Forming, Begun
    <2>3. Range(<<>>) = {}
      BY DEF Range
    <2>4. QED
      BY <1>5, <1>8, <2>1, <2>2, <2>3 DEF Carried, Added
  <1>10. ASSUME NEW k \in F PROVE a[k] \in Range(r.text)
    <2>1. k \in 1..Len(a)
      BY DEF Untouched
    <2>2. CASE k < m.from
      BY <1>5, <1>8, <2>2 DEF Carried, Passed
    <2>3. CASE ~(k < m.from)
      <3>1. k \in m.from..Len(a)
        BY <1>1, <1>5, <2>1, <2>3
      <3>2. QED
        BY <1>6, <1>8, <3>1
    <2>4. QED
      BY <2>2, <2>3
  <1>11. QED
    BY <1>8, <1>9, <1>10 DEF r, H, G

(* Nothing either side wrote is lost, and nothing both kept.                *)
THEOREM MergeKeeps ==
  ASSUME NEW V, {Yours, Equals, Theirs} \subseteq V,
         NEW a \in Seq(V), NEW b \in Seq(V), NEW c \in Seq(V)
  PROVE  LET r == Merge3(a, b, c)
         IN  /\ Range(b) \ Range(a) \subseteq Range(r.text)
             /\ Range(c) \ Range(a) \subseteq Range(r.text)
             /\ IsInjective(a) => Range(b) \cap Range(c) \subseteq Range(r.text)
  <1> DEFINE H == Hunks(a, b)
             G == Hunks(a, c)
             text == Merge3(a, b, c).text
  <1>1. /\ \A h \in H \cup G : Range(h.by) \subseteq Range(text)
        /\ \A k \in Untouched(a, H, G) : a[k] \in Range(text)
    BY MergeCarries
  <1>2. Separate(H, Len(a), V) /\ Separate(G, Len(a), V)
    BY HunksSeparate
  <1> HIDE DEF text
  <1>3. ASSUME NEW s \in Seq(V), \A h \in Hunks(a, s) : Range(h.by) \subseteq Range(text),
               Separate(Hunks(a, s), Len(a), V), NEW l \in Range(s)
        PROVE  \/ l \in Range(text)
               \/ \E k \in 1..Len(a) : a[k] = l /\ Outside(Hunks(a, s), k)
    <2>1. PICK k \in 1..Len(s) : s[k] = l
      BY RangeIs
    <2>2. CASE \E h \in Hunks(a, s) : \E i \in 1..Len(h.by) : h.by[i] = s[k]
      <3>1. PICK h \in Hunks(a, s) : \E i \in 1..Len(h.by) : h.by[i] = s[k]
        BY <2>2
      <3>2. h.by \in Seq(V)
        BY <1>3 DEF Separate
      <3>3. s[k] \in Range(h.by)
        BY <3>1, <3>2, RangeIs
      <3>4. QED
        BY <1>3, <2>1, <3>3
    <2>3. CASE \E p \in Marks(a, s) : p.j = k /\ p.i \in 1..Len(a) /\ a[p.i] = s[k]
      <3>1. PICK p \in Marks(a, s) : p.j = k /\ p.i \in 1..Len(a) /\ a[p.i] = s[k]
        BY <2>3
      <3>2. Outside(Hunks(a, s), p.i)
        BY PairedOutside
      <3>3. QED
        BY <2>1, <3>1, <3>2
    <2>4. Covered(a, s, k)
      BY LineCovered
    <2>5. QED
      BY <2>2, <2>3, <2>4 DEF Covered
  <1>4. \A l \in Range(b) : l \in Range(text) \/ \E k \in 1..Len(a) : a[k] = l /\ Outside(H, k)
    BY <1>1, <1>2, <1>3
  <1>5. \A l \in Range(c) : l \in Range(text) \/ \E k \in 1..Len(a) : a[k] = l /\ Outside(G, k)
    BY <1>1, <1>2, <1>3
  <1> HIDE DEF H, G
  <1>6. Range(b) \ Range(a) \subseteq Range(text) /\ Range(c) \ Range(a) \subseteq Range(text)
    BY <1>4, <1>5, RangeIs
  <1>7. ASSUME IsInjective(a), NEW l \in Range(b) \cap Range(c)
        PROVE  l \in Range(text)
    <2> SUFFICES ASSUME l \notin Range(text) PROVE FALSE
      OBVIOUS
    <2>1. PICK k \in 1..Len(a) : a[k] = l /\ Outside(H, k)
      BY <1>4
    <2>2. PICK i \in 1..Len(a) : a[i] = l /\ Outside(G, i)
      BY <1>5
    <2>3. DOMAIN a = 1..Len(a)
      BY LenProperties
    <2>4. k = i
      BY <1>7, <2>1, <2>2, <2>3 DEF IsInjective
    <2>5. k \in Untouched(a, H, G)
      BY <2>1, <2>2, <2>4 DEF Untouched
    <2>6. QED
      BY <1>1, <2>1, <2>5
  <1>8. QED
    BY <1>6, <1>7 DEF text

(* ------------------ one side unchanged, or both alike ---------------- *)

(* A beginning of c, made longer by lines of c. *)
LEMMA Longer ==
  ASSUME NEW V, NEW c \in Seq(V), NEW l \in Nat, NEW x \in Seq(V), l + Len(x) <= Len(c),
         \A i \in 1..Len(x) : x[i] = c[l + i]
  PROVE  SubSeq(c, 1, l) \o x = SubSeq(c, 1, l + Len(x))
  <1> DEFINE d == Len(x)
             s == SubSeq(c, 1, l)
             t == SubSeq(c, 1, l + d)
             n == Len(c)
  <1>1. n \in Nat /\ d \in Nat /\ l + d <= n /\ l <= n /\ l + d \in Nat
    OBVIOUS
  <1> HIDE DEF d, n
  <1>2. /\ s \in Seq(V) /\ Len(s) = l
        /\ \A i \in 1..l : s[i] = c[i]
    <2>1. \A i \in 1..l : c[i] \in V
      <3>1. \A i \in 1..l : i \in 1..n
        BY <1>1
      <3>2. QED
        BY <3>1, ElementOfSeq DEF n
    <2>2. /\ SubSeq(c, 1, l) \in Seq(V)
          /\ Len(SubSeq(c, 1, l)) = IF 1 <= l THEN l - 1 + 1 ELSE 0
          /\ \A i \in 1..(l - 1 + 1) : SubSeq(c, 1, l)[i] = c[1 + i - 1]
      BY <2>1, SubSeqProperties
    <2>3. \A i \in 1..l : i \in 1..(l - 1 + 1) /\ 1 + i - 1 = i
      OBVIOUS
    <2>4. \A i \in 1..l : s[i] = c[i]
      BY <2>2, <2>3
    <2>5. Len(s) = l
      BY <2>2
    <2>6. QED
      BY <2>2, <2>4, <2>5
  <1>3. /\ t \in Seq(V) /\ Len(t) = l + d
        /\ \A i \in 1..(l + d) : t[i] = c[i]
    <2> DEFINE k == l + d
    <2>1. k \in Nat /\ k <= n
      BY <1>1
    <2> HIDE DEF k
    <2>2. \A i \in 1..k : c[i] \in V
      <3>1. \A i \in 1..k : i \in 1..n
        BY <1>1, <2>1
      <3>2. QED
        BY <3>1, ElementOfSeq DEF n
    <2>3. /\ SubSeq(c, 1, k) \in Seq(V)
          /\ Len(SubSeq(c, 1, k)) = IF 1 <= k THEN k - 1 + 1 ELSE 0
          /\ \A i \in 1..(k - 1 + 1) : SubSeq(c, 1, k)[i] = c[1 + i - 1]
      BY <2>1, <2>2, SubSeqProperties
    <2>4. \A i \in 1..k : i \in 1..(k - 1 + 1) /\ 1 + i - 1 = i
      BY <2>1
    <2>5. \A i \in 1..k : SubSeq(c, 1, k)[i] = c[i]
      BY <2>3, <2>4
    <2>6. Len(SubSeq(c, 1, k)) = k
      BY <2>1, <2>3
    <2>7. QED
      BY <2>3, <2>5, <2>6 DEF k
  <1> HIDE DEF s, t
  <1>4. /\ s \o x \in Seq(V) /\ Len(s \o x) = l + d
        /\ \A i \in 1..(l + d) : (s \o x)[i] = IF i <= l THEN s[i] ELSE x[i - l]
    BY <1>2, ConcatProperties DEF d
  <1>5. ASSUME NEW i \in 1..(l + d) PROVE (s \o x)[i] = t[i]
    <2>1. CASE i <= l
      <3>1. i \in 1..l
        BY <2>1
      <3>2. QED
        BY <1>2, <1>3, <1>4, <2>1, <3>1
    <2>2. CASE ~(i <= l)
      <3>1. i - l \in 1..d /\ l + (i - l) = i
        BY <1>1, <2>2
      <3>2. x[i - l] = c[i]
        BY <3>1 DEF d
      <3>3. QED
        BY <1>3, <1>4, <2>2, <3>2
    <2>3. QED
      BY <2>1, <2>2
  <1>6. s \o x = t
    <2> DEFINE u == s \o x
    <2>1. u \in Seq(V) /\ Len(u) = Len(t) /\ \A i \in 1..Len(u) : u[i] = t[i]
      BY <1>3, <1>4, <1>5
    <2> HIDE DEF u
    <2>2. u = t
      BY <1>3, <2>1, SeqEqual
    <2>3. QED
      BY <2>2 DEF u
  <1>7. QED
    BY <1>6 DEF s, t, d

(* Where no hunk starts, the lines of the two texts run along.              *)
Along(a, c, p, i) == \E q \in Marks(a, c) : q.i = i /\ q.j = p.j + (i - p.i)

LEMMA Chain ==
  ASSUME NEW V, NEW a \in Seq(V), NEW c \in Seq(V), NEW p \in Marks(a, c),
         NEW K \in Nat, K <= Len(a) + 1,
         \A h \in Hunks(a, c) : h.from <= p.i \/ K < h.from
  PROVE  \A i \in Nat : p.i <= i /\ i <= K => Along(a, c, p, i)
  <1> DEFINE M == Marks(a, c)
             S == {n \in Nat : p.i + n <= K => \E q \in M : q.i = p.i + n /\ q.j = p.j + n}
  <1>1. MarksFor(a, c, M)
    BY MarksAre
  <1>2. Hunks(a, c) = {Hunk(c, g) : g \in Gaps(M)} /\ p \in M
    BY DEF Hunks
  <1>3. Len(a) \in Nat
    OBVIOUS
  <1> HIDE DEF M
  <1>4. \A q \in M : q.i \in Nat /\ q.j \in Nat
    BY <1>1, SamePlace
  <1>5. 0 \in S
    BY <1>2, <1>4
  <1>6. ASSUME NEW n \in Nat, n \in S PROVE n + 1 \in S
    <2> SUFFICES ASSUME p.i + (n + 1) <= K
                 PROVE  \E q \in M : q.i = p.i + (n + 1) /\ q.j = p.j + (n + 1)
      OBVIOUS
    <2>1. PICK r \in M : r.i = p.i + n /\ r.j = p.j + n
      BY <1>2, <1>4, <1>6
    <2>2. r.i <= Len(a)
      BY <1>2, <1>3, <1>4, <2>1
    <2>3. PICK q \in M : Next1(M, r, q)
      BY <1>1, <2>2, NextMark
    <2>4. r.i < q.i /\ r.j < q.j
      BY <1>1, <2>3, SamePlace DEF Next1
    <2>5. ~(r.i + 1 < q.i \/ r.j + 1 < q.j)
      <3> SUFFICES ASSUME r.i + 1 < q.i \/ r.j + 1 < q.j PROVE FALSE
        OBVIOUS
      <3> DEFINE g == [p |-> r, q |-> q]
      <3>1. g \in [p : M, q : M] /\ g.p = r /\ g.q = q
        OBVIOUS
      <3> HIDE DEF g
      <3>2. g \in Gaps(M)
        BY <2>3, <3>1, GapsAre DEF GapIn
      <3>3. Hunk(c, g) \in Hunks(a, c) /\ Hunk(c, g).from = r.i + 1
        BY <1>1, <1>2, <3>1, <3>2, HunkIs
      <3>4. Hunk(c, g).from = p.i + (n + 1)
        <4>1. PICK x \in Nat : p.i = x
          BY <1>2, <1>4
        <4>2. r.i = x + n
          BY <2>1, <4>1
        <4>3. Hunk(c, g).from = x + n + 1
          BY <3>3, <4>2
        <4>4. x + n + 1 = x + (n + 1)
          OBVIOUS
        <4>5. QED
          BY <4>1, <4>3, <4>4
      <3>5. p.i < p.i + (n + 1)
        BY <1>2, <1>4
      <3>6. ~(K < p.i + (n + 1)) /\ ~(p.i + (n + 1) <= p.i)
        BY <1>2, <1>4, <3>5
      <3>7. QED
        BY <3>3, <3>4, <3>6
    <2>6. q.i = p.i + (n + 1) /\ q.j = p.j + (n + 1)
      <3>1. PICK x, y, u, v \in Nat : p.i = x /\ p.j = y /\ q.i = u /\ q.j = v
        BY <1>2, <1>4
      <3>2. x + n < u /\ y + n < v
        BY <2>1, <2>4, <3>1
      <3>3. ~(x + n + 1 < u) /\ ~(y + n + 1 < v)
        BY <2>1, <2>5, <3>1
      <3>4. u = x + (n + 1) /\ v = y + (n + 1)
        BY <3>2, <3>3
      <3>5. QED
        BY <3>1, <3>4
    <2>7. QED
      BY <2>6
  <1>7. Nat \subseteq S
    <2> HIDE DEF S
    <2> QED BY <1>5, <1>6, NatSteps
  <1>8. ASSUME NEW i \in Nat, p.i <= i, i <= K
        PROVE  \E q \in M : q.i = i /\ q.j = p.j + (i - p.i)
    <2>1. i - p.i \in Nat /\ p.i + (i - p.i) = i
      BY <1>2, <1>4, <1>8
    <2>2. i - p.i \in S
      BY <1>7, <2>1
    <2>3. \E q \in M : q.i = p.i + (i - p.i) /\ q.j = p.j + (i - p.i)
      BY <1>8, <2>1, <2>2
    <2>4. QED
      BY <2>1, <2>3
  <1>9. QED
    BY <1>8 DEF M, Along

(* The marks a hunk lies between. *)
Between(a, c, h, p, q) ==
    /\ p \in Marks(a, c) /\ q \in Marks(a, c)
    /\ p.i \in Nat /\ p.j \in Nat /\ q.i \in Nat /\ q.j \in Nat
    /\ p.i < q.i /\ p.j < q.j /\ q.i <= Len(a) + 1 /\ q.j <= Len(c) + 1
    /\ h.from = p.i + 1 /\ h.to = q.i - 1 /\ Len(h.by) = q.j - 1 - p.j
    /\ \A k \in 1..(q.j - 1 - p.j) : h.by[k] = c[p.j + k]

LEMMA HunkBetween ==
  ASSUME NEW V, NEW a \in Seq(V), NEW c \in Seq(V), NEW h \in Hunks(a, c)
  PROVE  \E p, q : Between(a, c, h, p, q)
  <1> DEFINE M == Marks(a, c)
  <1>1. MarksFor(a, c, M)
    BY MarksAre
  <1>2. PICK g \in Gaps(M) : h = Hunk(c, g)
    BY DEF Hunks
  <1>3. Between(a, c, h, g.p, g.q)
    <2> HIDE DEF M
    <2>1. /\ g.p \in M /\ g.q \in M
          /\ g.p.i \in Nat /\ g.p.j \in Nat /\ g.q.i \in Nat /\ g.q.j \in Nat
          /\ g.p.i < g.q.i /\ g.p.j < g.q.j
          /\ g.q.i <= Len(a) + 1 /\ g.q.j <= Len(c) + 1
      BY <1>1, GapPlaces
    <2>2. /\ h.from = g.p.i + 1 /\ h.to = g.q.i - 1 /\ Len(h.by) = g.q.j - 1 - g.p.j
          /\ \A k \in 1..(g.q.j - 1 - g.p.j) : h.by[k] = c[g.p.j + k]
      BY <1>1, <1>2, HunkIs
    <2>3. QED
      BY <2>1, <2>2 DEF Between, M
  <1>4. QED
    BY <1>3

(* The text has the beginning of c up to where the mark p is in it, and     *)
(* goes on from p.                                                          *)
Copied(c, text, from, p) ==
    \/ p.i = 0 /\ p.j = 0 /\ from = 1 /\ text = <<>>
    \/ p.i \in Nat \ {0} /\ p.j \in Nat \ {0} /\ from = p.i /\ text = SubSeq(c, 1, p.j - 1)

Lengths(c, text, from, p, x, y, f, l) ==
    /\ p.i = x /\ p.j = y /\ from = f /\ text = SubSeq(c, 1, l)
    /\ 1 <= f /\ x <= f /\ f <= x + 1
    /\ f = x + 1 => x = 0 /\ l = y
    /\ f = x => y = l + 1

(* The lengths of a text copied so far.                                     *)
LEMMA CopiedLength ==
  ASSUME NEW c, NEW text, NEW from, NEW p, Copied(c, text, from, p)
  PROVE  \E x, y, f, l \in Nat : Lengths(c, text, from, p, x, y, f, l)
  <1>1. CASE p.i = 0 /\ p.j = 0 /\ from = 1 /\ text = <<>>
    <2>1. SubSeq(c, 1, 0) = <<>>
      BY SubSeqEmpty
    <2>2. WITNESS 0 \in Nat, 0 \in Nat, 1 \in Nat, 0 \in Nat
    <2>3. QED
      BY <1>1, <2>1 DEF Lengths
  <1>2. CASE p.i \in Nat \ {0} /\ p.j \in Nat \ {0} /\ from = p.i /\ text = SubSeq(c, 1, p.j - 1)
    <2>1. PICK x, y \in Nat : p.i = x /\ p.j = y /\ x # 0 /\ y # 0
      BY <1>2
    <2>2. y - 1 \in Nat /\ from = x /\ text = SubSeq(c, 1, y - 1)
      BY <1>2, <2>1
    <2> USE <2>2
    <2>3. WITNESS x \in Nat, y \in Nat, x \in Nat, y - 1 \in Nat
    <2>4. QED
      BY <2>1, <2>2 DEF Lengths
  <1>3. QED
    BY <1>1, <1>2 DEF Copied

CopiedTo(a, c, text, from, p, k, q) ==
    /\ q.i = k /\ q.j \in Nat /\ q.j = p.j + (k - p.i)
    /\ text \o SubSeq(a, from, k) = SubSeq(c, 1, q.j)

(* Behind a hunk that was taken the copy goes on.                           *)
LEMMA Spliced ==
  ASSUME NEW V, NEW a \in Seq(V), NEW c \in Seq(V), NEW p \in Marks(a, c),
         NEW text, NEW from, Copied(c, text, from, p),
         NEW k \in Nat, p.i <= k, k <= Len(a),
         \A h \in Hunks(a, c) : h.from <= p.i \/ k < h.from
  PROVE  \E q \in Marks(a, c) : CopiedTo(a, c, text, from, p, k, q)
  <1> DEFINE M == Marks(a, c)
  <1>1. MarksFor(a, c, M)
    BY MarksAre
  <1> PICK x, y, f, l \in Nat : Lengths(c, text, from, p, x, y, f, l)
    BY CopiedLength
  <1>2. /\ p.i = x /\ p.j = y /\ from = f /\ text = SubSeq(c, 1, l)
        /\ 1 <= f /\ x <= f /\ f <= x + 1
        /\ f = x + 1 => x = 0 /\ l = y
        /\ f = x => y = l + 1
    BY DEF Lengths
  <1>3. PICK n, m \in Nat : Len(a) = n /\ Len(c) = m /\ k <= n /\ x <= k
    BY <1>2
  <1>4. \A i \in Nat : x <= i /\ i <= k => \E q \in M : q.i = i /\ q.j = y + (i - x)
    <2>1. k <= Len(a) + 1
      BY <1>3
    <2>2. \A i \in Nat : p.i <= i /\ i <= k => Along(a, c, p, i)
      BY <2>1, Chain
    <2>3. QED
      BY <1>2, <2>2 DEF Along
  <1> HIDE DEF M
  <1>5. \A q \in M : q.i \in Nat /\ q.j \in Nat
    BY <1>1, SamePlace
  <1>6. PICK q \in M : q.i = k /\ q.j = y + (k - x)
    BY <1>3, <1>4
  <1>7. PICK e \in Nat : q.j = e /\ e = y + (k - x) /\ e <= m
    <2>1. q.j \in 0..(Len(c) + 1) /\ (q.i = Len(a) + 1 <=> q.j = Len(c) + 1)
      BY <1>1 DEF MarksFor
    <2>2. PICK e \in Nat : q.j = e
      BY <1>5
    <2>3. e # m + 1 /\ e <= m + 1
      BY <1>3, <1>6, <2>1, <2>2
    <2>4. e <= m
      BY <2>3
    <2>5. QED
      BY <1>6, <2>2, <2>4
  <1> DEFINE s == SubSeq(a, from, k)
  <1>8. /\ s \in Seq(V) /\ Len(s) = k + 1 - f
        /\ \A i \in 1..(k + 1 - f) : s[i] = a[f + i - 1]
    <2>1. f \in Nat \ {0} /\ k \in Int /\ k <= Len(a)
      BY <1>2
    <2>2. /\ SubSeq(a, f, k) \in Seq(V)
          /\ Len(SubSeq(a, f, k)) = IF f <= k THEN k - f + 1 ELSE 0
          /\ \A i \in 1..(k - f + 1) : SubSeq(a, f, k)[i] = a[f + i - 1]
      BY <2>1, Piece
    <2>3. k - f + 1 = k + 1 - f /\ (~(f <= k) => k + 1 - f = 0)
      BY <1>2, <1>3
    <2>4. Len(SubSeq(a, f, k)) = k + 1 - f
      BY <2>2, <2>3
    <2>5. QED
      BY <1>2, <2>2, <2>3, <2>4
  <1> HIDE DEF s
  <1>9. l + (k + 1 - f) = e
    BY <1>2, <1>3, <1>7
  <1>10. ASSUME NEW i \in 1..(k + 1 - f) PROVE s[i] = c[l + i]
    <2> DEFINE t == f + i - 1
    <2>1. t \in Nat /\ t \in 1..n /\ x <= t /\ t <= k /\ y + (t - x) = l + i
      BY <1>2, <1>3
    <2>2. s[i] = a[t]
      BY <1>8
    <2> HIDE DEF t
    <2>3. PICK r \in M : r.i = t /\ r.j = y + (t - x)
      BY <1>4, <2>1
    <2>4. r.i \in 1..Len(a) => a[r.i] = c[r.j]
      BY <1>1 DEF MarksFor
    <2>5. QED
      BY <1>3, <2>1, <2>2, <2>3, <2>4
  <1>11. SubSeq(c, 1, l) \o s = SubSeq(c, 1, l + Len(s))
    <2>1. l + Len(s) <= Len(c)
      BY <1>3, <1>7, <1>8, <1>9
    <2>2. \A i \in 1..Len(s) : s[i] = c[l + i]
      BY <1>8, <1>10
    <2>3. s \in Seq(V) /\ l \in Nat
      BY <1>8
    <2>4. QED
      BY <2>1, <2>2, <2>3, Longer, ZenonT(30)
  <1>12. text \o s = SubSeq(c, 1, q.j)
    <2>1. l + Len(s) = e
      BY <1>8, <1>9
    <2>2. QED
      BY <1>2, <1>7, <1>11, <2>1
  <1>13. q.j \in Nat /\ q.j = p.j + (k - p.i)
    BY <1>2, <1>7
  <1>14. QED
    BY <1>6, <1>12, <1>13 DEF s, M, CopiedTo

(* Behind the last hunk c has what a has there.                             *)
CopiedAll(a, c, text, from) == text \o SubSeq(a, from, Len(a)) = c

LEMMA SplicedEnd ==
  ASSUME NEW V, NEW a \in Seq(V), NEW c \in Seq(V), NEW p \in Marks(a, c),
         NEW text, NEW from, Copied(c, text, from, p),
         \A h \in Hunks(a, c) : h.from <= p.i
  PROVE  CopiedAll(a, c, text, from)
  <1> DEFINE M == Marks(a, c)
  <1>1. MarksFor(a, c, M)
    BY MarksAre
  <1> PICK x, y, f, l \in Nat : Lengths(c, text, from, p, x, y, f, l)
    BY CopiedLength
  <1>2. /\ p.i = x /\ p.j = y /\ from = f /\ text = SubSeq(c, 1, l)
        /\ 1 <= f /\ x <= f /\ f <= x + 1
        /\ f = x + 1 => x = 0 /\ l = y
        /\ f = x => y = l + 1
    BY DEF Lengths
  <1>3. PICK n, m \in Nat : Len(a) = n /\ Len(c) = m
    OBVIOUS
  <1>4. /\ p.i \in 0..(Len(a) + 1)
        /\ p.i = Len(a) + 1 <=> p.j = Len(c) + 1
    BY <1>1 DEF MarksFor
  <1>5. SubSeq(c, 1, m) = c
    BY <1>3, SubSeqFull
  <1>6. CASE x = n + 1
    <2>1. l = m /\ f = n + 1
      BY <1>2, <1>3, <1>4, <1>6
    <2>2. SubSeq(a, f, n) = <<>>
      BY <2>1, SubSeqEmpty
    <2>3. text = c
      BY <1>2, <1>5, <2>1
    <2>4. QED
      BY <1>2, <1>3, <2>2, <2>3, ConcatEmptySeq DEF CopiedAll
  <1>7. CASE x # n + 1
    <2>1. x <= n
      BY <1>2, <1>3, <1>4, <1>7
    <2>2. \A h \in Hunks(a, c) : h.from <= p.i \/ n < h.from
      OBVIOUS
    <2> PICK q \in M : CopiedTo(a, c, text, from, p, n, q)
      <3>1. p.i <= n /\ n <= Len(a)
        BY <1>2, <1>3, <2>1
      <3>2. QED
        BY <2>2, <3>1, Spliced
    <2>3. /\ q.i = n /\ q.j \in Nat /\ q.j = p.j + (n - p.i)
          /\ text \o SubSeq(a, from, n) = SubSeq(c, 1, q.j)
      BY DEF CopiedTo
    <2>4. \A h \in Hunks(a, c) : h.from <= p.i \/ n + 1 < h.from
      OBVIOUS
    <2>5. PICK r \in M : r.i = n + 1 /\ r.j = y + (n + 1 - x)
      <3>1. n + 1 \in Nat /\ n + 1 <= Len(a) + 1 /\ x <= n + 1
        BY <1>2, <1>3, <2>1
      <3>2. PICK z \in Nat : z = n + 1
        BY <3>1
      <3>3. p.i <= z /\ z <= Len(a) + 1 /\ \A h \in Hunks(a, c) : h.from <= p.i \/ z < h.from
        BY <1>2, <3>1, <3>2
      <3>4. Along(a, c, p, z)
        BY <3>3, Chain
      <3>5. \E r \in M : r.i = z /\ r.j = y + (z - x)
        BY <1>2, <3>4 DEF Along
      <3>6. QED
        BY <3>2, <3>5
    <2> HIDE DEF M
    <2>6. r.j = m + 1
      <3>1. r.i = Len(a) + 1 <=> r.j = Len(c) + 1
        BY <1>1 DEF MarksFor
      <3>2. QED
        BY <1>3, <2>5, <3>1
    <2>7. q.j = m
      BY <1>2, <2>1, <2>3, <2>5, <2>6
    <2>8. QED
      BY <1>3, <1>5, <2>3, <2>7 DEF CopiedAll
  <1>8. QED
    BY <1>6, <1>7

(* A text has no change against itself: the longest run is all of it.       *)
LEMMA SelfMatched ==
  ASSUME NEW V, NEW a \in Seq(V), NEW i \in 1..Len(a)
  PROVE  \E p \in Marks(a, a) : p.i = i /\ p.j = i
  <1> DEFINE all == [alo |-> 1, ahi |-> Len(a), blo |-> 1, bhi |-> Len(a)]
             runs == Runs(a, a, all)
             r == Longest(runs)
             w == Within(a, a)
             whole == [i |-> 1, j |-> 1, k |-> Len(a)]
  <1>1. PICK n \in Nat : Len(a) = n /\ 1 <= n /\ i <= n
    OBVIOUS
  <1>2. all \in Boxes(a, a)
    BY <1>1 DEF Boxes
  <1>3. whole \in runs
    <2>1. all.alo = 1 /\ all.ahi = n /\ all.blo = 1 /\ all.bhi = n
      BY <1>1
    <2>2. whole.i = 1 /\ whole.j = 1 /\ whole.k = n
      BY <1>1
    <2> HIDE DEF all
    <2>3. whole \in [i : all.alo..all.ahi, j : all.blo..all.bhi, k : 1..Len(a)]
      BY <1>1, <2>1
    <2> HIDE DEF whole
    <2>4. /\ whole.i + whole.k - 1 <= all.ahi /\ whole.j + whole.k - 1 <= all.bhi
          /\ \A d \in 0..(whole.k - 1) : a[whole.i + d] = a[whole.j + d]
      BY <1>1, <2>1, <2>2
    <2>5. QED
      BY <2>3, <2>4 DEF Runs
  <1> DEFINE size == r.k
  <1>4. r \in runs /\ n <= size
    <2>1. \A q \in runs : q.i \in Nat /\ q.j \in Nat /\ q.k \in 1..n
      <3> HIDE DEF all
      <3> QED BY <1>1, <1>2, RunIs
    <2>2. whole.k = n
      BY <1>1
    <2> HIDE DEF all, runs, whole
    <2>3. r \in runs /\ \A q \in runs : q.k <= r.k
      BY <1>3, <2>1, LongestIsOne
    <2>4. QED
      BY <1>3, <2>2, <2>3
  <1>5. r.i = 1 /\ r.j = 1 /\ r.k = n
    <2>1. all.alo = 1 /\ all.ahi = n /\ all.blo = 1 /\ all.bhi = n
      BY <1>1
    <2> HIDE DEF all, r
    <2>2. /\ r.i \in Nat /\ r.j \in Nat /\ r.k \in 1..Len(a)
          /\ all.alo <= r.i /\ all.blo <= r.j
          /\ r.i + r.k - 1 <= all.ahi /\ r.j + r.k - 1 <= all.bhi
      BY <1>2, <1>4, RunIs
    <2>3. PICK x, y, z \in Nat : r.i = x /\ r.j = y /\ r.k = z
      BY <1>1, <2>2
    <2>4. /\ 1 <= x /\ 1 <= y /\ z <= n /\ n <= z
          /\ x + z - 1 <= n /\ y + z - 1 <= n
      BY <1>1, <1>4, <2>1, <2>2, <2>3
    <2>5. x = 1 /\ y = 1 /\ z = n
      BY <2>4
    <2>6. QED
      BY <2>3, <2>5
  <1>6. Pairs(r) \subseteq Matched(a, a)
    <2>1. w[all] = Inner(a, a, w, all)
      <3>1. w = [x \in Boxes(a, a) |-> Inner(a, a, w, x)]
        BY WithinIs
      <3> HIDE DEF w, all
      <3>2. QED
        BY <1>2, <3>1
    <2>2. runs # {}
      BY <1>3
    <2> HIDE DEF all, w
    <2>3. Inner(a, a, w, all) = w[Before(all, r)] \cup Pairs(r) \cup w[Behind(all, r)]
      BY <2>2 DEF Inner
    <2>4. Matched(a, a) = w[all]
      BY DEF Matched, w, all
    <2>5. QED
      BY <2>1, <2>3, <2>4
  <1> DEFINE p == [i |-> i, j |-> i]
  <1>7. p \in Pairs(r)
    <2> HIDE DEF r
    <2>1. i - 1 \in 0..(r.k - 1)
      BY <1>1, <1>5
    <2>2. p = [i |-> r.i + (i - 1), j |-> r.j + (i - 1)]
      BY <1>1, <1>5
    <2>3. QED
      BY <2>1, <2>2 DEF Pairs
  <1>8. p \in Marks(a, a) /\ p.i = i /\ p.j = i
    BY <1>6, <1>7 DEF Marks
  <1>9. QED
    BY <1>8

(* So there is no hunk.                                                     *)
LEMMA NoHunks ==
  ASSUME NEW V, NEW a \in Seq(V)
  PROVE  Hunks(a, a) = {}
  <1> DEFINE M == Marks(a, a)
  <1>1. MarksFor(a, a, M)
    BY MarksAre
  <1>2. Hunks(a, a) = {Hunk(a, g) : g \in Gaps(M)}
    BY DEF Hunks
  <1>3. PICK n \in Nat : Len(a) = n
    OBVIOUS
  <1>4. \A i \in 1..n : \E p \in M : p.i = i /\ p.j = i
    BY <1>3, SelfMatched
  <1> HIDE DEF M
  <1>5. \A i \in 0..(n + 1) : \E p \in M : p.i = i /\ p.j = i
    <2>1. \E p \in M : p.i = 0 /\ p.j = 0
      BY <1>1 DEF MarksFor
    <2>2. \E p \in M : p.i = n + 1 /\ p.j = n + 1
      BY <1>1, <1>3 DEF MarksFor
    <2>3. ASSUME NEW i \in 0..(n + 1) PROVE \E p \in M : p.i = i /\ p.j = i
      <3>1. i = 0 \/ i = n + 1 \/ i \in 1..n
        OBVIOUS
      <3>2. QED
        BY <1>4, <2>1, <2>2, <3>1
    <2>4. QED
      BY <2>3
  <1>6. ASSUME NEW g \in Gaps(M) PROVE FALSE
    <2>1. GapIn(M, g)
      BY GapsAre
    <2>2. /\ g.p \in M /\ g.q \in M /\ Next1(M, g.p, g.q)
          /\ g.p.i + 1 < g.q.i \/ g.p.j + 1 < g.q.j
      BY <2>1 DEF GapIn
    <2>3. ASSUME NEW p \in M PROVE p.j = p.i /\ p.i \in 0..(n + 1)
      <3>1. p.i \in 0..(n + 1)
        BY <1>1, <1>3 DEF MarksFor
      <3>2. PICK q \in M : q.i = p.i /\ q.j = p.i
        BY <1>5, <3>1
      <3>3. p = q
        BY <1>1, <3>2, SamePlace
      <3>4. QED
        BY <3>1, <3>2, <3>3
    <2>4. PICK x, y \in Nat : /\ g.p.i = x /\ g.p.j = x /\ g.q.i = y /\ g.q.j = y
                              /\ x <= n + 1 /\ y <= n + 1
      BY <2>2, <2>3
    <2>5. x + 1 < y
      BY <2>2, <2>4
    <2>6. PICK r \in M : r.i = x + 1
      <3>1. x + 1 \in 0..(n + 1)
        BY <2>4, <2>5
      <3>2. QED
        BY <1>5, <3>1
    <2>7. QED
      BY <2>2, <2>4, <2>5, <2>6 DEF Next1
  <1>7. QED
    BY <1>2, <1>6

(* One side has no hunks, or both have the same: the merge copies theirs,   *)
(* hunk by hunk.                                                            *)
Rest(G, p) == {h \in G : p.i < h.from}
Waiting(K, p, side) == ~side.took /\ side.left = Rest(K, p)
TookOne(K, p, h, side) ==
    side.took /\ side.left = Rest(K, p) \ {h} /\ side.out = h.by /\ side.at = h.to + 1

Idle(K, G, p, m) == Waiting(K, p, m.ours) /\ Waiting(G, p, m.theirs)
OursTook(K, G, p, h, m) == K = G /\ TookOne(G, p, h, m.ours) /\ Waiting(G, p, m.theirs)
AllTook(K, G, p, h, m) ==
    /\ TookOne(G, p, h, m.theirs)
    /\ \/ K = {} /\ Waiting({}, p, m.ours)
       \/ K = G /\ TookOne(G, p, h, m.ours)
AtHunk(K, G, p, h, m) ==
    /\ Rest(G, p) # {} /\ h = First(Rest(G, p))
    /\ m.start = h.from /\ m.end = h.to + 1
    /\ OursTook(K, G, p, h, m) \/ AllTook(K, G, p, h, m)
FollowsFrom(c, K, G, m, p) ==
    /\ Copied(c, m.text, m.from, p) /\ ~m.conflict
    /\ Idle(K, G, p, m) \/ \E h : AtHunk(K, G, p, h, m)
Follows(a, c, K, m) == \E p \in Marks(a, c) : FollowsFrom(c, K, Hunks(a, c), m, p)

(* The next hunk, and that the others are behind it.                        *)
LEMMA FirstOfRest ==
  ASSUME NEW V, NEW n \in Nat, NEW G, Separate(G, n, V), NEW p, Rest(G, p) # {},
         NEW h, h = First(Rest(G, p))
  PROVE  /\ h \in G /\ h \in Rest(G, p)
         /\ h.from \in 1..(n + 1) /\ h.to \in 0..n /\ h.from <= h.to + 1 /\ h.by \in Seq(V)
         /\ \A g \in Rest(G, p) : h.from <= g.from
         /\ \A g \in Rest(G, p) \ {h} : h.to + 1 < g.from
  <1>1. h \in Rest(G, p) /\ \A g \in Rest(G, p) : h.from <= g.from
    <2>1. Rest(G, p) \subseteq G \cup G
      BY DEF Rest
    <2>2. QED
      BY <2>1, FirstIs
  <1>2. h \in G
    BY <1>1 DEF Rest
  <1>3. /\ h.from \in 1..(n + 1) /\ h.to \in 0..n /\ h.from <= h.to + 1 /\ h.by \in Seq(V)
    BY <1>2 DEF Separate
  <1>4. ASSUME NEW g \in Rest(G, p) \ {h} PROVE h.to + 1 < g.from
    <2>1. g \in G /\ h.from <= g.from
      BY <1>1 DEF Rest
    <2>2. g.from \in 1..(n + 1) /\ g.to \in 0..n /\ g.from <= g.to + 1
      BY <2>1 DEF Separate
    <2>3. h.to + 1 < g.from \/ g.to + 1 < h.from
      BY <1>2, <2>1 DEF Separate
    <2>4. QED
      BY <1>3, <2>1, <2>2, <2>3
  <1>5. QED
    BY <1>1, <1>2, <1>3, <1>4

JoinsFirst(a, G, p, h, m, side) ==
    Joining(m, side) /\ TookOne(G, p, h, Taken(a, side)) /\ Past(m, side) = h.to + 1

ReadyFor(G, p, h, m, side) ==
    /\ Rest(G, p) # {} /\ h = First(Rest(G, p)) /\ Waiting(G, p, side)
    /\ side.out = <<>> /\ side.at = h.from
    /\ m.start = h.from /\ (m.end = h.from \/ m.end = h.to + 1)

(* A side that waits takes the next hunk.                                   *)
LEMMA TakesFirst ==
  ASSUME NEW V, NEW a, NEW H, NEW G, Changes(V, a, H, G),
         NEW m, NEW side, NEW p, NEW h, ReadyFor(G, p, h, m, side)
  PROVE  JoinsFirst(a, G, p, h, m, side)
  <1>0. /\ Rest(G, p) # {} /\ h = First(Rest(G, p)) /\ Waiting(G, p, side)
        /\ side.out = <<>> /\ side.at = h.from
        /\ m.start = h.from /\ (m.end = h.from \/ m.end = h.to + 1)
    BY DEF ReadyFor
  <1>1. Len(a) \in Nat /\ Separate(G, Len(a), V) /\ a \in Seq(V)
    BY DEF Changes
  <1>2. h.from \in 1..(Len(a) + 1) /\ h.to \in 0..Len(a) /\ h.from <= h.to + 1 /\ h.by \in Seq(V)
    BY <1>0, <1>1, FirstOfRest
  <1>3. side.left = Rest(G, p) /\ First(side.left) = h /\ side.left # {}
    BY <1>0 DEF Waiting
  <1>4. PICK x, y \in Nat : h.from = x /\ h.to + 1 = y /\ h.to < y /\ x <= y /\ x # 0
    <2>1. h.to + 1 \in Nat /\ h.to < h.to + 1 /\ h.from \in Nat /\ h.from # 0
      BY <1>1, <1>2
    <2>2. QED
      BY <1>2, <2>1
  <1>5. Joining(m, side)
    <2>1. Joins(h, m.start, m.end)
      <3>1. CASE h.to < h.from
        <4>1. h.to + 1 <= x
          BY <1>1, <1>2, <1>4, <3>1
        <4>2. x = y
          BY <1>4, <4>1
        <4>3. m.start = x /\ m.end = x
          BY <1>0, <1>4, <4>2
        <4>4. QED
          BY <1>4, <3>1, <4>3 DEF Joins
      <3>2. CASE ~(h.to < h.from)
        <4>1. x < y
          BY <1>1, <1>2, <1>4, <3>2
        <4>2. QED
          BY <1>0, <1>4, <3>2, <4>1 DEF Joins
      <3>3. QED
        BY <3>1, <3>2
    <2>2. QED
      BY <1>3, <2>1 DEF Joining
  <1>6. TookOne(G, p, h, Taken(a, side))
    <2>1. SubSeq(a, x, x - 1) = <<>>
      BY <1>4, SubSeqEmpty
    <2>2. SubSeq(a, side.at, h.from - 1) = <<>>
      BY <1>0, <1>4, <2>1
    <2>3. <<>> \o <<>> \o h.by = h.by
      <3>1. <<>> \o h.by = h.by
        BY <1>2, ConcatEmptySeq
      <3>2. <<>> \o <<>> = <<>>
        BY EmptySeq, ConcatEmptySeq
      <3>3. QED
        BY <3>1, <3>2
    <2>4. Taken(a, side) =
            [left |-> side.left \ {h}, took |-> TRUE, out |-> h.by, at |-> h.to + 1]
      <3>1. side.out \o SubSeq(a, side.at, h.from - 1) \o h.by = h.by
        BY <1>0, <2>2, <2>3
      <3>2. QED
        BY <1>3, <3>1 DEF Taken
    <2> DEFINE by == h.by
               to == h.to + 1
               left == side.left \ {h}
               t == Taken(a, side)
    <2>5. t = [left |-> left, took |-> TRUE, out |-> by, at |-> to]
      BY <2>4
    <2> HIDE DEF by, to, left, t
    <2>6. t.left = left /\ t.took /\ t.out = by /\ t.at = to
      BY <2>5
    <2>7. QED
      BY <1>3, <2>6 DEF TookOne, by, to, left, t
  <1>7. Past(m, side) = h.to + 1
    <2>1. Past(m, side) = IF h.to + 1 > m.end THEN h.to + 1 ELSE m.end
      BY <1>3 DEF Past
    <2>2. QED
      BY <1>0, <1>4, <2>1
  <1>8. QED
    BY <1>5, <1>6, <1>7 DEF JoinsFirst

(* The next hunk starts behind this one, and so does not join.              *)
LEMMA NoSecond ==
  ASSUME NEW V, NEW a, NEW H, NEW G, Changes(V, a, H, G),
         NEW m, NEW side, NEW p, NEW h, Rest(G, p) # {}, h = First(Rest(G, p)),
         side.left = Rest(G, p) \ {h}, m.start = h.from, m.end = h.to + 1
  PROVE  ~Joining(m, side)
  <1> SUFFICES ASSUME side.left # {} PROVE ~Joins(First(side.left), m.start, m.end)
    BY DEF Joining
  <1>1. Len(a) \in Nat /\ Separate(G, Len(a), V)
    BY DEF Changes
  <1>2. /\ h.from \in 1..(Len(a) + 1) /\ h.to \in 0..Len(a) /\ h.from <= h.to + 1
        /\ \A g \in Rest(G, p) \ {h} : h.to + 1 < g.from
    BY <1>1, FirstOfRest
  <1> DEFINE g == First(side.left)
  <1>3. g \in side.left
    <2>1. side.left \subseteq G \cup G
      BY DEF Rest
    <2>2. QED
      BY <1>1, <2>1, FirstIs
  <1> HIDE DEF g
  <1>4. g \in G /\ h.to + 1 < g.from
    BY <1>2, <1>3 DEF Rest
  <1>5. g.from \in 1..(Len(a) + 1)
    BY <1>1, <1>4 DEF Separate
  <1>6. PICK x, y, z \in Nat : h.from = x /\ h.to + 1 = y /\ g.from = z
    <2>1. h.to + 1 \in Nat /\ h.from \in Nat /\ g.from \in Nat
      BY <1>1, <1>2, <1>5
    <2>2. QED
      BY <2>1
  <1>7. x <= y /\ y < z /\ m.start = x /\ m.end = y
    BY <1>2, <1>4, <1>6
  <1>8. QED
    BY <1>6, <1>7 DEF Joins, g

(* Behind a hunk the others are left.                                       *)
LEMMA RestNext ==
  ASSUME NEW V, NEW n \in Nat, NEW G, Separate(G, n, V), NEW p, Rest(G, p) # {},
         NEW h, h = First(Rest(G, p)), NEW q, q.i = h.to + 1,
         NEW x \in Nat, p.i = x
  PROVE  Rest(G, p) \ {h} = Rest(G, q)
  <1>1. /\ h \in G /\ h \in Rest(G, p)
        /\ h.from \in 1..(n + 1) /\ h.to \in 0..n /\ h.from <= h.to + 1
        /\ \A g \in Rest(G, p) \ {h} : h.to + 1 < g.from
    BY FirstOfRest
  <1>2. p.i < h.from
    BY <1>1 DEF Rest
  <1>3. ASSUME NEW g \in Rest(G, p) \ {h} PROVE g \in Rest(G, q)
    BY <1>1, <1>3 DEF Rest
  <1>4. ASSUME NEW g \in Rest(G, q) PROVE g \in Rest(G, p) \ {h}
    <2>1. g \in G /\ h.to + 1 < g.from
      BY <1>4 DEF Rest
    <2>2. g.from \in 1..(n + 1)
      BY <2>1 DEF Separate
    <2>3. PICK y, z, u \in Nat : g.from = y /\ h.from = z /\ h.to + 1 = u
      <3>1. g.from \in Nat /\ h.from \in Nat /\ h.to + 1 \in Nat
        BY <1>1, <2>2
      <3>2. QED
        BY <3>1
    <2>4. u < y /\ z <= u /\ x < z
      BY <1>1, <1>2, <2>1, <2>3
    <2>5. x < y /\ y # z
      BY <2>4
    <2>6. QED
      BY <2>1, <2>3, <2>5 DEF Rest
  <1>5. QED
    BY <1>3, <1>4

(* Where the copy goes on is a line of a, or its end.                       *)
LEMMA CopiedPlace ==
  ASSUME NEW c, NEW text, NEW from, NEW p, Copied(c, text, from, p)
  PROVE  p.i \in Nat /\ p.j \in Nat
  BY DEF Copied

(* The region of one hunk that both have, or they alone.                    *)
StoresHunk(a, m, h) ==
    /\ Settled(m, Applied(a, m, m.ours), Applied(a, m, m.theirs)) = h.by
    /\ ~Clash(m, Applied(a, m, m.ours), Applied(a, m, m.theirs))

(* Either way the region becomes that hunk's lines.                         *)
LEMMA TookSettled ==
  ASSUME NEW V, NEW G, NEW a, NEW m, NEW p, NEW h, h.by \in Seq(V), h.to \in Nat,
         m.end = h.to + 1, NEW K,
         AllTook(K, G, p, h, m)
  PROVE  StoresHunk(a, m, h)
  <1> DEFINE ob == Applied(a, m, m.ours)
             oc == Applied(a, m, m.theirs)
  <1>1. ASSUME NEW side, side.out = h.by, side.at = h.to + 1
        PROVE  Applied(a, m, side) = h.by
    <2>1. PICK x \in Nat : h.to + 1 = x
      OBVIOUS
    <2>2. SubSeq(a, x, x - 1) = <<>>
      BY <2>1, SubSeqEmpty
    <2>3. SubSeq(a, side.at, m.end - 1) = <<>>
      BY <1>1, <2>1, <2>2
    <2>4. h.by \o <<>> = h.by
      BY ConcatEmptySeq
    <2>5. QED
      BY <1>1, <2>3, <2>4 DEF Applied
  <1>2. oc = h.by /\ m.theirs.took
    BY <1>1 DEF AllTook, TookOne
  <1>3. ~m.ours.took \/ ob = h.by
    BY <1>1 DEF AllTook, TookOne, Waiting
  <1> HIDE DEF ob, oc
  <1>4. Settled(m, ob, oc) = h.by
    BY <1>2, <1>3 DEF Settled
  <1>5. ~Clash(m, ob, oc)
    BY <1>2, <1>3 DEF Clash
  <1>6. QED
    BY <1>4, <1>5 DEF ob, oc, StoresHunk

(* And the copy goes on behind it.                                          *)
LEMMA SettledFollows ==
  ASSUME NEW V, NEW a \in Seq(V), NEW c \in Seq(V), NEW K, NEW G, G = Hunks(a, c),
         K = {} \/ K = G, Changes(V, a, K, G),
         NEW m \in MergeStates(V, Len(a), K, G), NEW p \in Marks(a, c), NEW h,
         Copied(c, m.text, m.from, p), ~m.conflict,
         AtHunk(K, G, p, h, m), AllTook(K, G, p, h, m),
         NEW m2, Settles(a, m, m2)
  PROVE  \E q \in Marks(a, c) : FollowsFrom(c, K, G, m2, q)
  <1> DEFINE ob == Applied(a, m, m.ours)
             oc == Applied(a, m, m.theirs)
  <1>1. Len(a) \in Nat /\ Separate(G, Len(a), V)
    BY DEF Changes
  <1>2. /\ Rest(G, p) # {} /\ h = First(Rest(G, p))
        /\ m.start = h.from /\ m.end = h.to + 1
    BY DEF AtHunk
  <1>3. /\ h \in G /\ h \in Rest(G, p)
        /\ h.from \in 1..(Len(a) + 1) /\ h.to \in 0..Len(a) /\ h.by \in Seq(V)
        /\ \A g \in Rest(G, p) : h.from <= g.from
    BY <1>1, <1>2, FirstOfRest
  <1>4. Settled(m, ob, oc) = h.by /\ ~Clash(m, ob, oc)
    <2>1. h.to \in Nat
      BY <1>1, <1>3
    <2>2. StoresHunk(a, m, h)
      BY <1>2, <1>3, <2>1, TookSettled
    <2>3. QED
      BY <2>2 DEF StoresHunk
  <1>5. /\ m2.text = m.text \o SubSeq(a, m.from, m.start - 1) \o Settled(m, ob, oc)
        /\ m2.from = m.end
        /\ m2.conflict = (m.conflict \/ Clash(m, ob, oc))
        /\ m2.ours = Unchanged(m.ours.left, m2.start)
        /\ m2.theirs = Unchanged(m.theirs.left, m2.start)
    BY DEF Settles
  <1> HIDE DEF ob, oc
  <1>6. PICK r, q : Between(a, c, h, r, q)
    BY <1>3, HunkBetween
  <1>7. PICK x, y, ri, rj, qi, qj \in Nat :
            p.i = x /\ p.j = y /\ r.i = ri /\ r.j = rj /\ q.i = qi /\ q.j = qj
    <2>1. /\ r.i \in Nat /\ r.j \in Nat /\ q.i \in Nat /\ q.j \in Nat
          /\ p.i \in Nat /\ p.j \in Nat
      BY <1>6, CopiedPlace DEF Between
    <2>2. QED
      BY <2>1
  <1>20. /\ ri < qi /\ rj < qj /\ qi <= Len(a) + 1 /\ qj <= Len(c) + 1
         /\ h.from = ri + 1 /\ h.to = qi - 1 /\ Len(h.by) = qj - 1 - rj
         /\ \A k \in 1..(qj - 1 - rj) : h.by[k] = c[rj + k]
    BY <1>6, <1>7 DEF Between
  <1>8. r \in Marks(a, c) /\ q \in Marks(a, c)
    BY <1>6 DEF Between
  <1>9. x <= ri /\ ri <= Len(a) /\ m.start - 1 = ri /\ m.end = qi
    <2>1. p.i < h.from
      BY <1>3 DEF Rest
    <2>2. x < ri + 1
      BY <1>7, <1>20, <2>1
    <2>3. x <= ri
      BY <2>2
    <2>4. PICK n \in Nat : Len(a) = n
      BY <1>1
    <2>5. ri < qi /\ qi <= n + 1
      BY <1>20, <2>4
    <2>6. ri <= n
      BY <2>5
    <2>7. m.start = ri + 1
      BY <1>2, <1>20
    <2>8. m.end = (qi - 1) + 1
      BY <1>2, <1>20
    <2>9. m.start - 1 = ri /\ m.end = qi
      <3>1. (ri + 1) - 1 = ri /\ (qi - 1) + 1 = qi
        OBVIOUS
      <3>2. QED
        BY <2>7, <2>8, <3>1
    <2>10. QED
      BY <2>3, <2>4, <2>6, <2>9
  <1>10. \A g \in G : g.from <= p.i \/ ri < g.from
    <2>1. ASSUME NEW g \in G PROVE g.from <= p.i \/ ri < g.from
      <3>1. g.from \in 1..(Len(a) + 1)
        BY <1>1 DEF Separate
      <3>2. CASE p.i < g.from
        <4>1. h.from <= g.from
          BY <1>3, <3>2 DEF Rest
        <4>2. QED
          BY <1>7, <1>20, <3>1, <4>1
      <3>3. QED
        BY <1>7, <1>20, <3>1, <3>2
    <2>2. QED
      BY <2>1
  <1>11. PICK s \in Marks(a, c) : CopiedTo(a, c, m.text, m.from, p, ri, s)
    <2>1. p.i <= ri
      BY <1>7, <1>20, <1>9
    <2>2. QED
      BY <1>9, <1>10, <2>1, Spliced
  <1>12. s = r
    <2>1. MarksFor(a, c, Marks(a, c))
      BY MarksAre
    <2>2. s.i = r.i
      BY <1>7, <1>20, <1>11 DEF CopiedTo
    <2>3. QED
      BY <1>8, <2>1, <2>2, SamePlace
  <1>13. m.text \o SubSeq(a, m.from, m.start - 1) = SubSeq(c, 1, rj)
    BY <1>7, <1>20, <1>9, <1>11, <1>12 DEF CopiedTo
  <1>14. SubSeq(c, 1, rj) \o h.by = SubSeq(c, 1, qj - 1)
    <2>1. rj + Len(h.by) = qj - 1 /\ rj + Len(h.by) <= Len(c)
      BY <1>7, <1>20
    <2>2. \A i \in 1..Len(h.by) : h.by[i] = c[rj + i]
      BY <1>7, <1>20
    <2> DEFINE by == h.by
    <2>3. by \in Seq(V)
      BY <1>3
    <2> HIDE DEF by
    <2>4. SubSeq(c, 1, rj) \o by = SubSeq(c, 1, rj + Len(by))
      <3>1. rj + Len(by) <= Len(c) /\ \A i \in 1..Len(by) : by[i] = c[rj + i]
        BY <2>1, <2>2 DEF by
      <3>2. QED
        BY <2>3, <3>1, Longer, ZenonT(30)
    <2>5. QED
      BY <2>1, <2>4 DEF by
  <1>15. Copied(c, m2.text, m2.from, q)
    <2>1. m2.text = SubSeq(c, 1, qj - 1)
      BY <1>4, <1>5, <1>13, <1>14
    <2>2. m2.from = qi
      BY <1>5, <1>9
    <2>3. qi \in Nat \ {0} /\ qj \in Nat \ {0}
      BY <1>7, <1>20
    <2>4. QED
      BY <1>7, <1>20, <2>1, <2>2, <2>3 DEF Copied
  <1>16. ~m2.conflict
    BY <1>4, <1>5
  <1>17. Rest(G, p) \ {h} = Rest(G, q)
    <2>1. q.i = h.to + 1
      BY <1>2, <1>7, <1>20, <1>9
    <2>2. QED
      BY <1>1, <1>2, <1>7, <1>20, <2>1, RestNext
  <1>18. Idle(K, G, q, m2)
    <2>1. /\ ~m2.ours.took /\ m2.ours.left = m.ours.left
          /\ ~m2.theirs.took /\ m2.theirs.left = m.theirs.left
      BY <1>5, UnchangedIs
    <2>2. m.theirs.left = Rest(G, q)
      BY <1>17 DEF AllTook, TookOne
    <2>3. m.ours.left = Rest(K, q)
      <3>1. Rest({}, p) = {} /\ Rest({}, q) = {}
        BY DEF Rest
      <3>2. QED
        BY <1>17, <3>1 DEF AllTook, TookOne, Waiting
    <2>4. QED
      BY <2>1, <2>2, <2>3 DEF Idle, Waiting
  <1>19. QED
    BY <1>8, <1>15, <1>16, <1>18 DEF FollowsFrom

Same(V, a, c, K, G, m, p) ==
    /\ G = Hunks(a, c) /\ (K = {} \/ K = G) /\ Changes(V, a, K, G)
    /\ m \in MergeStates(V, Len(a), K, G) /\ Forming(m)
    /\ p \in Marks(a, c) /\ Copied(c, m.text, m.from, p) /\ ~m.conflict

(* From nothing taken, from the hunk taken by ours, and by all who have it. *)
LEMMA IdleFollows ==
  ASSUME NEW V, NEW a \in Seq(V), NEW c \in Seq(V), NEW K, NEW G, NEW m, NEW p,
         Same(V, a, c, K, G, m, p), Idle(K, G, p, m)
  PROVE  FollowsFrom(c, K, G, Step(a, m), p)
  <1> DEFINE m2 == Step(a, m)
             h == First(Rest(G, p))
  <1>1. /\ (K = {} \/ K = G) /\ Changes(V, a, K, G)
        /\ m \in MergeStates(V, Len(a), K, G) /\ Forming(m)
        /\ Copied(c, m.text, m.from, p) /\ ~m.conflict
    BY DEF Same
  <1>2. /\ ~m.ours.took /\ m.ours.left = Rest(K, p)
        /\ ~m.theirs.took /\ m.theirs.left = Rest(G, p) /\ Empty(m)
    BY DEF Idle, Waiting, Empty
  <1>3. /\ m.ours.out = <<>> /\ m.ours.at = m.start
        /\ m.theirs.out = <<>> /\ m.theirs.at = m.start
        /\ m.end = m.start /\ (Left1(m) # {} => m.start = First(Left1(m)).from)
    BY <1>1, <1>2 DEF Forming, Begun
  <1>4. Changes(V, a, K, G)
    BY DEF Same
  <1>5. K = {} \/ K = G
    BY DEF Same
  <1>6. Rest({}, p) = {}
    BY DEF Rest
  <1>7. Left1(m) = Rest(G, p)
    BY <1>2, <1>5, <1>6 DEF Left1
  <1>8. OursJoins(a, m, m2) \/ TheirsJoins(a, m, m2) \/ Settles(a, m, m2) \/ Stays(m, m2)
    BY <1>1, StepIs
  <1> HIDE DEF m2
  <1>9. CASE Rest(G, p) = {}
    <2>1. m.ours.left = {} /\ m.theirs.left = {}
      BY <1>2, <1>5, <1>6, <1>9
    <2>2. ~Joining(m, m.ours) /\ ~Joining(m, m.theirs)
      BY <2>1 DEF Joining
    <2>3. m2 = m
      BY <1>2, <1>8, <2>2 DEF OursJoins, TheirsJoins, Settles, Stays
    <2>4. FollowsFrom(c, K, G, m, p)
      BY <1>1 DEF FollowsFrom
    <2>5. QED
      BY <2>3, <2>4 DEF m2
  <1>10. CASE Rest(G, p) # {}
    <2>1. m.start = h.from
      BY <1>3, <1>7, <1>10
    <2>2. h = First(Rest(G, p)) /\ m.end = h.from
      BY <1>3, <2>1
    <2> HIDE DEF h
    <2>3. /\ Joining(m, m.theirs) /\ TookOne(G, p, h, Taken(a, m.theirs))
          /\ Past(m, m.theirs) = h.to + 1
      <3>1. Waiting(G, p, m.theirs)
        BY DEF Idle
      <3>2. ReadyFor(G, p, h, m, m.theirs)
        BY <1>3, <1>10, <2>1, <2>2, <3>1 DEF ReadyFor
      <3>3. JoinsFirst(a, G, p, h, m, m.theirs)
        BY <1>4, <3>2, TakesFirst
      <3>4. QED
        BY <3>3 DEF JoinsFirst
    <2>4. CASE K = {}
      <3>1. ~Joining(m, m.ours)
        BY <1>2, <1>6, <2>4 DEF Joining
      <3>2. TheirsJoins(a, m, m2)
        BY <1>8, <2>3, <3>1 DEF OursJoins, Settles, Stays
      <3>3. /\ m2.theirs = Taken(a, m.theirs) /\ m2.end = Past(m, m.theirs)
            /\ m2.ours = m.ours /\ m2.start = m.start
            /\ m2.text = m.text /\ m2.from = m.from /\ m2.conflict = m.conflict
        BY <3>2 DEF TheirsJoins
      <3>4. AllTook(K, G, p, h, m2)
        BY <1>2, <1>6, <2>3, <2>4, <3>3 DEF AllTook, Waiting
      <3>5. m2.start = h.from /\ m2.end = h.to + 1
        BY <2>1, <2>3, <3>3
      <3>6. AtHunk(K, G, p, h, m2)
        BY <1>10, <2>2, <3>4, <3>5 DEF AtHunk
      <3>7. Copied(c, m2.text, m2.from, p) /\ ~m2.conflict
        BY <1>1, <3>3
      <3>8. QED
        BY <3>6, <3>7 DEF FollowsFrom, m2
    <2>5. CASE K = G
      <3>1. /\ Joining(m, m.ours) /\ TookOne(G, p, h, Taken(a, m.ours))
            /\ Past(m, m.ours) = h.to + 1
        <4>1. Waiting(G, p, m.ours)
          BY <2>5 DEF Idle
        <4>2. ReadyFor(G, p, h, m, m.ours)
          BY <1>3, <1>10, <2>1, <2>2, <4>1 DEF ReadyFor
        <4>3. JoinsFirst(a, G, p, h, m, m.ours)
          BY <1>4, <4>2, TakesFirst
        <4>4. QED
          BY <4>3 DEF JoinsFirst
      <3>2. OursJoins(a, m, m2)
        BY <1>8, <3>1 DEF TheirsJoins, Settles, Stays
      <3>3. /\ m2.ours = Taken(a, m.ours) /\ m2.end = Past(m, m.ours)
            /\ m2.theirs = m.theirs /\ m2.start = m.start
            /\ m2.text = m.text /\ m2.from = m.from /\ m2.conflict = m.conflict
        BY <3>2 DEF OursJoins
      <3>4. OursTook(K, G, p, h, m2)
        BY <1>2, <2>5, <3>1, <3>3 DEF OursTook, Waiting
      <3>5. m2.start = h.from /\ m2.end = h.to + 1
        BY <2>1, <3>1, <3>3
      <3>6. AtHunk(K, G, p, h, m2)
        BY <1>10, <2>2, <3>4, <3>5 DEF AtHunk
      <3>7. Copied(c, m2.text, m2.from, p) /\ ~m2.conflict
        BY <1>1, <3>3
      <3>8. QED
        BY <3>6, <3>7 DEF FollowsFrom, m2
    <2>6. QED
      BY <1>5, <2>4, <2>5
  <1>11. QED
    BY <1>9, <1>10

LEMMA OursTookFollows ==
  ASSUME NEW V, NEW a \in Seq(V), NEW c \in Seq(V), NEW K, NEW G, NEW m, NEW p, NEW h,
         Same(V, a, c, K, G, m, p), AtHunk(K, G, p, h, m), OursTook(K, G, p, h, m)
  PROVE  FollowsFrom(c, K, G, Step(a, m), p)
  <1> DEFINE m2 == Step(a, m)
  <1>1. /\ m \in MergeStates(V, Len(a), K, G) /\ Forming(m)
        /\ Copied(c, m.text, m.from, p) /\ ~m.conflict /\ Changes(V, a, K, G)
    BY DEF Same
  <1>2. /\ Rest(G, p) # {} /\ h = First(Rest(G, p))
        /\ m.start = h.from /\ m.end = h.to + 1
    BY DEF AtHunk
  <1>3. K = G /\ TookOne(G, p, h, m.ours) /\ Waiting(G, p, m.theirs)
    BY DEF OursTook
  <1>4. m.theirs.out = <<>> /\ m.theirs.at = h.from
    BY <1>1, <1>2, <1>3 DEF Forming, Begun, Waiting
  <1>5. ~Joining(m, m.ours)
    <2>1. m.ours.left = Rest(G, p) \ {h}
      BY <1>3 DEF TookOne
    <2>2. QED
      BY <1>1, <1>2, <2>1, NoSecond
  <1>6. /\ Joining(m, m.theirs) /\ TookOne(G, p, h, Taken(a, m.theirs))
        /\ Past(m, m.theirs) = h.to + 1
    <2>1. ReadyFor(G, p, h, m, m.theirs)
      BY <1>2, <1>3, <1>4 DEF ReadyFor
    <2>2. JoinsFirst(a, G, p, h, m, m.theirs)
      BY <1>1, <2>1, TakesFirst
    <2>3. QED
      BY <2>2 DEF JoinsFirst
  <1>7. TheirsJoins(a, m, m2)
    <2>1. OursJoins(a, m, m2) \/ TheirsJoins(a, m, m2) \/ Settles(a, m, m2) \/ Stays(m, m2)
      BY <1>1, StepIs
    <2> HIDE DEF m2
    <2>2. QED
      BY <1>5, <1>6, <2>1 DEF OursJoins, Settles, Stays
  <1> HIDE DEF m2
  <1>8. /\ m2.theirs = Taken(a, m.theirs) /\ m2.end = Past(m, m.theirs)
        /\ m2.ours = m.ours /\ m2.start = m.start
        /\ m2.text = m.text /\ m2.from = m.from /\ m2.conflict = m.conflict
    BY <1>7 DEF TheirsJoins
  <1>9. AllTook(K, G, p, h, m2)
    BY <1>3, <1>6, <1>8 DEF AllTook
  <1>10. m2.start = h.from /\ m2.end = h.to + 1
    BY <1>2, <1>6, <1>8
  <1>11. AtHunk(K, G, p, h, m2)
    BY <1>2, <1>9, <1>10 DEF AtHunk
  <1>12. Copied(c, m2.text, m2.from, p) /\ ~m2.conflict
    BY <1>1, <1>8
  <1>13. QED
    BY <1>11, <1>12 DEF FollowsFrom, m2

LEMMA AllTookFollows ==
  ASSUME NEW V, NEW a \in Seq(V), NEW c \in Seq(V), NEW K, NEW G, NEW m, NEW p, NEW h,
         Same(V, a, c, K, G, m, p), AtHunk(K, G, p, h, m), AllTook(K, G, p, h, m)
  PROVE  \E q \in Marks(a, c) : FollowsFrom(c, K, G, Step(a, m), q)
  <1> DEFINE m2 == Step(a, m)
  <1>1. /\ m \in MergeStates(V, Len(a), K, G) /\ Forming(m)
        /\ Copied(c, m.text, m.from, p) /\ ~m.conflict /\ Changes(V, a, K, G)
        /\ G = Hunks(a, c) /\ p \in Marks(a, c)
    BY DEF Same
  <1>2. /\ Rest(G, p) # {} /\ h = First(Rest(G, p))
        /\ m.start = h.from /\ m.end = h.to + 1
    BY DEF AtHunk
  <1>3. K = {} \/ K = G
    BY DEF Same
  <1>4. ~Joining(m, m.theirs)
    <2>1. m.theirs.left = Rest(G, p) \ {h}
      BY DEF AllTook, TookOne
    <2>2. QED
      BY <1>1, <1>2, <2>1, NoSecond
  <1>5. ~Joining(m, m.ours)
    <2>1. CASE m.ours.left = Rest(G, p) \ {h}
      BY <1>1, <1>2, <2>1, NoSecond
    <2>2. CASE m.ours.left = {}
      BY <2>2 DEF Joining
    <2>3. QED
      BY <2>1, <2>2 DEF AllTook, TookOne, Waiting, Rest
  <1>6. Settles(a, m, m2)
    <2>1. OursJoins(a, m, m2) \/ TheirsJoins(a, m, m2) \/ Settles(a, m, m2) \/ Stays(m, m2)
      BY <1>1, StepIs
    <2>2. ~Empty(m)
      BY DEF AllTook, TookOne, Empty
    <2> HIDE DEF m2
    <2>3. QED
      BY <1>4, <1>5, <2>1, <2>2 DEF OursJoins, TheirsJoins, Stays
  <1> HIDE DEF m2
  <1>7. \E q \in Marks(a, c) : FollowsFrom(c, K, G, m2, q)
    BY <1>1, <1>3, <1>6, SettledFollows
  <1>8. QED
    BY <1>7 DEF m2

(* So each step follows.                                                    *)
LEMMA StepFollows ==
  ASSUME NEW V, NEW a \in Seq(V), NEW c \in Seq(V), NEW K,
         K = {} \/ K = Hunks(a, c), Changes(V, a, K, Hunks(a, c)),
         NEW m \in MergeStates(V, Len(a), K, Hunks(a, c)), Forming(m), Follows(a, c, K, m)
  PROVE  Follows(a, c, K, Step(a, m))
  <1> DEFINE G == Hunks(a, c)
  <1>1. PICK p \in Marks(a, c) : FollowsFrom(c, K, G, m, p)
    BY DEF Follows
  <1>2. Same(V, a, c, K, G, m, p)
    BY <1>1 DEF Same, FollowsFrom
  <1> HIDE DEF G
  <1>3. \E q \in Marks(a, c) : FollowsFrom(c, K, G, Step(a, m), q)
    <2>1. CASE Idle(K, G, p, m)
      BY <1>2, <2>1, IdleFollows
    <2>2. CASE \E h : AtHunk(K, G, p, h, m)
      <3>1. PICK h : AtHunk(K, G, p, h, m)
        BY <2>2
      <3>2. CASE OursTook(K, G, p, h, m)
        BY <1>2, <3>1, <3>2, OursTookFollows
      <3>3. CASE AllTook(K, G, p, h, m)
        BY <1>2, <3>1, <3>3, AllTookFollows
      <3>4. QED
        BY <3>1, <3>2, <3>3 DEF AtHunk
    <2>3. QED
      BY <1>1, <2>1, <2>2 DEF FollowsFrom
  <1>4. QED
    BY <1>3 DEF Follows, G

(* A side that changed nothing gives way to the other, and equal ones give  *)
(* themselves.                                                              *)
THEOREM MergeOfSame ==
  ASSUME NEW V, {Yours, Equals, Theirs} \subseteq V,
         NEW a \in Seq(V), NEW b \in Seq(V), NEW c \in Seq(V), b = a \/ b = c
  PROVE  Merge3(a, b, c) = [text |-> c, conflict |-> FALSE]
  <1> DEFINE K == Hunks(a, b)
             G == Hunks(a, c)
             I == {m \in Merging(V, a, K, G) : Follows(a, c, K, m)}
             begin == Begin(a, K, G)
  <1>1. Changes(V, a, K, G)
    BY HunksSeparate DEF Changes
  <1>2. K = {} \/ K = G
    <2>1. CASE b = a
      <3>1. Hunks(a, a) = {}
        BY NoHunks
      <3>2. QED
        BY <2>1, <3>1
    <2>2. CASE b = c
      BY <2>2
    <2>3. QED
      BY <2>1, <2>2
  <1>3. begin \in I
    <2>1. MarksFor(a, c, Marks(a, c))
      BY MarksAre
    <2>2. PICK p \in Marks(a, c) : p.i = 0 /\ p.j = 0
      BY <2>1 DEF MarksFor
    <2>3. /\ begin \in MergeStates(V, Len(a), K, G) /\ Forming(begin)
          /\ begin.text = <<>> /\ begin.from = 1 /\ ~begin.conflict
          /\ begin.ours = Unchanged(K, begin.start) /\ begin.theirs = Unchanged(G, begin.start)
      <3> HIDE DEF K, G
      <3> QED BY <1>1, BeginIs
    <2>4. Rest(G, p) = G /\ Rest(K, p) = K
      <3>1. ASSUME NEW H, Separate(H, Len(a), V) PROVE Rest(H, p) = H
        <4>1. ASSUME NEW h \in H PROVE p.i < h.from
          <5>1. h.from \in 1..(Len(a) + 1)
            BY <3>1, <4>1 DEF Separate
          <5>2. QED
            BY <2>2, <5>1
        <4>2. QED
          BY <4>1 DEF Rest
      <3>2. Separate(K, Len(a), V) /\ Separate(G, Len(a), V)
        BY <1>1 DEF Changes
      <3> HIDE DEF K, G
      <3>3. QED
        BY <3>1, <3>2
    <2> HIDE DEF begin, K, G
    <2>5. /\ ~begin.ours.took /\ begin.ours.left = K
          /\ ~begin.theirs.took /\ begin.theirs.left = G
      BY <2>3, UnchangedIs
    <2>6. Idle(K, G, p, begin)
      BY <2>4, <2>5 DEF Idle, Waiting
    <2>7. Copied(c, begin.text, begin.from, p)
      BY <2>2, <2>3 DEF Copied
    <2>8. FollowsFrom(c, K, G, begin, p)
      BY <2>3, <2>6, <2>7 DEF FollowsFrom
    <2>9. QED
      BY <2>3, <2>8 DEF Merging, Follows, G
  <1>4. \A m \in I : Step(a, m) \in I
    <2>1. ASSUME NEW m \in I PROVE Step(a, m) \in I
      <3>1. m \in MergeStates(V, Len(a), K, G) /\ Forming(m) /\ Follows(a, c, K, m)
        BY DEF Merging
      <3> HIDE DEF K
      <3>2. Follows(a, c, K, Step(a, m))
        BY <1>1, <1>2, <3>1, StepFollows
      <3> HIDE DEF G
      <3>3. Step(a, m) \in MergeStates(V, Len(a), K, G) /\ Forming(Step(a, m))
        BY <1>1, <3>1, StepType, StepForming
      <3>4. QED
        BY <3>2, <3>3 DEF Merging
    <2>2. QED
      BY <2>1
  <1>5. PICK m \in I : Ended(m) /\ Merge3(a, b, c) = Result(a, m)
    <2>1. I \in SUBSET Merging(V, a, K, G)
      OBVIOUS
    <2> HIDE DEF I
    <2>2. QED
      BY <1>1, <1>3, <1>4, <2>1, MergeEnds
  <1>6. PICK p \in Marks(a, c) : FollowsFrom(c, K, G, m, p)
    BY DEF Follows
  <1> HIDE DEF K, G
  <1>7. Copied(c, m.text, m.from, p) /\ ~m.conflict
    BY <1>6 DEF FollowsFrom
  <1>8. m.theirs.left = {} /\ ~m.theirs.took
    BY <1>5 DEF Ended, Left1, Empty
  <1>9. Rest(G, p) = {}
    <2>1. \A h : ~AtHunk(K, G, p, h, m)
      <3> SUFFICES ASSUME NEW h, AtHunk(K, G, p, h, m) PROVE FALSE
        OBVIOUS
      <3>1. Rest(G, p) # {} /\ (OursTook(K, G, p, h, m) \/ AllTook(K, G, p, h, m))
        BY DEF AtHunk
      <3>2. QED
        BY <1>8, <3>1 DEF OursTook, AllTook, TookOne, Waiting
    <2>2. Idle(K, G, p, m)
      BY <1>6, <2>1 DEF FollowsFrom
    <2>3. QED
      BY <1>8, <2>2 DEF Idle, Waiting
  <1>10. \A h \in Hunks(a, c) : h.from <= p.i
    <2>1. ASSUME NEW h \in Hunks(a, c) PROVE h.from <= p.i
      <3>1. ~(p.i < h.from)
        BY <1>9 DEF Rest, G
      <3>2. p.i \in Nat
        BY <1>7, CopiedPlace
      <3>3. h.from \in 1..(Len(a) + 1)
        BY <1>1 DEF Changes, Separate, G
      <3>4. QED
        BY <3>1, <3>2, <3>3
    <2>2. QED
      BY <2>1
  <1>11. CopiedAll(a, c, m.text, m.from)
    BY <1>7, <1>10, SplicedEnd
  <1>12. m.conflict = FALSE
    <2>1. m.conflict \in BOOLEAN
      <3>1. m \in MergeStates(V, Len(a), K, G)
        BY DEF Merging
      <3>2. QED
        BY <3>1, Fields
    <2>2. QED
      BY <1>7, <2>1
  <1>13. QED
    BY <1>5, <1>11, <1>12 DEF Result, CopiedAll

(* ------------------------- the lines of a content ------------------------ *)

(* Growing by the lines in S, Only gathers those of the first i lines.      *)
Gathers(f, s, S) ==
    \A i \in 0..Len(s) :
        f[i] = IF i = 0 THEN <<>>
               ELSE IF s[i] \in S THEN Append(f[i - 1], s[i]) ELSE f[i - 1]

(* The recursion of Only comes to an end.                                   *)
LEMMA OnlyGathers ==
  ASSUME NEW V, NEW s \in Seq(V), NEW S
  PROVE  \E f \in [0..Len(s) -> Seq(V)] : Gathers(f, s, S) /\ Only(s, S) = f[Len(s)]
  <1> DEFINE n == Len(s)
             Q == Seq(V)
             t == [i \in Nat |-> [u \in Q |->
                      IF i + 1 \in 1..n /\ s[i + 1] \in S THEN Append(u, s[i + 1]) ELSE u]]
  <1>1. n \in Nat /\ \A i \in 1..n : s[i] \in V
    BY LenProperties, ElementOfSeq
  <1>2. t \in [Nat -> [Q -> Q]]
    <2>1. ASSUME NEW i \in Nat, NEW u \in Q
          PROVE  (IF i + 1 \in 1..n /\ s[i + 1] \in S THEN Append(u, s[i + 1]) ELSE u) \in Q
      <3>1. CASE i + 1 \in 1..n /\ s[i + 1] \in S
        <4>1. s[i + 1] \in V
          BY <1>1, <3>1
        <4>2. Append(u, s[i + 1]) \in Seq(V)
          BY <4>1, AppendProperties
        <4>3. QED
          BY <3>1, <4>2
      <3>2. QED
        BY <3>1
    <2> HIDE DEF Q, n
    <2>2. QED
      BY <2>1
  <1>3. <<>> \in Q
    BY EmptySeq
  <1>4. PICK g \in [Nat -> Q] : Iteration(g, <<>>, t)
    <2> HIDE DEF Q, t
    <2> QED BY <1>2, <1>3, Iterates
  <1> DEFINE f == [i \in 0..n |-> g[i]]
             rule(h, i) == IF i = 0 THEN <<>>
                           ELSE IF s[i] \in S THEN Append(h[i - 1], s[i]) ELSE h[i - 1]
  <1>5. ASSUME NEW i \in 0..n PROVE f[i] = rule(f, i)
    <2>1. CASE i = 0
      <3>1. f[i] = g[0]
        BY <2>1
      <3>2. g[0] = <<>>
        BY <1>4 DEF Iteration
      <3> HIDE DEF f
      <3>3. QED
        BY <2>1, <3>1, <3>2
    <2>2. CASE i # 0
      <3>1. i - 1 \in Nat /\ (i - 1) + 1 = i /\ i - 1 \in 0..n /\ i \in 1..n
        BY <1>1, <2>2
      <3>2. g[(i - 1) + 1] = t[i - 1][g[i - 1]]
        <4> HIDE DEF t
        <4> QED BY <1>4, <3>1 DEF Iteration
      <3>3. g[i - 1] \in Q
        BY <1>4, <3>1
      <3>4. t[i - 1][g[i - 1]] =
              IF (i - 1) + 1 \in 1..n /\ s[(i - 1) + 1] \in S
              THEN Append(g[i - 1], s[(i - 1) + 1]) ELSE g[i - 1]
        <4> HIDE DEF Q, n
        <4> QED BY <3>1, <3>3
      <3>5. g[i] = IF s[i] \in S THEN Append(g[i - 1], s[i]) ELSE g[i - 1]
        <4> HIDE DEF t, n, Q
        <4> QED BY <3>1, <3>2, <3>4
      <3>6. f[i] = g[i] /\ f[i - 1] = g[i - 1]
        BY <3>1
      <3> HIDE DEF f
      <3>7. QED
        BY <2>2, <3>5, <3>6
    <2>3. QED
      BY <2>1, <2>2
  <1>6. f \in [0..n -> Q]
    <2> HIDE DEF Q, n
    <2> QED BY <1>1, <1>4
  <1> DEFINE only == CHOOSE h : h = [i \in 0..Len(s) |-> rule(h, i)]
  <1>7. f = [i \in 0..Len(s) |-> rule(f, i)]
    <2>1. f = [i \in 0..n |-> f[i]]
      OBVIOUS
    <2> HIDE DEF f, rule
    <2>2. QED
      BY <1>5, <2>1
  <1>8. only = [i \in 0..Len(s) |-> rule(only, i)]
    <2> HIDE DEF f
    <2> QED BY <1>7
  <1>9. Only(s, S) = only[n]
    BY DEF Only
  <1> HIDE DEF only
  <1>10. \A i \in 0..n : only[i] = f[i]
    <2> DEFINE E == {i \in Nat : i <= n => only[i] = f[i]}
    <2>1. \A i \in 0..n : only[i] = rule(only, i)
      <3> HIDE DEF rule
      <3> QED BY <1>8
    <2>2. 0 \in E
      <3>1. only[0] = <<>> /\ f[0] = <<>>
        <4>1. 0 \in 0..n
          BY <1>1
        <4> HIDE DEF f
        <4>2. QED
          BY <1>5, <2>1, <4>1
      <3>2. QED
        BY <3>1
    <2>3. ASSUME NEW i \in Nat, i \in E PROVE i + 1 \in E
      <3>1. CASE i + 1 <= n
        <4>1. i + 1 \in 0..n /\ (i + 1) - 1 = i /\ i + 1 # 0 /\ only[i] = f[i]
          BY <1>1, <2>3, <3>1, SMTT(30)
        <4>2. rule(only, i + 1) = rule(f, i + 1)
          <5> HIDE DEF f
          <5> QED BY <4>1
        <4> HIDE DEF f, rule
        <4>3. only[i + 1] = rule(only, i + 1)
          BY <2>1, <4>1
        <4>4. f[i + 1] = rule(f, i + 1)
          BY <1>5, <4>1
        <4>5. QED
          BY <4>2, <4>3, <4>4
      <3>2. QED
        BY <3>1
    <2>4. Nat \subseteq E
      <3> HIDE DEF E
      <3> QED BY <2>2, <2>3, NatSteps
    <2>5. ASSUME NEW i \in 0..n PROVE only[i] = f[i]
      <3>1. i \in Nat /\ i <= n
        BY <1>1
      <3> HIDE DEF f
      <3>2. QED
        BY <2>4, <3>1
    <2>6. QED
      BY <2>5
  <1>11. Only(s, S) = f[Len(s)]
    <2> HIDE DEF f
    <2> QED BY <1>1, <1>9, <1>10
  <1>12. Gathers(f, s, S)
    <2> HIDE DEF f
    <2> QED BY <1>5 DEF Gathers
  <1> HIDE DEF f
  <1>13. QED
    BY <1>6, <1>11, <1>12

(* A line more.                                                             *)
LEMMA RangeAppend ==
  ASSUME NEW V, NEW s \in Seq(V), NEW x \in V
  PROVE  Append(s, x) \in Seq(V) /\ Range(Append(s, x)) = Range(s) \cup {x}
  <1> DEFINE t == Append(s, x)
  <1>1. t \in Seq(V) /\ Len(t) = Len(s) + 1 /\ t[Len(s) + 1] = x
        /\ \A i \in 1..Len(s) : t[i] = s[i]
    BY AppendProperties
  <1>2. Len(s) \in Nat
    BY LenProperties
  <1> HIDE DEF t
  <1>3. \A y : y \in Range(t) <=> \E i \in 1..(Len(s) + 1) : t[i] = y
    BY <1>1, RangeIs
  <1>4. \A y : y \in Range(s) <=> \E i \in 1..Len(s) : s[i] = y
    BY RangeIs
  <1>5. ASSUME NEW y PROVE y \in Range(t) <=> y \in Range(s) \cup {x}
    <2>1. ASSUME y \in Range(t) PROVE y \in Range(s) \cup {x}
      <3>1. PICK i \in 1..(Len(s) + 1) : t[i] = y
        BY <1>3, <2>1
      <3>2. i = Len(s) + 1 \/ i \in 1..Len(s)
        BY <1>2
      <3>3. QED
        BY <1>1, <1>4, <3>1, <3>2
    <2>2. ASSUME y \in Range(s) \cup {x} PROVE y \in Range(t)
      <3>1. \A i \in 1..Len(s) : i \in 1..(Len(s) + 1)
        BY <1>2
      <3>2. Len(s) + 1 \in 1..(Len(s) + 1)
        BY <1>2
      <3>3. QED
        BY <1>1, <1>3, <1>4, <2>2, <3>1, <3>2
    <2>3. QED
      BY <2>1, <2>2
  <1>6. Range(t) = Range(s) \cup {x}
    BY <1>5
  <1>7. QED
    BY <1>1, <1>6 DEF t

(* Only has the lines that are in S, and no others.                         *)
LEMMA OnlyIs ==
  ASSUME NEW V, NEW s \in Seq(V), NEW S
  PROVE  Only(s, S) \in Seq(V) /\ Range(Only(s, S)) = Range(s) \cap S
  <1>1. PICK f \in [0..Len(s) -> Seq(V)] : Gathers(f, s, S) /\ Only(s, S) = f[Len(s)]
    BY OnlyGathers
  <1>2. Len(s) \in Nat /\ \A i \in 1..Len(s) : s[i] \in V
    BY LenProperties, ElementOfSeq
  <1> DEFINE Upto(i) == {s[k] : k \in 1..i}
             E == {i \in Nat : i <= Len(s) => Range(f[i]) = Upto(i) \cap S}
  <1>3. 0 \in E
    <2>1. f[0] = <<>>
      BY <1>1, <1>2 DEF Gathers
    <2>2. Range(<<>>) = {}
      BY DEF Range
    <2>3. Upto(0) = {}
      OBVIOUS
    <2>4. QED
      BY <2>1, <2>2, <2>3
  <1>4. ASSUME NEW i \in Nat, i \in E PROVE i + 1 \in E
    <2>1. CASE i + 1 <= Len(s)
      <3>1. i + 1 \in 0..Len(s) /\ (i + 1) - 1 = i /\ i + 1 # 0 /\ i \in 0..Len(s) /\ i + 1 \in 1..Len(s)
        BY <1>2, <2>1
      <3>2. f[i + 1] = IF s[i + 1] \in S THEN Append(f[i], s[i + 1]) ELSE f[i]
        BY <1>1, <3>1 DEF Gathers
      <3>3. f[i] \in Seq(V) /\ s[i + 1] \in V /\ Range(f[i]) = Upto(i) \cap S
        BY <1>1, <1>2, <1>4, <3>1
      <3>4. Upto(i + 1) = Upto(i) \cup {s[i + 1]}
        <4>1. 1..(i + 1) = (1..i) \cup {i + 1}
          OBVIOUS
        <4>2. QED
          BY <4>1
      <3> HIDE DEF Upto
      <3>5. CASE s[i + 1] \in S
        <4>1. Range(f[i + 1]) = Range(f[i]) \cup {s[i + 1]}
          BY <3>2, <3>3, <3>5, RangeAppend
        <4>2. Range(f[i + 1]) = Upto(i + 1) \cap S
          BY <3>3, <3>4, <3>5, <4>1
        <4>3. QED
          BY <4>2
      <3>6. CASE s[i + 1] \notin S
        <4>1. Range(f[i + 1]) = Upto(i + 1) \cap S
          BY <3>2, <3>3, <3>4, <3>6
        <4>2. QED
          BY <4>1
      <3>7. QED
        BY <3>5, <3>6
    <2>2. QED
      BY <2>1
  <1>5. Nat \subseteq E
    <2> HIDE DEF E
    <2> QED BY <1>3, <1>4, NatSteps
  <1>6. Range(f[Len(s)]) = Upto(Len(s)) \cap S
    BY <1>2, <1>5
  <1>7. Upto(Len(s)) = Range(s)
    BY RangeIs
  <1>8. f[Len(s)] \in Seq(V)
    BY <1>1, <1>2
  <1> HIDE DEF Upto
  <1>9. QED
    BY <1>1, <1>6, <1>7, <1>8

Marked == {Yours, Equals, Theirs}
AnyLine == Lines \cup Marked

(* Items and markers are lines.                                             *)
LEMMA LineTypes == Items \subseteq AnyLine /\ Marked \subseteq AnyLine /\ Contents = Seq(AnyLine)
  BY DEF AnyLine, Marked, Lines, Contents

(* A line put in at a place, taken out of it, and put in its stead.         *)
LEMMA LinePutIn ==
  ASSUME NEW s \in Contents, NEW i \in 1..(Len(s) + 1), NEW l \in AnyLine
  PROVE  InsertAt(s, i, l) \in Contents
  <1>1. s \in Seq(AnyLine) /\ Len(s) \in Nat
    BY LineTypes, LenProperties
  <1> DEFINE before == SubSeq(s, 1, i - 1)
             behind == SubSeq(s, i, Len(s))
             one == <<l>>
  <1>2. before \in Seq(AnyLine) /\ behind \in Seq(AnyLine)
    <2>1. i - 1 \in Int /\ i - 1 <= Len(s) /\ i \in Nat \ {0} /\ 1 \in Nat \ {0} /\ Len(s) \in Int
      BY <1>1
    <2>2. QED
      BY <1>1, <2>1, Piece
  <1>3. one \in Seq(AnyLine)
    OBVIOUS
  <1>4. InsertAt(s, i, l) = before \o one \o behind
    BY DEF InsertAt
  <1> HIDE DEF before, behind, one
  <1>5. before \o one \in Seq(AnyLine)
    BY <1>2, <1>3, RangeConcat
  <1>6. before \o one \o behind \in Seq(AnyLine)
    BY <1>2, <1>5, RangeConcat
  <1>7. QED
    BY <1>4, <1>6, LineTypes

LEMMA LineTakenOut ==
  ASSUME NEW s \in Contents, NEW i \in 1..Len(s)
  PROVE  RemoveAt(s, i) \in Contents
  <1>1. s \in Seq(AnyLine) /\ Len(s) \in Nat
    BY LineTypes, LenProperties
  <1> DEFINE before == SubSeq(s, 1, i - 1)
             behind == SubSeq(s, i + 1, Len(s))
  <1>2. before \in Seq(AnyLine) /\ behind \in Seq(AnyLine)
    <2>1. /\ i - 1 \in Int /\ i - 1 <= Len(s) /\ i + 1 \in Nat \ {0} /\ 1 \in Nat \ {0}
          /\ Len(s) \in Int
      BY <1>1
    <2>2. QED
      BY <1>1, <2>1, Piece
  <1>3. RemoveAt(s, i) = before \o behind
    BY DEF RemoveAt
  <1> HIDE DEF before, behind
  <1>4. QED
    BY <1>2, <1>3, RangeConcat, LineTypes

LEMMA LineReplaced ==
  ASSUME NEW s \in Contents, NEW i \in 1..Len(s), NEW l \in AnyLine
  PROVE  ReplaceAt(s, i, l) \in Contents
  <1>1. s \in Seq(AnyLine)
    BY LineTypes
  <1>2. [s EXCEPT ![i] = l] \in Seq(AnyLine)
    BY <1>1
  <1>3. QED
    BY <1>2, LineTypes DEF ReplaceAt

(* What is typed is a content.                                              *)
LEMMA EditedTypes ==
  ASSUME NEW s \in Contents
  PROVE  Edited(s) \subseteq Contents
  <1> DEFINE fresh == Items \ Range(s)
             put == {InsertAt(s, i, l) : i \in 1..(Len(s) + 1), l \in fresh}
             out == {RemoveAt(s, i) : i \in 1..Len(s)}
             new == {ReplaceAt(s, i, l) : i \in 1..Len(s), l \in fresh}
  <1>1. \A l \in fresh : l \in AnyLine
    BY LineTypes
  <1>2. put \subseteq Contents
    BY <1>1, LinePutIn
  <1>3. out \subseteq Contents
    BY LineTakenOut
  <1>4. new \subseteq Contents
    BY <1>1, LineReplaced
  <1>5. Edited(s) = put \cup out \cup new
    BY DEF Edited
  <1> HIDE DEF put, out, new
  <1>6. QED
    BY <1>2, <1>3, <1>4, <1>5

(* The union keeps the text, and of the stored lines all but those it has   *)
(* finished.                                                                *)
LEMMA UnionIs ==
  ASSUME NEW ours \in Contents, NEW theirs \in Contents
  PROVE  /\ UnionOf(ours, theirs) \in Contents
         /\ \A l \in Range(theirs) \ Range(UnionOf(ours, theirs)) :
                \E m \in Range(ours) : <<l, m>> \in Grows
  <1> DEFINE kept == {l \in Range(theirs) \ Range(ours) :
                         \A m \in Range(ours) : <<l, m>> \notin Grows}
             rest == Only(theirs, kept)
             all == ours \o rest
  <1>1. ours \in Seq(AnyLine) /\ theirs \in Seq(AnyLine)
    BY LineTypes
  <1>2. rest \in Seq(AnyLine) /\ Range(rest) = Range(theirs) \cap kept
    <2> HIDE DEF kept
    <2> QED BY <1>1, OnlyIs
  <1>3. UnionOf(ours, theirs) = all
    BY DEF UnionOf
  <1>4. all \in Seq(AnyLine) /\ Range(all) = Range(ours) \cup Range(rest)
    <2> HIDE DEF rest
    <2> QED BY <1>1, <1>2, RangeConcat
  <1> HIDE DEF rest, all
  <1>5. \A l \in Range(theirs) \ Range(all) : \E m \in Range(ours) : <<l, m>> \in Grows
    BY <1>2, <1>4
  <1>6. QED
    BY <1>3, <1>4, <1>5, LineTypes

(* What a save stores is a content.                                         *)
LEMMA StoredTypes ==
  ASSUME NEW e \in Editors, editor[e].base \in Contents, editor[e].text \in Contents,
         content \in Contents
  PROVE  ToStore(e) \in Contents
  <1> DEFINE base == editor[e].base
             text == editor[e].text
             merged == Merge3(base, text, content).text
             union == UnionOf(text, content)
  <1>1. base \in Seq(AnyLine) /\ text \in Seq(AnyLine) /\ content \in Seq(AnyLine) /\ Marked \subseteq AnyLine
    BY LineTypes
  <1>2. merged \in Seq(AnyLine)
    <2> HIDE DEF base, text
    <2>1. {Yours, Equals, Theirs} \subseteq AnyLine
      BY <1>1 DEF Marked
    <2>2. QED
      BY <1>1, <2>1, MergeCarries
  <1>3. union \in Contents
    BY UnionIs
  <1>4. ToStore(e) = text \/ ToStore(e) = merged \/ ToStore(e) = union
    BY DEF ToStore
  <1> HIDE DEF base, text, merged, union
  <1>5. QED
    BY <1>1, <1>2, <1>3, <1>4, LineTypes

(* ------------------------------- the tabs -------------------------------- *)

Ats == {"closed", "open", "awaiting", "left"}
Tabs == [at : Ats, base : Contents, text : Contents, saved : Contents,
         first : BOOLEAN, behind : BOOLEAN, reply : Replies \cup {NoReply},
         seen : SUBSET AnyLine, alone : BOOLEAN]
TabOK(ed) == ed \in Tabs /\ (ed.reply # NoReply <=> ed.at = "awaiting")

(* What a tab knows of the stored content.  Its text holds lines it has     *)
(* shown; so does its base, and the base it is about to get, unless a merge *)
(* added lines to them that its text lacks.  What it believes to be the     *)
(* present content is: the base of a tab not behind, and of one that nobody *)
(* interfered with.                                                         *)
Sees(ed, lacks) ==
    /\ Range(ed.text) \subseteq ed.seen
    /\ ~lacks => /\ Range(ed.base) \subseteq ed.seen
                 /\ ed.at = "awaiting" => Range(ed.reply.base) \subseteq ed.seen
Current(ed, stored) ==
    /\ ~ed.behind => ed.base = stored
    /\ ed.at = "awaiting" /\ ~ed.reply.behind => ed.reply.base = stored
    /\ ed.alone /\ ed.at = "open" => ed.base = stored
    /\ ed.alone /\ ed.at = "awaiting" => ed.reply.base = stored
Knows(ed, stored, lacks) ==
    ed.at \in {"open", "awaiting"} => Sees(ed, lacks) /\ Current(ed, stored)

StateTypes ==
    /\ content \in Contents
    /\ versions \subseteq Contents
    /\ retired \in BOOLEAN
    /\ editor \in [Editors -> Tabs]
    /\ events \in 0..MaxEvents
    /\ unshown \subseteq Editors
TabsInv ==
    \A e \in Editors : TabOK(editor[e]) /\ Knows(editor[e], content, e \in unshown)
InflightInv == StateTypes /\ TabsInv

(* A tab that is not open knows nothing, and need not.                      *)
LEMMA NoTab ==
  ASSUME NEW stored, NEW lacks
  PROVE  /\ TabOK(Closed) /\ Knows(Closed, stored, lacks)
         /\ TabOK(Left) /\ Knows(Left, stored, lacks)
  <1>1. <<>> \in Contents
    BY LineTypes, EmptySeq
  <1> DEFINE none == <<>>
  <1>2. Closed = [at |-> "closed", base |-> none, text |-> none, saved |-> none,
                  first |-> TRUE, behind |-> FALSE, reply |-> NoReply,
                  seen |-> {}, alone |-> TRUE]
    BY DEF Closed
  <1>3. none \in Contents
    BY <1>1
  <1> HIDE DEF none
  <1>4. Closed \in Tabs /\ Closed.at = "closed" /\ Closed.reply = NoReply
    BY <1>2, <1>3 DEF Tabs, Ats
  <1>5. Left \in Tabs /\ Left.at = "left" /\ Left.reply = NoReply
    BY <1>4 DEF Left, Tabs, Ats
  <1>6. QED
    BY <1>4, <1>5 DEF TabOK, Knows

(* Somebody else saves: the tab is behind, with the answer to come.         *)
LEMMA OvertakenTab ==
  ASSUME NEW f, NEW text, NEW lacks,
         TabOK(editor[f]), Knows(editor[f], content, lacks)
  PROVE  TabOK(Overtaken(f, text)) /\ Knows(Overtaken(f, text), text, lacks)
  <1> DEFINE ed == editor[f]
             new == Overtaken(f, text)
             same == text = content
             answer == IF ed.reply = NoReply THEN NoReply
                       ELSE [ed.reply EXCEPT !.behind = TRUE]
  <1>1. ed \in Tabs /\ (ed.reply # NoReply <=> ed.at = "awaiting") /\ Knows(ed, content, lacks)
    BY DEF TabOK
  <1>2. /\ answer \in Replies \cup {NoReply} /\ (answer = NoReply <=> ed.reply = NoReply)
        /\ ed.reply # NoReply => answer.base = ed.reply.base /\ answer.behind
    <2>1. CASE ed.reply = NoReply
      BY <2>1
    <2>2. CASE ed.reply # NoReply
      <3>1. ed.reply \in Replies
        BY <1>1, <2>2 DEF Tabs
      <3> DEFINE r == ed.reply
                 s == [r EXCEPT !.behind = TRUE]
      <3>2. r \in Replies
        BY <3>1
      <3> HIDE DEF r
      <3>3. s \in Replies /\ s.base = r.base /\ s.behind
        BY <3>2 DEF Replies
      <3>4. s # NoReply
        BY <3>3, InflightAssumption
      <3>5. answer = s
        BY <2>2 DEF r
      <3> HIDE DEF s, answer
      <3>6. QED
        BY <2>2, <3>3, <3>4, <3>5 DEF r
    <2>3. QED
      BY <2>1, <2>2
  <1>3. new = [ed EXCEPT !.behind = TRUE, !.alone = ed.alone /\ same, !.reply = answer]
    BY DEF Overtaken
  <1>4. same \in BOOLEAN
    OBVIOUS
  <1> HIDE DEF ed, new, answer
  <1>5. /\ new \in Tabs /\ new.at = ed.at /\ new.base = ed.base /\ new.text = ed.text
        /\ new.seen = ed.seen /\ new.reply = answer /\ new.behind
        /\ (new.alone <=> ed.alone /\ same)
    BY <1>1, <1>2, <1>3, <1>4 DEF Tabs
  <1>6. TabOK(new)
    BY <1>1, <1>2, <1>5 DEF TabOK
  <1>7. Knows(new, text, lacks)
    <2> SUFFICES ASSUME new.at \in {"open", "awaiting"}
                 PROVE  Sees(new, lacks) /\ Current(new, text)
      BY DEF Knows
    <2>1. Sees(ed, lacks) /\ Current(ed, content)
      BY <1>1, <1>5 DEF Knows
    <2>2. ed.at = "awaiting" => new.reply.base = ed.reply.base /\ new.reply.behind
      BY <1>1, <1>2, <1>5
    <2>3. Sees(new, lacks)
      BY <1>5, <2>1, <2>2 DEF Sees
    <2>4. Current(new, text)
      <3>1. new.alone => ed.alone /\ text = content
        BY <1>5
      <3>2. QED
        BY <1>5, <2>1, <2>2, <3>1 DEF Current
    <2>5. QED
      BY <2>3, <2>4
  <1>8. QED
    BY <1>6, <1>7 DEF new

(* A save of e, or an item action: e has the tab mine, the others are       *)
(* overtaken.                                                               *)
LEMMA AllOvertaken ==
  ASSUME TabsInv, NEW text, content' = text,
         \A f \in Editors : f \in unshown' <=> f \in unshown,
         editor' = [f \in Editors |-> Overtaken(f, text)]
  PROVE  editor' \in [Editors -> Tabs] /\ TabsInv'
  <1>1. ASSUME NEW f \in Editors
        PROVE  TabOK(editor'[f]) /\ Knows(editor'[f], content', f \in unshown')
    <2>1. TabOK(editor[f]) /\ Knows(editor[f], content, f \in unshown)
      BY DEF TabsInv
    <2>2. (f \in unshown') = (f \in unshown)
      OBVIOUS
    <2>3. TabOK(Overtaken(f, text)) /\ Knows(Overtaken(f, text), text, f \in unshown)
      BY <2>1, OvertakenTab
    <2>4. editor'[f] = Overtaken(f, text)
      OBVIOUS
    <2>5. QED
      BY <2>2, <2>3, <2>4
  <1>2. QED
    BY <1>1 DEF TabsInv, TabOK

LEMMA SavedTabs ==
  ASSUME TabsInv, NEW e \in Editors, NEW mine, NEW text, content' = text,
         \A f \in Editors \ {e} : f \in unshown' <=> f \in unshown,
         StoredBy(e, mine, text), TabOK(mine), Knows(mine, text, e \in unshown')
  PROVE  editor' \in [Editors -> Tabs] /\ TabsInv'
  <1>0. editor' = [f \in Editors |-> IF f = e THEN mine ELSE Overtaken(f, text)]
    BY DEF StoredBy
  <1>1. ASSUME NEW f \in Editors
        PROVE  TabOK(editor'[f]) /\ Knows(editor'[f], content', f \in unshown')
    <2>1. CASE f = e
      <3>1. editor'[f] = mine
        BY <1>0, <2>1
      <3>2. QED
        BY <2>1, <3>1
    <2>2. CASE f # e
      <3>1. TabOK(editor[f]) /\ Knows(editor[f], content, f \in unshown)
        BY DEF TabsInv
      <3>2. (f \in unshown') = (f \in unshown)
        BY <2>2
      <3>3. TabOK(Overtaken(f, text)) /\ Knows(Overtaken(f, text), text, f \in unshown)
        BY <3>1, OvertakenTab
      <3>4. editor'[f] = Overtaken(f, text)
        BY <1>0, <2>2
      <3>5. QED
        BY <3>2, <3>3, <3>4
    <2>3. QED
      BY <2>1, <2>2
  <1>2. QED
    BY <1>0, <1>1 DEF TabsInv, TabOK

(* A step of one tab that stores nothing.                                   *)
LEMMA OneTab ==
  ASSUME StateTypes, TabsInv, NEW e \in Editors, NEW mine, content' = content,
         \A f \in Editors \ {e} : f \in unshown' <=> f \in unshown,
         editor' = [editor EXCEPT ![e] = mine],
         TabOK(mine), Knows(mine, content, e \in unshown')
  PROVE  editor' \in [Editors -> Tabs] /\ TabsInv'
  <1>0. editor \in [Editors -> Tabs]
    BY DEF StateTypes
  <1>1. ASSUME NEW f \in Editors
        PROVE  TabOK(editor'[f]) /\ Knows(editor'[f], content', f \in unshown')
    <2>1. CASE f = e
      <3>1. editor'[f] = mine
        BY <1>0, <2>1
      <3>2. QED
        BY <2>1, <3>1
    <2>2. CASE f # e
      <3>1. TabOK(editor[f]) /\ Knows(editor[f], content, f \in unshown)
        BY DEF TabsInv
      <3>2. (f \in unshown') = (f \in unshown)
        BY <2>2
      <3>3. editor'[f] = editor[f]
        BY <1>0, <2>2
      <3>4. QED
        BY <3>1, <3>2, <3>3
    <2>3. QED
      BY <2>1, <2>2
  <1>2. mine \in Tabs
    BY DEF TabOK
  <1>3. QED
    BY <1>0, <1>1, <1>2 DEF TabsInv

(* It holds at first.                                                       *)
LEMMA InitialTabs == Init => InflightInv
  <1> SUFFICES ASSUME Init PROVE InflightInv
    OBVIOUS
  <1>1. /\ content = Initial /\ versions = {} /\ retired = FALSE
        /\ editor = [e \in Editors |-> Closed] /\ events = 0 /\ unshown = {}
    BY DEF Init
  <1>2. Initial \in Contents
    BY InflightAssumption, LineTypes
  <1>3. \A lacks : TabOK(Closed) /\ Knows(Closed, content, lacks)
    BY NoTab
  <1>4. StateTypes
    <2>1. Closed \in Tabs
      BY NoTab DEF TabOK
    <2>2. editor \in [Editors -> Tabs]
      BY <1>1, <2>1
    <2>3. events \in 0..MaxEvents
      BY <1>1, InflightAssumption
    <2>4. QED
      BY <1>1, <1>2, <2>2, <2>3 DEF StateTypes
  <1>5. TabsInv
    BY <1>1, <1>3 DEF TabsInv
  <1>6. QED
    BY <1>4, <1>5 DEF InflightInv

(* The tab e as it is.                                                      *)
LEMMA TabFields ==
  ASSUME InflightInv, NEW e \in Editors
  PROVE  LET ed == editor[e]
         IN  /\ ed \in Tabs /\ (ed.reply # NoReply <=> ed.at = "awaiting")
             /\ ed.base \in Contents /\ ed.text \in Contents /\ ed.seen \subseteq AnyLine
             /\ content \in Contents /\ ToStore(e) \in Contents
             /\ ed.at \in {"open", "awaiting"} =>
                    Sees(ed, e \in unshown) /\ Current(ed, content)
  <1> DEFINE ed == editor[e]
  <1>1. TabOK(ed) /\ Knows(ed, content, e \in unshown)
    BY DEF InflightInv, TabsInv
  <1>2. content \in Contents
    BY DEF InflightInv, StateTypes
  <1>3. ed.base \in Contents /\ ed.text \in Contents /\ ed.seen \subseteq AnyLine
    BY <1>1 DEF TabOK, Tabs
  <1>4. ToStore(e) \in Contents
    BY <1>2, <1>3, StoredTypes
  <1> HIDE DEF ed
  <1>5. QED
    BY <1>1, <1>2, <1>3, <1>4 DEF TabOK, Knows, ed

(* A save stores a content and versions of contents.                        *)
LEMMA WrittenTypes ==
  ASSUME StateTypes, NEW text \in Contents, NEW snapshots, Written(text, snapshots)
  PROVE  content' \in Contents /\ versions' \subseteq Contents /\ content' = text
  BY DEF StateTypes, Written

(* Events stay within the bound.                                            *)
LEMMA CountedTypes ==
  ASSUME StateTypes, Counted
  PROVE  events' \in 0..MaxEvents
  BY InflightAssumption DEF StateTypes, Counted

(* Each action keeps the invariant.                                         *)
LEMMA OpenKeeps ==
  ASSUME InflightInv, NEW e \in Editors, Open(e)
  PROVE  InflightInv'
  <1> DEFINE c == content
             new == [Closed EXCEPT !.at = "open", !.base = c, !.text = c, !.saved = c,
                                   !.seen = Range(c)]
  <1>1. /\ editor' = [editor EXCEPT ![e] = new] /\ content' = content
        /\ UNCHANGED <<versions, retired, events, unshown>>
    BY DEF Open
  <1>2. c \in Contents /\ Range(c) \subseteq AnyLine
    <2>1. content \in Contents
      BY DEF InflightInv, StateTypes
    <2>2. content \in Seq(AnyLine)
      BY <2>1, LineTypes
    <2>3. Range(content) \subseteq AnyLine
      BY <2>2, RangeIs, ElementOfSeq
    <2>4. QED
      BY <2>1, <2>3
  <1>3. Closed \in Tabs /\ Closed.reply = NoReply /\ ~Closed.behind
    <2>1. Closed \in Tabs
      BY NoTab DEF TabOK
    <2>2. QED
      BY <2>1 DEF Closed
  <1> DEFINE lines == Range(c)
             opened == [Closed EXCEPT !.at = "open", !.base = c, !.text = c, !.saved = c,
                                      !.seen = lines]
  <1>4. new = opened
    OBVIOUS
  <1>5. lines \subseteq AnyLine
    BY <1>2
  <1> HIDE DEF lines, c, new
  <1>6. /\ new \in Tabs /\ new.at = "open" /\ new.base = c /\ new.text = c
        /\ new.seen = lines /\ new.reply = NoReply
    BY <1>2, <1>3, <1>4, <1>5 DEF Tabs, Ats
  <1>7. TabOK(new)
    BY <1>6 DEF TabOK
  <1>8. ASSUME NEW lacks PROVE Knows(new, content, lacks)
    <2>1. Sees(new, lacks)
      BY <1>6 DEF Sees, lines
    <2>2. Current(new, content)
      BY <1>6 DEF Current, c
    <2>3. QED
      BY <2>1, <2>2 DEF Knows
  <1>9. editor' \in [Editors -> Tabs] /\ TabsInv'
    <2>1. StateTypes /\ TabsInv
      BY DEF InflightInv
    <2>2. \A f \in Editors \ {e} : f \in unshown' <=> f \in unshown
      BY <1>1
    <2>3. Knows(new, content, e \in unshown')
      BY <1>8
    <2>4. QED
      BY <1>1, <1>7, <2>1, <2>2, <2>3, OneTab
  <1>10. StateTypes'
    BY <1>1, <1>9 DEF InflightInv, StateTypes
  <1>11. QED
    BY <1>9, <1>10 DEF InflightInv

LEMMA TypeKeeps ==
  ASSUME InflightInv, NEW e \in Editors, Type(e)
  PROVE  InflightInv'
  <1> DEFINE ed == editor[e]
  <1>1. ed.at \in {"open", "awaiting"} /\ Counted /\ content' = content
        /\ UNCHANGED <<versions, retired, unshown>>
    BY DEF Type, Showing
  <1>2. PICK text \in Edited(ed.text) :
          editor' = [editor EXCEPT ![e].text = text, ![e].seen = @ \cup Range(text)]
    BY DEF Type
  <1>3. /\ ed \in Tabs /\ (ed.reply # NoReply <=> ed.at = "awaiting")
        /\ ed.text \in Contents /\ ed.seen \subseteq AnyLine
        /\ Sees(ed, e \in unshown) /\ Current(ed, content)
    BY <1>1, TabFields
  <1>4. text \in Contents /\ Range(text) \subseteq AnyLine
    <2>1. text \in Contents
      BY <1>2, <1>3, EditedTypes
    <2>2. text \in Seq(AnyLine)
      BY <2>1, LineTypes
    <2>3. Range(text) \subseteq AnyLine
      BY <2>2, RangeIs, ElementOfSeq
    <2>4. QED
      BY <2>1, <2>3
  <1>5. editor \in [Editors -> Tabs]
    BY DEF InflightInv, StateTypes
  <1> DEFINE seen == ed.seen \cup Range(text)
             new == [ed EXCEPT !.text = text, !.seen = seen]
  <1>6. editor' = [editor EXCEPT ![e] = new]
    BY <1>2, <1>5
  <1>7. seen \subseteq AnyLine /\ ed.seen \subseteq seen /\ Range(text) \subseteq seen
    BY <1>3, <1>4
  <1> HIDE DEF seen, ed
  <1>8. /\ new \in Tabs /\ new.at = ed.at /\ new.base = ed.base /\ new.text = text
        /\ new.seen = seen /\ new.reply = ed.reply
        /\ (new.behind <=> ed.behind) /\ (new.alone <=> ed.alone)
    BY <1>3, <1>4, <1>7 DEF Tabs
  <1> HIDE DEF new
  <1>9. TabOK(new)
    BY <1>3, <1>8 DEF TabOK
  <1>10. Knows(new, content, e \in unshown')
    <2>1. Sees(new, e \in unshown)
      BY <1>3, <1>7, <1>8 DEF Sees
    <2>2. Current(new, content)
      BY <1>3, <1>8 DEF Current
    <2>3. (e \in unshown') = (e \in unshown)
      BY <1>1
    <2>4. QED
      BY <2>1, <2>2, <2>3 DEF Knows
  <1>11. editor' \in [Editors -> Tabs] /\ TabsInv'
    <2>1. StateTypes /\ TabsInv
      BY DEF InflightInv
    <2>2. \A f \in Editors \ {e} : f \in unshown' <=> f \in unshown
      BY <1>1
    <2>3. QED
      BY <1>1, <1>6, <1>9, <1>10, <2>1, <2>2, OneTab
  <1>12. StateTypes'
    <2>1. StateTypes
      BY DEF InflightInv
    <2>2. events' \in 0..MaxEvents
      BY <1>1, <2>1, CountedTypes
    <2>3. QED
      BY <1>1, <1>11, <2>1, <2>2 DEF StateTypes
  <1>13. QED
    BY <1>11, <1>12 DEF InflightInv

LEMMA AutosaveKeeps ==
  ASSUME InflightInv, NEW e \in Editors, Autosave(e)
  PROVE  InflightInv'
  <1> DEFINE ed == editor[e]
             text == ToStore(e)
             answer == [base |-> text, behind |-> FALSE]
             new == [ed EXCEPT !.at = "awaiting", !.behind = TRUE, !.reply = answer]
  <1>1. /\ ed.at = "open" /\ Written(text, ed.first) /\ StoredBy(e, new, text)
        /\ unshown' = (IF text # ed.text THEN unshown \cup {e} ELSE unshown)
        /\ UNCHANGED <<retired, events>>
    BY DEF Autosave
  <1>2. /\ ed \in Tabs /\ text \in Contents
        /\ Sees(ed, e \in unshown) /\ Current(ed, content)
    BY <1>1, TabFields
  <1>3. StateTypes /\ TabsInv
    BY DEF InflightInv
  <1>4. content' \in Contents /\ versions' \subseteq Contents /\ content' = text
    <2> HIDE DEF text, ed
    <2> QED BY <1>1, <1>2, <1>3, WrittenTypes
  <1>5. answer \in Replies /\ answer.base = text /\ ~answer.behind
    <2> HIDE DEF text
    <2> QED BY <1>2 DEF Replies
  <1>6. answer # NoReply
    BY <1>5, InflightAssumption
  <1> HIDE DEF text, ed, answer
  <1>7. /\ new \in Tabs /\ new.at = "awaiting" /\ new.base = ed.base /\ new.text = ed.text
        /\ new.seen = ed.seen /\ new.reply = answer /\ new.behind
    BY <1>2, <1>5 DEF Tabs, Ats
  <1> HIDE DEF new
  <1>8. TabOK(new)
    BY <1>6, <1>7 DEF TabOK
  <1>9. Sees(new, e \in unshown')
    <2>1. CASE text = ed.text
      <3>1. unshown' = unshown
        BY <1>1, <2>1
      <3>2. QED
        BY <1>2, <1>5, <1>7, <2>1, <3>1 DEF Sees
    <2>2. CASE text # ed.text
      <3>1. e \in unshown'
        BY <1>1, <2>2
      <3>2. QED
        BY <1>2, <1>7, <3>1 DEF Sees
    <2>3. QED
      BY <2>1, <2>2
  <1>10. Current(new, text)
    BY <1>5, <1>7 DEF Current
  <1>11. Knows(new, text, e \in unshown')
    BY <1>9, <1>10 DEF Knows
  <1>12. editor' \in [Editors -> Tabs] /\ TabsInv'
    <2>1. \A f \in Editors \ {e} : f \in unshown' <=> f \in unshown
      BY <1>1
    <2>2. QED
      BY <1>1, <1>3, <1>4, <1>8, <1>11, <2>1, SavedTabs
  <1>13. StateTypes'
    <2>1. unshown' \subseteq Editors
      BY <1>1, <1>3 DEF StateTypes
    <2>2. QED
      BY <1>1, <1>3, <1>4, <1>12, <2>1 DEF StateTypes
  <1>14. QED
    BY <1>12, <1>13 DEF InflightInv

LEMMA AnswerKeeps ==
  ASSUME InflightInv, NEW e \in Editors, Answer(e)
  PROVE  InflightInv'
  <1> DEFINE ed == editor[e]
             base == ed.reply.base
             behind == ed.reply.behind
             new == [ed EXCEPT !.at = "open", !.base = base, !.saved = base,
                               !.behind = behind, !.first = FALSE, !.reply = NoReply]
  <1>1. /\ ed.at = "awaiting" /\ editor' = [editor EXCEPT ![e] = new]
        /\ UNCHANGED <<content, versions, retired, events, unshown>>
    <2>1. editor \in [Editors -> Tabs]
      BY DEF InflightInv, StateTypes
    <2>2. QED
      BY <2>1 DEF Answer
  <1>2. /\ ed \in Tabs /\ (ed.reply # NoReply <=> ed.at = "awaiting")
        /\ Sees(ed, e \in unshown) /\ Current(ed, content)
    BY <1>1, TabFields
  <1>3. ed.reply \in Replies
    BY <1>1, <1>2 DEF Tabs
  <1>4. base \in Contents /\ behind \in BOOLEAN
    BY <1>3 DEF Replies
  <1>5. /\ Range(ed.text) \subseteq ed.seen
        /\ e \notin unshown => Range(base) \subseteq ed.seen
        /\ ~behind => base = content
        /\ ed.alone => base = content
    BY <1>1, <1>2 DEF Sees, Current
  <1> HIDE DEF ed, base, behind
  <1>6. /\ new \in Tabs /\ new.at = "open" /\ new.base = base /\ new.text = ed.text
        /\ new.seen = ed.seen /\ new.reply = NoReply
        /\ (new.behind <=> behind) /\ (new.alone <=> ed.alone)
    BY <1>2, <1>4 DEF Tabs, Ats
  <1> HIDE DEF new
  <1>7. TabOK(new)
    BY <1>6 DEF TabOK
  <1>8. Knows(new, content, e \in unshown')
    <2>1. Sees(new, e \in unshown)
      BY <1>5, <1>6 DEF Sees
    <2>2. Current(new, content)
      BY <1>5, <1>6 DEF Current
    <2>3. (e \in unshown') = (e \in unshown)
      BY <1>1
    <2>4. QED
      BY <2>1, <2>2, <2>3 DEF Knows
  <1>9. StateTypes /\ TabsInv
    BY DEF InflightInv
  <1>10. editor' \in [Editors -> Tabs] /\ TabsInv'
    <2>1. \A f \in Editors \ {e} : f \in unshown' <=> f \in unshown
      BY <1>1
    <2>2. QED
      BY <1>1, <1>7, <1>8, <1>9, <2>1, OneTab
  <1>11. StateTypes'
    BY <1>1, <1>9, <1>10 DEF StateTypes
  <1>12. QED
    BY <1>10, <1>11 DEF InflightInv

(* The tab after an answer that was lost: its save may stand, it does not   *)
(* know.                                                                    *)
LEMMA FailedTab ==
  ASSUME NEW ed \in Tabs, ed.at \in {"open", "awaiting"}, NEW lacks, NEW stored,
         Sees(ed, lacks)
  PROVE  LET new == AfterFailure(ed)
         IN  /\ new \in Tabs /\ new.at = "open" /\ new.reply = NoReply /\ ~new.alone
             /\ new.base = ed.base /\ (new.behind <=> ed.behind)
             /\ TabOK(new) /\ Sees(new, lacks)
  <1> DEFINE new == AfterFailure(ed)
  <1>1. new = [ed EXCEPT !.at = "open", !.reply = NoReply, !.alone = FALSE]
    BY DEF AfterFailure
  <1> HIDE DEF new
  <1>2. /\ new \in Tabs /\ new.at = "open" /\ new.reply = NoReply /\ ~new.alone
        /\ new.base = ed.base /\ new.text = ed.text /\ new.seen = ed.seen
        /\ (new.behind <=> ed.behind)
    BY <1>1 DEF Tabs, Ats
  <1>3. TabOK(new)
    BY <1>2 DEF TabOK
  <1>4. Sees(new, lacks)
    BY <1>2 DEF Sees
  <1>5. QED
    BY <1>2, <1>3, <1>4 DEF new

LEMMA AnswerLostKeeps ==
  ASSUME InflightInv, NEW e \in Editors, AnswerLost(e)
  PROVE  InflightInv'
  <1> DEFINE ed == editor[e]
             new == AfterFailure(ed)
  <1>1. /\ ed.at = "awaiting" /\ Counted /\ editor' = [editor EXCEPT ![e] = new]
        /\ UNCHANGED <<content, versions, retired, unshown>>
    <2>1. editor \in [Editors -> Tabs]
      BY DEF InflightInv, StateTypes
    <2>2. QED
      BY <2>1 DEF AnswerLost
  <1>2. ed \in Tabs /\ Sees(ed, e \in unshown) /\ Current(ed, content)
    BY <1>1, TabFields
  <1> HIDE DEF ed
  <1>3. /\ new \in Tabs /\ new.at = "open" /\ new.reply = NoReply /\ ~new.alone
        /\ new.base = ed.base /\ (new.behind <=> ed.behind)
        /\ TabOK(new) /\ Sees(new, e \in unshown)
    BY <1>1, <1>2, FailedTab
  <1> HIDE DEF new
  <1>4. Knows(new, content, e \in unshown')
    <2>1. Current(new, content)
      BY <1>2, <1>3 DEF Current
    <2>2. (e \in unshown') = (e \in unshown)
      BY <1>1
    <2>3. QED
      BY <1>3, <2>1, <2>2 DEF Knows
  <1>5. StateTypes /\ TabsInv
    BY DEF InflightInv
  <1>6. editor' \in [Editors -> Tabs] /\ TabsInv'
    <2>1. \A f \in Editors \ {e} : f \in unshown' <=> f \in unshown
      BY <1>1
    <2>2. editor' = [editor EXCEPT ![e] = new] /\ content' = content /\ TabOK(new)
      BY <1>1, <1>3
    <2>3. QED
      BY <1>4, <1>5, <2>1, <2>2, OneTab
  <1>7. StateTypes'
    <2>1. events' \in 0..MaxEvents
      BY <1>1, <1>5, CountedTypes
    <2>2. QED
      BY <1>1, <1>5, <1>6, <2>1 DEF StateTypes
  <1>8. QED
    BY <1>6, <1>7 DEF InflightInv

LEMMA DoSaveKeeps ==
  ASSUME InflightInv, NEW e \in Editors, DoSave(e)
  PROVE  InflightInv'
  <1> DEFINE ed == editor[e]
             text == ToStore(e)
             failed == AfterFailure(ed)
             again == [failed EXCEPT !.first = TRUE, !.behind = TRUE]
  <1>1. ed.at = "open" /\ Written(text, TRUE) /\ UNCHANGED retired
    BY DEF DoSave, MaySave
  <1>2. /\ ed \in Tabs /\ text \in Contents
        /\ Sees(ed, e \in unshown) /\ Current(ed, content)
    BY <1>1, TabFields
  <1>3. StateTypes /\ TabsInv
    BY DEF InflightInv
  <1>4. content' \in Contents /\ versions' \subseteq Contents /\ content' = text
    <2> HIDE DEF text
    <2> QED BY <1>1, <1>2, <1>3, WrittenTypes
  <1>5. CASE StoredBy(e, Left, text) /\ unshown' = unshown \ {e} /\ UNCHANGED events
    <2>1. TabOK(Left) /\ Knows(Left, text, e \in unshown')
      BY NoTab
    <2>2. editor' \in [Editors -> Tabs] /\ TabsInv'
      <3>1. \A f \in Editors \ {e} : f \in unshown' <=> f \in unshown
        BY <1>5
      <3> HIDE DEF text
      <3>2. QED
        BY <1>3, <1>4, <1>5, <2>1, <3>1, SavedTabs
    <2>3. StateTypes'
      BY <1>1, <1>3, <1>4, <1>5, <2>2 DEF StateTypes
    <2>4. QED
      BY <2>2, <2>3 DEF InflightInv
  <1>6. CASE Counted /\ StoredBy(e, again, text) /\ UNCHANGED unshown
    <2> HIDE DEF text, ed
    <2>1. /\ failed \in Tabs /\ failed.at = "open" /\ failed.reply = NoReply /\ ~failed.alone
          /\ TabOK(failed) /\ Sees(failed, e \in unshown)
      BY <1>1, <1>2, FailedTab
    <2> HIDE DEF failed
    <2>2. /\ again \in Tabs /\ again.at = "open" /\ again.reply = NoReply /\ ~again.alone
          /\ again.behind /\ again.base = failed.base /\ again.text = failed.text
          /\ again.seen = failed.seen
      BY <2>1 DEF Tabs
    <2> HIDE DEF again
    <2>3. TabOK(again)
      BY <2>2 DEF TabOK
    <2>4. Knows(again, text, e \in unshown')
      <3>1. Sees(again, e \in unshown)
        BY <2>1, <2>2 DEF Sees
      <3>2. Current(again, text)
        BY <2>2 DEF Current
      <3>3. (e \in unshown') = (e \in unshown)
        BY <1>6
      <3>4. QED
        BY <3>1, <3>2, <3>3 DEF Knows
    <2>5. editor' \in [Editors -> Tabs] /\ TabsInv'
      <3>1. \A f \in Editors \ {e} : f \in unshown' <=> f \in unshown
        BY <1>6
      <3>2. QED
        BY <1>3, <1>4, <1>6, <2>3, <2>4, <3>1, SavedTabs
    <2>6. StateTypes'
      <3>1. events' \in 0..MaxEvents
        BY <1>3, <1>6, CountedTypes
      <3>2. QED
        BY <1>1, <1>3, <1>4, <1>6, <2>5, <3>1 DEF StateTypes
    <2>7. QED
      BY <2>5, <2>6 DEF InflightInv
  <1>7. QED
    BY <1>5, <1>6 DEF DoSave

LEMMA LeaveKeeps ==
  ASSUME InflightInv, NEW e \in Editors, Leave(e)
  PROVE  InflightInv'
  <1> DEFINE ed == editor[e]
             text == ToStore(e)
  <1>1. unshown' = unshown \ {e} /\ UNCHANGED <<retired, events>>
    BY DEF Leave
  <1>2. text \in Contents
    BY TabFields
  <1>3. StateTypes /\ TabsInv
    BY DEF InflightInv
  <1>4. \A f \in Editors \ {e} : f \in unshown' <=> f \in unshown
    BY <1>1
  <1>5. \A stored : TabOK(Left) /\ Knows(Left, stored, e \in unshown')
    BY NoTab
  <1>6. CASE Written(text, FALSE) /\ StoredBy(e, Left, text)
    <2> HIDE DEF text
    <2>1. content' \in Contents /\ versions' \subseteq Contents /\ content' = text
      BY <1>2, <1>3, <1>6, WrittenTypes
    <2>2. editor' \in [Editors -> Tabs] /\ TabsInv'
      <3>1. TabOK(Left) /\ Knows(Left, text, e \in unshown')
        BY <1>5
      <3>2. QED
        BY <1>3, <1>4, <1>6, <2>1, <3>1, SavedTabs
    <2>3. StateTypes'
      BY <1>1, <1>3, <2>1, <2>2 DEF StateTypes
    <2>4. QED
      BY <2>2, <2>3 DEF InflightInv
  <1>7. CASE editor' = [editor EXCEPT ![e] = Left] /\ UNCHANGED <<content, versions>>
    <2>1. editor' \in [Editors -> Tabs] /\ TabsInv'
      <3>1. TabOK(Left) /\ Knows(Left, content, e \in unshown')
        BY <1>5
      <3>2. QED
        BY <1>3, <1>4, <1>7, <3>1, OneTab
    <2>2. StateTypes'
      BY <1>1, <1>3, <1>7, <2>1 DEF StateTypes
    <2>3. QED
      BY <2>1, <2>2 DEF InflightInv
  <1>8. QED
    BY <1>6, <1>7 DEF Leave

LEMMA ItemActionKeeps ==
  ASSUME InflightInv, NEW text \in Contents, NEW closes \in BOOLEAN, ItemAction(text, closes)
  PROVE  InflightInv'
  <1>1. /\ Counted /\ Written(text, TRUE) /\ retired' = closes
        /\ editor' = [f \in Editors |-> Overtaken(f, text)] /\ unshown' = unshown
    BY DEF ItemAction
  <1>2. StateTypes /\ TabsInv
    BY DEF InflightInv
  <1>3. content' \in Contents /\ versions' \subseteq Contents /\ content' = text
    BY <1>1, <1>2, WrittenTypes
  <1>4. editor' \in [Editors -> Tabs] /\ TabsInv'
    BY <1>1, <1>2, <1>3, AllOvertaken
  <1>5. events' \in 0..MaxEvents
    BY <1>1, <1>2, CountedTypes
  <1>6. StateTypes'
    BY <1>1, <1>2, <1>3, <1>4, <1>5 DEF StateTypes
  <1>7. QED
    BY <1>4, <1>6 DEF InflightInv

(* A line taken out of a content.                                           *)
LEMMA WithoutIs ==
  ASSUME NEW text \in Contents, NEW l
  PROVE  Without(text, l) \in Contents /\ Range(Without(text, l)) = Range(text) \ {l}
  <1>1. text \in Seq(AnyLine)
    BY LineTypes
  <1> DEFINE rest == Range(text) \ {l}
  <1>2. Only(text, rest) \in Seq(AnyLine) /\ Range(Only(text, rest)) = Range(text) \cap rest
    <2> HIDE DEF rest
    <2> QED BY <1>1, OnlyIs
  <1>3. QED
    BY <1>2, LineTypes DEF Without

(* The item actions.                                                        *)
LEMMA ItemKeeps ==
  ASSUME InflightInv, NEW l \in Lines, Done(l) \/ Add(l) \/ Toggle(l)
  PROVE  InflightInv'
  <1>1. content \in Contents /\ content \in Seq(AnyLine)
    BY LineTypes DEF InflightInv, StateTypes
  <1> DEFINE rest == Without(content, l)
  <1>2. rest \in Contents /\ rest \in Seq(AnyLine) /\ Len(rest) \in Nat
    BY <1>1, WithoutIs, LineTypes, LenProperties
  <1>3. CASE Done(l)
    <2> DEFINE closes == ~\E m \in Range(rest) : IsItem(m)
    <2>1. ItemAction(rest, closes)
      BY <1>3 DEF Done
    <2>2. closes \in BOOLEAN
      OBVIOUS
    <2> HIDE DEF rest, closes
    <2>3. QED
      BY <1>2, <2>1, <2>2, ItemActionKeeps
  <1>4. CASE Add(l)
    <2> DEFINE new == Append(content, l)
    <2>1. ItemAction(new, FALSE) /\ l \in AnyLine
      BY <1>4 DEF Add, AnyLine
    <2>2. new \in Contents
      BY <1>1, <2>1, LineTypes, AppendProperties
    <2> HIDE DEF new
    <2>3. QED
      BY <2>1, <2>2, ItemActionKeeps
  <1>5. CASE Toggle(l)
    <2> DEFINE up == <<Raised[l]>> \o rest
               places == {i \in DOMAIN rest : IsRaised(rest[i])}
               lowered == CHOOSE m \in DOMAIN Raised : Raised[m] = l
               place == IF places = {} THEN 1 ELSE Max(places) + 1
               down == InsertAt(rest, place, lowered)
    <2>1. \/ l \in DOMAIN Raised /\ ItemAction(up, FALSE)
          \/ IsRaised(l) /\ ItemAction(down, FALSE)
      BY <1>5 DEF Toggle
    <2>2. CASE l \in DOMAIN Raised /\ ItemAction(up, FALSE)
      <3> DEFINE one == <<Raised[l]>>
      <3>1. Raised[l] \in AnyLine
        BY <2>2 DEF AnyLine, Lines, Range
      <3>2. one \in Seq(AnyLine)
        BY <3>1
      <3>3. one \o rest \in Seq(AnyLine)
        <4> HIDE DEF one, rest
        <4> QED BY <1>2, <3>2, RangeConcat
      <3>4. up \in Contents
        BY <3>3, LineTypes
      <3> HIDE DEF up
      <3>5. QED
        BY <2>2, <3>4, ItemActionKeeps
    <2>3. CASE IsRaised(l) /\ ItemAction(down, FALSE)
      <3>1. lowered \in AnyLine
        <4>1. \E m \in DOMAIN Raised : Raised[m] = l
          BY <2>3 DEF IsRaised, Range
        <4>2. lowered \in DOMAIN Raised
          BY <4>1
        <4>3. QED
          BY <4>2, InflightAssumption, LineTypes
      <3>2. place \in 1..(Len(rest) + 1)
        <4>1. DOMAIN rest = 1..Len(rest)
          BY <1>2, LenProperties
        <4>2. CASE places = {}
          BY <1>2, <4>2
        <4>3. CASE places # {}
          <5>1. places \subseteq Nat /\ \A i \in places : i <= Len(rest)
            BY <1>2, <4>1
          <5> HIDE DEF places, rest
          <5>2. PICK top \in places : \A i \in places : i <= top
            BY <1>2, <4>3, <5>1, GreatestNat
          <5>3. Max(places) \in places
            <6>1. \A i \in places : top >= i
              BY <5>1, <5>2
            <6>2. QED
              BY <5>2, <6>1 DEF Max
          <5>4. Max(places) \in 1..Len(rest)
            BY <4>1, <5>3 DEF places
          <5>5. QED
            BY <1>2, <4>3, <5>4
        <4>4. QED
          BY <4>2, <4>3
      <3> HIDE DEF place, lowered, rest
      <3>3. down \in Contents
        BY <1>2, <3>1, <3>2, LinePutIn
      <3> HIDE DEF down
      <3>4. QED
        BY <2>3, <3>3, ItemActionKeeps
    <2>4. QED
      BY <2>1, <2>2, <2>3
  <1>6. QED
    BY <1>3, <1>4, <1>5

(* A tab that saves for a merge, or otherwise, takes out of the content     *)
(* lines of its base, and those its text has finished.                      *)
LEMMA TakesOutKnown ==
  ASSUME InflightInv, NEW e \in Editors, e \notin unshown, Showing(e), content' = ToStore(e)
  PROVE  TakenOut \subseteq Known(e)
  <1> DEFINE ed == editor[e]
             base == ed.base
             text == ed.text
             merged == Merge3(base, text, content)
             union == UnionOf(text, content)
  <1>1. /\ base \in Contents /\ text \in Contents /\ content \in Contents
        /\ Sees(ed, e \in unshown) /\ Current(ed, content)
    BY TabFields DEF Showing
  <1>2. base \in Seq(AnyLine) /\ text \in Seq(AnyLine) /\ content \in Seq(AnyLine)
        /\ {Yours, Equals, Theirs} \subseteq AnyLine
    BY <1>1, LineTypes DEF Marked
  <1>3. Range(base) \subseteq ed.seen
    BY <1>1 DEF Sees
  <1>4. Range(base) \subseteq Known(e)
    BY <1>3 DEF Known
  <1>5. \A l \in Range(content) \ Range(content') : l \in Known(e)
    <2>1. CASE base = content
      BY <1>4, <2>1
    <2>2. CASE base # content /\ base \in versions
      <3>1. content' = merged.text
        BY <2>2 DEF ToStore
      <3>2. Range(content) \ Range(base) \subseteq Range(merged.text)
        <4> HIDE DEF base, text
        <4> QED BY <1>2, MergeKeeps
      <3> HIDE DEF merged, base
      <3>3. QED
        BY <1>4, <3>1, <3>2
    <2>3. CASE base # content /\ base \notin versions
      <3>1. ed.behind
        BY <1>1, <2>3 DEF Current
      <3>2. content' = union
        BY <2>3, <3>1 DEF ToStore
      <3>3. \A l \in Range(content) \ Range(union) : \E m \in Range(text) : <<l, m>> \in Grows
        <4> HIDE DEF text
        <4> QED BY <1>1, UnionIs
      <3>4. \A l, m : <<l, m>> \in Grows => l \in Lines
        BY InflightAssumption DEF Lines
      <3> HIDE DEF union
      <3>5. ASSUME NEW l \in Range(content) \ Range(content') PROVE l \in Known(e)
        <4>1. PICK m \in Range(text) : <<l, m>> \in Grows
          BY <3>2, <3>3, <3>5
        <4>2. l \in Lines
          BY <3>4, <4>1
        <4>3. QED
          BY <4>1, <4>2 DEF Known
      <3>6. QED
        BY <3>5
    <2>4. QED
      BY <2>1, <2>2, <2>3
  <1>6. QED
    BY <1>5 DEF TakenOut

(* So do all steps.                                                         *)
LEMMA NextInflightInv == InflightInv /\ [Next]_vars => InflightInv'
  <1> SUFFICES ASSUME InflightInv, [Next]_vars PROVE InflightInv'
    OBVIOUS
  <1>1. ASSUME NEW e \in Editors,
               \/ Open(e) \/ Type(e) \/ Autosave(e) \/ Answer(e) \/ AnswerLost(e)
               \/ DoSave(e) \/ Leave(e)
        PROVE  InflightInv'
    BY <1>1, OpenKeeps, TypeKeeps, AutosaveKeeps, AnswerKeeps, AnswerLostKeeps,
       DoSaveKeeps, LeaveKeeps
  <1>2. ASSUME NEW l \in Lines, Done(l) \/ Add(l) \/ Toggle(l)
        PROVE  InflightInv'
    BY <1>2, ItemKeeps
  <1>3. CASE UNCHANGED vars
    BY <1>3 DEF vars, InflightInv, StateTypes, TabsInv, TabOK, Knows, Sees, Current
  <1>4. QED
    BY <1>1, <1>2, <1>3 DEF Next

-----------------------------------------------------------------------------
(* Contents, versions and tabs keep their types, and a tab has an answer to *)
(* come exactly while it waits for one, whatever was saved, lost or left.   *)
THEOREM InflightTypeCorrect == Spec => []TypeOK
  <1>1. InflightInv => TypeOK
    <2> SUFFICES ASSUME InflightInv PROVE TypeOK
      OBVIOUS
    <2>1. ASSUME NEW e \in Editors
          PROVE  /\ editor[e].at \in {"closed", "open", "awaiting", "left"}
                 /\ editor[e].text \in Contents /\ editor[e].base \in Contents
                 /\ editor[e].reply \in Replies \cup {NoReply}
                 /\ editor[e].reply # NoReply <=> editor[e].at = "awaiting"
      <3> DEFINE ed == editor[e]
      <3>1. ed \in Tabs /\ (ed.reply # NoReply <=> ed.at = "awaiting")
        BY TabFields
      <3> HIDE DEF ed
      <3>2. /\ ed.at \in {"closed", "open", "awaiting", "left"}
            /\ ed.text \in Contents /\ ed.base \in Contents
            /\ ed.reply \in Replies \cup {NoReply}
        BY <3>1 DEF Tabs, Ats
      <3>3. QED
        BY <3>1, <3>2 DEF ed
    <2>2. QED
      BY <2>1 DEF InflightInv, StateTypes, TypeOK
  <1>2. QED
    BY <1>1, InitialTabs, NextInflightInv, PTL DEF Spec

(* three_way_merge: whatever is loaded, typed and stored, the merge of a    *)
(* save has every line that either side wrote, the lines both kept of a     *)
(* base without equal ones, and gives the other side for an unchanged one.  *)
THEOREM MergesLoseNothing == Spec => []MergeLosesNothing
  <1>1. InflightInv => MergeLosesNothing
    <2> SUFFICES ASSUME InflightInv, NEW e \in Editors, Showing(e), CanMerge(e)
                 PROVE  LET base == editor[e].base
                            ours == editor[e].text
                            m == Merge3(base, ours, content)
                        IN  /\ Range(ours) \ Range(base) \subseteq Range(m.text)
                            /\ Range(content) \ Range(base) \subseteq Range(m.text)
                            /\ IsInjective(base) =>
                                   Range(ours) \cap Range(content) \subseteq Range(m.text)
                            /\ ours = base => m = [text |-> content, conflict |-> FALSE]
                            /\ ours = content => m = [text |-> ours, conflict |-> FALSE]
      BY DEF MergeLosesNothing
    <2> DEFINE base == editor[e].base
               ours == editor[e].text
               m == Merge3(base, ours, content)
    <2>1. base \in Contents /\ ours \in Contents /\ content \in Contents
      BY TabFields
    <2>2. base \in Seq(AnyLine) /\ ours \in Seq(AnyLine) /\ content \in Seq(AnyLine)
          /\ {Yours, Equals, Theirs} \subseteq AnyLine
      BY <2>1, LineTypes DEF Marked
    <2> HIDE DEF base, ours
    <2>3. /\ Range(ours) \ Range(base) \subseteq Range(m.text)
          /\ Range(content) \ Range(base) \subseteq Range(m.text)
          /\ IsInjective(base) => Range(ours) \cap Range(content) \subseteq Range(m.text)
      BY <2>2, MergeKeeps
    <2>4. ours = base \/ ours = content => m = [text |-> content, conflict |-> FALSE]
      BY <2>2, MergeOfSame
    <2> HIDE DEF m
    <2>5. QED
      BY <2>3, <2>4 DEF base, ours, m
  <1>2. QED
    BY <1>1, InitialTabs, NextInflightInv, PTL DEF Spec

(* api_entry_save: a save takes out of the stored content only what its tab *)
(* has shown or finished, whatever other tabs and items did meanwhile.      *)
THEOREM UnseenLinesStay == Spec => UnseenKept
  <1> DEFINE Keeps == TakenOut # {} => \A e \in Editors \ unshown :
                          Saves(e) => TakenOut \subseteq Known(e)
  <1>1. ASSUME InflightInv PROVE Keeps
    <2> SUFFICES ASSUME TakenOut # {}, NEW e \in Editors \ unshown, Saves(e)
                 PROVE  TakenOut \subseteq Known(e)
      OBVIOUS
    <2>1. content' # content
      BY DEF TakenOut
    <2>2. Showing(e) /\ content' = ToStore(e)
      <3>1. CASE Autosave(e)
        BY <3>1 DEF Autosave, Showing, Written
      <3>2. CASE DoSave(e)
        BY <3>2 DEF DoSave, MaySave, Showing, Written
      <3>3. CASE Leave(e)
        BY <2>1, <3>3 DEF Leave, Written
      <3>4. QED
        BY <3>1, <3>2, <3>3 DEF Saves
    <2>3. QED
      BY <1>1, <2>2, TakesOutKnown
  <1>2. InflightInv /\ [Next]_vars => [Keeps]_vars
    BY <1>1
  <1>3. QED
    BY <1>2, InitialTabs, NextInflightInv, PTL DEF Spec, UnseenKept

(* doSave: a tab that nobody interfered with since it was opened stores     *)
(* what it shows, however many autosaves of its own came before.            *)
THEOREM OwnSavesStand == Spec => OwnSaveStands
  <1> DEFINE Stands == \A e \in Editors :
                           editor[e].alone /\ DoSave(e) => content' = editor[e].text
  <1>1. ASSUME InflightInv PROVE Stands
    <2> SUFFICES ASSUME NEW e \in Editors, editor[e].alone, DoSave(e)
                 PROVE  content' = editor[e].text
      OBVIOUS
    <2>1. editor[e].at = "open" /\ content' = ToStore(e)
      BY DEF DoSave, MaySave, Written
    <2>2. Current(editor[e], content)
      BY <1>1, <2>1, TabFields
    <2>3. editor[e].base = content
      BY <2>1, <2>2 DEF Current
    <2>4. QED
      BY <2>1, <2>3 DEF ToStore
  <1>2. InflightInv /\ [Next]_vars => [Stands]_vars
    BY <1>1
  <1>3. QED
    BY <1>2, InitialTabs, NextInflightInv, PTL DEF Spec, OwnSaveStands

(* ------------------------------- a poke ------------------------------ *)

USE PokeAssumption

(* The inductive invariant.  Under the advisory lock at most one session    *)
(* looks, and while it does there is no poke.                                *)
LockInv ==
    /\ looking # {} => row = None
    /\ \A v, w \in looking : v = w
    /\ rows <= 1

(* No revision is newer than the last write, and a writer that was shown    *)
(* the present revision was shown the present poke.                         *)
CopiesInv ==
    /\ row # None => row.rev <= writes
    /\ \A w \in Writers : copy[w] # None =>
        /\ copy[w].rev <= writes
        /\ row # None /\ copy[w].rev = row.rev => copy[w] = row \/ silent

PokeInv == PokeTypeOK /\ LockInv /\ CopiesInv /\ ApprovalHolds /\ KeepFlow

-----------------------------------------------------------------------------
(* What the operations write.                                               *)

Flows == Seq({"in", "out"})
Alternates(flow) == \A i \in 2..Len(flow) : flow[i] # flow[i - 1]

(* Events of a week ago are dropped, one is added that differs from the     *)
(* last one: the rest still alternates.                                     *)
Extended(flow, kept, e) == Append(SubSeq(flow, kept, Len(flow)), e)
Differs(flow, kept, e) ==
    /\ flow \in Flows /\ Alternates(flow) /\ kept \in 1..(Len(flow) + 1)
    /\ e \in {"in", "out"} /\ (flow # <<>> => flow[Len(flow)] # e)
EndsIn(flow, e) == /\ flow \in Flows /\ flow # <<>>
                   /\ flow[Len(flow)] = e
                   /\ Alternates(flow)
LEMMA FlowExtended ==
  ASSUME NEW flow, NEW kept, NEW e, Differs(flow, kept, e)
  PROVE  EndsIn(Extended(flow, kept, e), e)
  <1> DEFINE rest == SubSeq(flow, kept, Len(flow))
             n == Len(flow) - kept + 1
             new == Append(rest, e)
  <1>a. /\ flow \in Flows /\ Alternates(flow) /\ kept \in 1..(Len(flow) + 1)
        /\ e \in {"in", "out"} /\ (flow # <<>> => flow[Len(flow)] # e)
    BY DEF Differs
  <1> USE <1>a
  <1>1. /\ rest \in Flows
        /\ Len(rest) = n
        /\ \A i \in 1..n : rest[i] = flow[kept + i - 1]
    <2>1. \A i \in kept..Len(flow) : flow[i] \in {"in", "out"}
      BY DEF Flows
    <2>2. CASE kept <= Len(flow)
      BY <2>1, <2>2, SubSeqProperties DEF Flows
    <2>3. CASE kept = Len(flow) + 1
      BY <2>3, SubSeqProperties, EmptySeq DEF Flows
    <2>4. QED
      BY <2>2, <2>3 DEF Flows
  <1>2. /\ new \in Flows
        /\ Len(new) = n + 1
        /\ \A i \in 1..n : new[i] = rest[i]
        /\ new[n + 1] = e
    BY <1>1, AppendProperties DEF Flows
  <1>3. Len(flow) \in Nat /\ kept \in Nat /\ n \in Nat
    BY DEF Flows
  <1>4. ASSUME NEW i \in 2..Len(new) PROVE new[i] # new[i - 1]
    <2>0. i \in Nat /\ i <= n + 1
      BY <1>2, <1>3
    <2>1. CASE i <= n
      <3>1. new[i] = flow[kept + i - 1] /\ new[i - 1] = flow[kept + i - 2]
        BY <1>1, <1>2, <1>3, <2>1
      <3>2. kept + i - 1 \in 2..Len(flow) /\ kept + i - 2 = (kept + i - 1) - 1
        BY <1>3, <2>1 DEF Flows
      <3>3. QED
        BY <3>1, <3>2 DEF Alternates
    <2>2. CASE i = n + 1
      <3>1. n \in 1..n /\ kept + n - 1 = Len(flow) /\ flow # <<>>
        BY <1>2, <1>3, <2>2 DEF Flows
      <3>2. new[i - 1] = flow[Len(flow)]
        BY <1>1, <1>2, <1>3, <2>2, <3>1
      <3>3. QED
        BY <1>2, <2>2, <3>1, <3>2
    <2>3. QED
      BY <1>3, <2>0, <2>1, <2>2
  <1>5. new # <<>> /\ new[Len(new)] = e
    <2> HIDE DEF new, rest
    <2>1. Len(new) # 0
      BY <1>2, <1>3
    <2>2. QED
      BY <1>2, <2>1, EmptySeq
  <1>6. EndsIn(new, e)
    <2> HIDE DEF new
    <2>1. QED
      BY <1>2, <1>4, <1>5 DEF Alternates, EndsIn
  <1>7. QED
    BY <1>6 DEF Extended

LEMMA TransitionKeeps ==
  ASSUME NEW info \in Rows, NEW category \in Categories,
         NEW kept \in 1..(Len(info.flow) + 1),
         Alternates(info.flow),
         info.flow # <<>> =>
             (info.flow[Len(info.flow)] = "in" <=> info.category = "keep"),
         info.category = "keep" => info.flow # <<>>,
         NEW new, new = Transition(info, category, kept)
  PROVE  /\ new \in Rows
         /\ new.category = category
         /\ new.state = info.state /\ new.text = info.text /\ new.rev = info.rev
         /\ Alternates(new.flow)
         /\ new.flow # <<>> => (new.flow[Len(new.flow)] = "in" <=> category = "keep")
         /\ category = "keep" => new.flow # <<>>
  <1> DEFINE e == IF category = "keep" THEN "in" ELSE "out"
             flow == Append(SubSeq(info.flow, kept, Len(info.flow)), e)
  <1>1. CASE info.category = category
    BY <1>1 DEF Transition, Rows
  <1>2. CASE info.category # category
    <2>1. info.flow \in Flows /\ info.category \in Categories
      BY DEF Rows, Flows
    <2>2. info.flow # <<>> => info.flow[Len(info.flow)] # e
      <3>1. info.category = "keep" <=> category # "keep"
        BY <1>2, <2>1 DEF Categories
      <3>2. ASSUME info.flow # <<>> PROVE info.flow[Len(info.flow)] \in {"in", "out"}
        <4>1. info.flow \in Seq({"in", "out"})
          BY <2>1 DEF Flows
        <4>2. Len(info.flow) \in 1..Len(info.flow)
          BY <3>2, <4>1, EmptySeq
        <4>3. QED
          BY <4>1, <4>2, ElementOfSeq
      <3>3. QED
        BY <3>1, <3>2
    <2>3. e \in {"in", "out"}
      OBVIOUS
    <2>4. /\ flow \in Flows /\ flow # <<>>
          /\ flow[Len(flow)] = e
          /\ Alternates(flow)
      <3> DEFINE old == info.flow
      <3>1. /\ old \in Flows /\ Alternates(old)
            /\ kept \in 1..(Len(old) + 1)
            /\ old # <<>> => old[Len(old)] # e
            /\ flow = Append(SubSeq(old, kept, Len(old)), e)
        BY <2>1, <2>2
      <3> HIDE DEF e, flow, old
      <3>2. Differs(old, kept, e) /\ flow = Extended(old, kept, e)
        BY <2>3, <3>1 DEF Differs, Extended
      <3>3. EndsIn(flow, e)
        BY <3>2, FlowExtended
      <3>4. QED
        BY <3>3 DEF EndsIn
    <2>5. new = [info EXCEPT !.category = category, !.flow = flow]
      BY <1>2 DEF Transition
    <2>6. /\ new.flow = flow /\ new.category = category
          /\ new.state = info.state /\ new.text = info.text /\ new.rev = info.rev
      BY <2>5 DEF Rows
    <2>7. new \in Rows
      <3> HIDE DEF flow
      <3>1. QED
        BY <2>4, <2>5 DEF Rows, Flows
    <2>8. e = "in" <=> category = "keep"
      OBVIOUS
    <2>9. QED
      BY <2>4, <2>6, <2>7, <2>8
  <1>3. QED
    BY <1>1, <1>2

(* A change of the poke by a writer that was shown it. *)
LEMMA WrittenRow ==
  ASSUME PokeInv, NEW w \in Writers, NEW info \in Rows, Write(w, info)
  PROVE  /\ row' \in Rows /\ row' # None /\ row'.rev = writes + 1
         /\ row'.state = info.state /\ row'.category = info.category
         /\ row'.text = info.text /\ row'.flow = info.flow
         /\ copy' \in [Writers -> Rows \cup {None}]
         /\ writes' \in 0..MaxWrites /\ silent' \in BOOLEAN
         /\ LockInv' /\ CopiesInv' /\ (rows' \in Nat /\ (rows' = 0 <=> row' = None))
  <1>1. /\ writes' = writes + 1 /\ writes + 1 \in 0..MaxWrites
        /\ row # None /\ row' = [info EXCEPT !.rev = writes + 1]
        /\ copy' = [copy EXCEPT ![w] = row']
        /\ silent' = FALSE /\ UNCHANGED <<rows, looking>>
    BY DEF Write, Shown, Stamped, PokeInv, PokeTypeOK
  <1>2. /\ row' \in Rows /\ row'.rev = writes + 1
        /\ row'.state = info.state /\ row'.category = info.category
        /\ row'.text = info.text /\ row'.flow = info.flow
    BY <1>1 DEF Rows
  <1>3. row' # None
    BY <1>2
  <1>4. copy' \in [Writers -> Rows \cup {None}]
    BY <1>1, <1>2 DEF PokeInv, PokeTypeOK
  <1>5. LockInv'
    BY <1>1 DEF PokeInv, LockInv
  <1>6. CopiesInv'
    <2>1. \A v \in Writers \ {w} : copy'[v] = copy[v]
      BY <1>1 DEF PokeInv, PokeTypeOK
    <2>2. copy'[w] = row'
      BY <1>1 DEF PokeInv, PokeTypeOK
    <2>3. \A v \in Writers : copy[v] # None => copy[v].rev <= writes /\ copy[v].rev \in Nat
      BY DEF PokeInv, PokeTypeOK, CopiesInv, Rows
    <2>4. writes \in Nat
      BY DEF PokeInv, PokeTypeOK
    <2>5. ASSUME NEW v \in Writers, copy'[v] # None
          PROVE  copy'[v].rev <= writes' /\ (copy'[v].rev = row'.rev => copy'[v] = row')
      BY <1>1, <1>2, <2>1, <2>2, <2>3, <2>4, <2>5
    <2>6. QED
      BY <1>1, <1>2, <2>4, <2>5 DEF CopiesInv
  <1>7. rows' \in Nat /\ (rows' = 0 <=> row' = None)
    BY <1>1, <1>3 DEF PokeInv, PokeTypeOK
  <1>8. QED
    BY <1>1, <1>2, <1>3, <1>4, <1>5, <1>6, <1>7

(* Every write goes through _keep_transition. *)
LEMMA Changed ==
  ASSUME PokeInv, row # None, NEW w \in Writers,
         NEW base \in Rows, base.flow = row.flow, base.category = row.category,
         NEW category \in Categories, category = "keep" => base.state = "open",
         NEW kept \in Week, Write(w, Transition(base, category, kept)),
         approved' \in Texts \cup {None}, edited' \in BOOLEAN,
         base.state \in {"approved", "picked_up"} => base.text = approved' \/ edited'
  PROVE  PokeInv'
  <1> DEFINE info == Transition(base, category, kept)
  <1>1. kept \in 1..(Len(base.flow) + 1)
    BY DEF Week
  <1>2. /\ row.category = "keep" => row.flow # <<>>
        /\ row.flow # <<>> => (row.flow[Len(row.flow)] = "in" <=> row.category = "keep")
        /\ Alternates(row.flow)
    BY DEF PokeInv, KeepFlow, Alternates
  <1>3. /\ info \in Rows
        /\ info.category = category
        /\ info.state = base.state /\ info.text = base.text
        /\ Alternates(info.flow)
        /\ info.flow # <<>> => (info.flow[Len(info.flow)] = "in" <=> category = "keep")
        /\ category = "keep" => info.flow # <<>>
    BY <1>1, <1>2, TransitionKeeps
  <1> HIDE DEF info
  <1>4. Write(w, info)
    BY DEF info
  <1>5. /\ row' \in Rows /\ row' # None
        /\ row'.state = base.state /\ row'.category = category
        /\ row'.text = base.text /\ row'.flow = info.flow
        /\ copy' \in [Writers -> Rows \cup {None}]
        /\ writes' \in 0..MaxWrites /\ silent' \in BOOLEAN
        /\ LockInv' /\ CopiesInv' /\ (rows' \in Nat /\ (rows' = 0 <=> row' = None))
    BY <1>3, <1>4, WrittenRow
  <1>6. KeepFlow'
    BY <1>3, <1>5 DEF KeepFlow, Alternates
  <1>7. ApprovalHolds'
    BY <1>5 DEF ApprovalHolds
  <1>8. looking' \subseteq Writers
    BY DEF Write, PokeInv, PokeTypeOK
  <1>9. QED
    BY <1>5, <1>6, <1>7, <1>8 DEF PokeInv, PokeTypeOK

LEMMA Acted ==
  ASSUME PokeInv, NEW w \in Writers, NEW state \in STATES, NEW category \in Categories,
         category = "keep" => state = "open",
         Act(w, state, category),
         approved' \in Texts \cup {None}, edited' \in BOOLEAN,
         state \in {"approved", "picked_up"} => row.text = approved' \/ edited'
  PROVE  PokeInv'
  <1> DEFINE base == [row EXCEPT !.state = state]
  <1>1. row # None /\ row \in Rows
    BY DEF Act, PokeInv, PokeTypeOK
  <1>2. /\ base \in Rows /\ base.state = state /\ base.text = row.text
        /\ base.flow = row.flow /\ base.category = row.category
    BY <1>1 DEF Rows
  <1>3. PICK kept \in Week : Write(w, Transition(base, category, kept))
    BY DEF Act
  <1> HIDE DEF base
  <1>4. QED
    BY <1>1, <1>2, <1>3, Changed

-----------------------------------------------------------------------------
(* The invariant is inductive: one lemma for each operation that is not an  *)
(* action on a live poke.                                                   *)

LEMMA InitPokeInv == PokeInit => PokeInv
  <1> SUFFICES ASSUME PokeInit PROVE PokeInv
    OBVIOUS
  <1>1. copy \in [Writers -> Rows \cup {None}]
    BY DEF PokeInit
  <1>2. writes \in 0..MaxWrites /\ rows \in Nat
    BY DEF PokeInit
  <1>3. PokeTypeOK
    BY <1>1, <1>2 DEF PokeInit, PokeTypeOK
  <1>4. QED
    BY <1>3 DEF PokeInit, PokeInv, LockInv, CopiesInv, ApprovalHolds, KeepFlow

LEMMA ReadKeeps ==
  ASSUME PokeInv, NEW w \in Writers, Read(w)
  PROVE  PokeInv'
  <1>1. /\ copy' = [copy EXCEPT ![w] = row]
        /\ copy \in [Writers -> Rows \cup {None}] /\ row \in Rows \cup {None}
    BY DEF Read, PokeInv, PokeTypeOK
  <1>2. PokeTypeOK'
    BY <1>1 DEF Read, PokeInv, PokeTypeOK
  <1>3. CopiesInv'
    BY <1>1 DEF Read, PokeInv, CopiesInv
  <1>4. LockInv' /\ ApprovalHolds' /\ KeepFlow'
    BY DEF Read, PokeInv, LockInv, ApprovalHolds, KeepFlow
  <1>5. QED
    BY <1>2, <1>3, <1>4 DEF PokeInv

LEMMA LookKeeps ==
  ASSUME PokeInv, NEW w \in Writers, Look(w)
  PROVE  PokeInv'
  <1>1. PokeTypeOK'
    BY DEF Look, PokeInv, PokeTypeOK
  <1>2. LockInv'
    BY DEF Look, Free, PokeInv, LockInv
  <1>3. CopiesInv' /\ ApprovalHolds' /\ KeepFlow'
    BY DEF Look, PokeInv, CopiesInv, ApprovalHolds, KeepFlow
  <1>4. QED
    BY <1>1, <1>2, <1>3 DEF PokeInv

LEMMA CreateKeeps ==
  ASSUME PokeInv, NEW w \in Writers, NEW text \in Texts, NEW category \in Categories,
         Create(w, text, category)
  PROVE  PokeInv'
  <1> DEFINE flow == IF category = "keep" THEN <<"in">> ELSE <<>>
             new == [state |-> "open", category |-> category, text |-> text,
                     flow |-> flow, rev |-> writes + 1]
  <1>1. /\ writes' = writes + 1 /\ writes \in Nat /\ writes + 1 \in 0..MaxWrites
        /\ row' = new /\ rows' = rows + 1
        /\ w \in looking /\ looking' = looking \ {w} /\ looking \subseteq Writers
        /\ copy' = [copy EXCEPT ![w] = new] /\ silent' = FALSE
        /\ UNCHANGED <<approved, edited>>
    BY DEF Create, Stamped, PokeInv, PokeTypeOK
  <1>2. row = None /\ rows = 0
    BY <1>1 DEF PokeInv, LockInv, PokeTypeOK
  <1>3. flow \in Seq({"in", "out"})
    <2>1. <<"in">> \in Seq({"in", "out"}) /\ <<>> \in Seq({"in", "out"})
      OBVIOUS
    <2>2. QED
      BY <2>1
  <1>4. new \in Rows /\ new # None
    <2> HIDE DEF flow
    <2>1. new \in Rows
      BY <1>1, <1>3 DEF Rows, STATES, LIVE
    <2>2. QED
      BY <2>1
  <1>5. PokeTypeOK'
    <2> HIDE DEF new
    <2>1. copy' \in [Writers -> Rows \cup {None}]
      BY <1>1, <1>4 DEF PokeInv, PokeTypeOK
    <2>2. writes' \in 0..MaxWrites /\ rows' \in Nat /\ rows' # 0 /\ row' # None
      BY <1>1, <1>2, <1>4
    <2>3. /\ looking' \subseteq Writers /\ silent' \in BOOLEAN
          /\ approved' \in Texts \cup {None} /\ edited' \in BOOLEAN
      BY <1>1 DEF PokeInv, PokeTypeOK
    <2>4. QED
      BY <1>1, <1>4, <2>1, <2>2, <2>3 DEF PokeTypeOK
  <1>6. LockInv'
    BY <1>1, <1>2 DEF PokeInv, LockInv
  <1>7. CopiesInv'
    <2>1. \A v \in Writers : copy[v] # None => copy[v].rev <= writes /\ copy[v].rev \in Nat
      BY DEF PokeInv, PokeTypeOK, CopiesInv, Rows
    <2>2. new.rev = writes + 1
      OBVIOUS
    <2> HIDE DEF new
    <2>3. ASSUME NEW v \in Writers, copy'[v] # None
          PROVE  copy'[v].rev <= writes' /\ (copy'[v].rev = row'.rev => copy'[v] = row')
      BY <1>1, <2>1, <2>2, <2>3 DEF PokeInv, PokeTypeOK
    <2>4. QED
      BY <1>1, <2>2, <2>3 DEF CopiesInv
  <1>8. ApprovalHolds'
    BY <1>1 DEF ApprovalHolds
  <1>9. KeepFlow'
    BY <1>1 DEF KeepFlow, Categories
  <1>10. QED
    BY <1>5, <1>6, <1>7, <1>8, <1>9 DEF PokeInv

LEMMA SaveKeeps ==
  ASSUME PokeInv, NEW w \in Writers, NEW text \in Texts, NEW category \in Categories,
         Save(w, text, category)
  PROVE  PokeInv'
  <1> DEFINE base == Saved(row, text)
  <1>1. row # None /\ row \in Rows /\ row.state \in LIVE
    BY DEF Save, PokeInv, PokeTypeOK
  <1>2. /\ base \in Rows /\ base.text = text
        /\ base.state = IF row.state = "approved" /\ text # row.text THEN "open" ELSE row.state
        /\ base.flow = row.flow /\ base.category = row.category
    BY <1>1 DEF Saved, Rows, STATES, LIVE
  <1>3. category = "keep" => base.state = "open"
    BY <1>1, <1>2 DEF Save, PokeInv, KeepFlow
  <1>4. PICK kept \in Week : Write(w, Transition(base, category, kept))
    BY DEF Save
  <1>5. /\ approved' = approved /\ edited' = edited
        /\ approved \in Texts \cup {None} /\ edited \in BOOLEAN
    BY DEF Save, PokeInv, PokeTypeOK
  <1>6. base.state \in {"approved", "picked_up"} => base.text = approved' \/ edited'
    BY <1>1, <1>2, <1>5 DEF LIVE, PokeInv, ApprovalHolds
  <1> HIDE DEF base
  <1>7. QED
    BY <1>1, <1>2, <1>3, <1>4, <1>5, <1>6, Changed

LEMMA EditKeeps ==
  ASSUME PokeInv, NEW text \in Texts, NEW keepTime \in BOOLEAN, Edit(text, keepTime)
  PROVE  PokeInv'
  <1>1. /\ row # None /\ row \in Rows /\ writes \in Nat
        /\ copy \in [Writers -> Rows \cup {None}]
        /\ UNCHANGED <<rows, looking, copy, approved>>
        /\ silent' = (silent \/ keepTime)
        /\ edited' = (edited \/ row.state \in {"approved", "picked_up"})
    BY DEF Edit, PokeInv, PokeTypeOK
  <1>2. /\ row' \in Rows /\ row'.state = row.state /\ row'.flow = row.flow
        /\ row'.category = row.category
        /\ writes' \in 0..MaxWrites
        /\ IF keepTime THEN row'.rev = row.rev /\ writes' = writes
           ELSE row'.rev = writes + 1 /\ writes' = writes + 1
    <2>1. CASE keepTime
      BY <1>1, <2>1 DEF Edit, Rows, PokeInv, PokeTypeOK
    <2>2. CASE ~keepTime
      <3>1. /\ writes' = writes + 1 /\ writes + 1 \in 0..MaxWrites
            /\ row' = [row EXCEPT !.text = text, !.rev = writes + 1]
        BY <1>1, <2>2 DEF Edit, Stamped
      <3>2. QED
        BY <1>1, <2>2, <3>1 DEF Rows
    <2>3. QED
      BY <2>1, <2>2
  <1>3. PokeTypeOK'
    <2>1. row' # None
      BY <1>2
    <2>2. silent' \in BOOLEAN /\ edited' \in BOOLEAN
      BY <1>1 DEF PokeInv, PokeTypeOK
    <2>3. QED
      BY <1>1, <1>2, <2>1, <2>2 DEF PokeInv, PokeTypeOK
  <1>4. LockInv'
    BY <1>1 DEF PokeInv, LockInv
  <1>5. CopiesInv'
    <2>1. /\ row.rev <= writes
          /\ \A v \in Writers : copy[v] # None =>
              copy[v].rev <= writes /\ copy[v].rev \in Nat
      BY <1>1 DEF PokeInv, CopiesInv, Rows
    <2>2. CASE keepTime
      BY <1>1, <1>2, <2>1, <2>2 DEF CopiesInv
    <2>3. CASE ~keepTime
      <3>1. row'.rev = writes + 1 /\ writes' = writes + 1
        BY <1>2, <2>3
      <3>2. \A v \in Writers : copy'[v] # None =>
               copy'[v].rev <= writes' /\ copy'[v].rev # row'.rev
        BY <1>1, <2>1, <3>1
      <3>3. QED
        BY <1>1, <3>1, <3>2 DEF CopiesInv
    <2>4. QED
      BY <2>2, <2>3
  <1>6. ApprovalHolds'
    BY <1>1, <1>2 DEF ApprovalHolds
  <1>7. KeepFlow'
    BY <1>1, <1>2 DEF PokeInv, KeepFlow
  <1>8. QED
    BY <1>3, <1>4, <1>5, <1>6, <1>7 DEF PokeInv

LEMMA DeleteKeeps ==
  ASSUME PokeInv, Delete
  PROVE  PokeInv'
  BY DEF Delete, PokeInv, PokeTypeOK, LockInv, CopiesInv, ApprovalHolds, KeepFlow

LEMMA ActionKeeps ==
  ASSUME PokeInv, NEW w \in Writers,
         \/ Approve(w) \/ Pickup(w) \/ Defer(w) \/ Reopen(w) \/ Close(w)
         \/ \E category \in Categories : Put(w, category)
  PROVE  PokeInv'
  <1>1. /\ "attention" \in Categories
        /\ {"open", "approved", "deferred", "picked_up", "done", "dismissed"} \subseteq STATES
    BY DEF Categories, STATES, LIVE
  <1>2. approved \in Texts \cup {None} /\ edited \in BOOLEAN
    BY DEF PokeInv, PokeTypeOK
  <1>3. CASE Approve(w)
    <2>1. approved' = row.text /\ row.text \in Texts /\ edited' = FALSE
      BY <1>3 DEF Approve, PokeInv, PokeTypeOK, Rows
    <2>2. QED
      BY <1>1, <1>3, <2>1, Acted DEF Approve
  <1>4. CASE Pickup(w)
    <2>1. /\ row.category \in Categories /\ row.category # "keep"
          /\ row.text = approved \/ edited
      BY <1>4 DEF Pickup, PokeInv, PokeTypeOK, Rows, KeepFlow, ApprovalHolds
    <2>2. QED
      BY <1>1, <1>2, <1>4, <2>1, Acted DEF Pickup
  <1>5. CASE Defer(w)
    BY <1>1, <1>2, <1>5, Acted DEF Defer
  <1>6. CASE Reopen(w)
    BY <1>1, <1>2, <1>6, Acted DEF Reopen
  <1>7. CASE Close(w)
    BY <1>1, <1>2, <1>7, Acted DEF Close
  <1>8. ASSUME NEW category \in Categories, Put(w, category) PROVE PokeInv'
    BY <1>1, <1>2, <1>8, Acted DEF Put
  <1>9. QED
    BY <1>3, <1>4, <1>5, <1>6, <1>7, <1>8

LEMMA NextPokeInv == PokeInv /\ [PokeNext]_pokeVars => PokeInv'
  <1> SUFFICES ASSUME PokeInv, [PokeNext]_pokeVars PROVE PokeInv'
    OBVIOUS
  <1>1. CASE UNCHANGED pokeVars
    BY <1>1 DEF pokeVars, PokeInv, PokeTypeOK, LockInv, CopiesInv, ApprovalHolds, KeepFlow
  <1>2. ASSUME NEW w \in Writers, Read(w) PROVE PokeInv'
    BY <1>2, ReadKeeps
  <1>3. ASSUME NEW w \in Writers, Look(w) PROVE PokeInv'
    BY <1>3, LookKeeps
  <1>4. ASSUME NEW w \in Writers, NEW text \in Texts, NEW category \in Categories,
               Create(w, text, category)
        PROVE  PokeInv'
    BY <1>4, CreateKeeps
  <1>5. ASSUME NEW w \in Writers, NEW text \in Texts, NEW category \in Categories,
               Save(w, text, category)
        PROVE  PokeInv'
    BY <1>5, SaveKeeps
  <1>6. ASSUME NEW text \in Texts, NEW keepTime \in BOOLEAN, Edit(text, keepTime)
        PROVE  PokeInv'
    BY <1>6, EditKeeps
  <1>7. CASE Delete
    BY <1>7, DeleteKeeps
  <1>8. QED
    BY <1>1, <1>2, <1>3, <1>4, <1>5, <1>6, <1>7, ActionKeeps DEF PokeNext

(* Every variable of a poke keeps its type. *)
THEOREM PokeTypeCorrect == PokeSpec => []PokeTypeOK
  <1>1. PokeInv => PokeTypeOK
    BY DEF PokeInv
  <1>2. QED
    BY InitPokeInv, NextPokeInv, <1>1, PTL DEF PokeSpec

(* The advisory lock of save_poke gives one issue one record, whatever      *)
(* sessions raise it at once.                                               *)
THEOREM OneIssueOneRecord == PokeSpec => []OneRecord
  <1>1. PokeInv => OneRecord
    BY DEF PokeInv, LockInv, OneRecord
  <1>2. QED
    BY InitPokeInv, NextPokeInv, <1>1, PTL DEF PokeSpec

(* save_poke and poke_action never leave a poke approved, or picked up,     *)
(* with another text than the operator approved.                            *)
THEOREM ApprovalIsForText == PokeSpec => []ApprovalHolds
  <1>1. PokeInv => ApprovalHolds
    BY DEF PokeInv
  <1>2. QED
    BY InitPokeInv, NextPokeInv, <1>1, PTL DEF PokeSpec

(* _keep_transition keeps the entries and exits of Keep in step with the    *)
(* group of the poke, whatever is saved, decided or reopened.               *)
THEOREM KeepIsCounted == PokeSpec => []KeepFlow
  <1>1. PokeInv => KeepFlow
    BY DEF PokeInv
  <1>2. QED
    BY InitPokeInv, NextPokeInv, <1>1, PTL DEF PokeSpec

(* _revision: a writer replaces only the poke it was shown, however long    *)
(* ago it read it, unless an editor kept the time.                          *)
THEOREM ChangesAreSeen == PokeSpec => ChangesSeen
  <1> DEFINE Seen == \A w \in Writers :
                 row # None /\ row' # row /\ copy'[w] # copy[w] /\ copy'[w] = row' =>
                     copy[w] = row \/ silent
  <1>1. ASSUME PokeInv, PokeNext PROVE Seen
    <2> SUFFICES ASSUME NEW w \in Writers, row # None, row' # row,
                        copy'[w] # copy[w], copy'[w] = row'
                 PROVE  copy[w] = row \/ silent
      OBVIOUS
    <2>1. ASSUME NEW v \in Writers, NEW info, Write(v, info)
          PROVE  copy[w] = row \/ silent
      <3>1. copy' = [copy EXCEPT ![v] = row'] /\ Shown(v)
        BY <2>1 DEF Write
      <3>2. v = w
        BY <1>1, <3>1 DEF PokeInv, PokeTypeOK
      <3>3. copy[w] # None /\ row # None /\ copy[w].rev = row.rev
        BY <3>1, <3>2 DEF Shown
      <3>4. QED
        BY <1>1, <3>3 DEF PokeInv, CopiesInv
    <2>2. ASSUME NEW v \in Writers, NEW state, NEW category, Act(v, state, category)
          PROVE  copy[w] = row \/ silent
      BY <2>1, <2>2 DEF Act
    <2>3. ASSUME NEW v \in Writers, NEW text, NEW category,
                 Create(v, text, category) \/ Save(v, text, category)
          PROVE  copy[w] = row \/ silent
      <3>1. CASE Create(v, text, category)
        <4>1. v \in looking
          BY <3>1, Zenon DEF Create
        <4>2. QED
          BY <1>1, <4>1 DEF PokeInv, LockInv
      <3>2. CASE Save(v, text, category)
        BY <2>1, <3>2 DEF Save
      <3>3. QED
        BY <2>3, <3>1, <3>2
    <2>4. ASSUME NEW v \in Writers,
                 \/ Approve(v) \/ Pickup(v) \/ Defer(v) \/ Reopen(v) \/ Close(v)
                 \/ \E category \in Categories : Put(v, category)
          PROVE  copy[w] = row \/ silent
      BY <2>2, <2>4 DEF Approve, Pickup, Defer, Reopen, Close, Put
    <2>5. ASSUME NEW v \in Writers, Read(v) \/ Look(v) PROVE FALSE
      BY <2>5 DEF Read, Look
    <2>6. ASSUME NEW text, NEW keepTime, Edit(text, keepTime) PROVE FALSE
      BY <2>6 DEF Edit
    <2>7. CASE Delete
      BY <2>7 DEF Delete
    <2>8. QED
      BY <1>1, <2>3, <2>4, <2>5, <2>6, <2>7 DEF PokeNext
  <1>2. PokeInv /\ [PokeNext]_pokeVars => [Seen]_pokeVars
    BY <1>1
  <1>3. QED
    BY InitPokeInv, NextPokeInv, <1>2, PTL DEF PokeSpec, ChangesSeen

=============================================================================
