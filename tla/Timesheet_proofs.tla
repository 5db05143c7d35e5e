--------------------------- MODULE Timesheet_proofs ---------------------------
(***************************************************************************)
(* Theorems about Timesheet, for any requests, corrections and supervisors *)
(* at once, whatever is drafted, a log of any length and days of any.      *)
(*                                                                         *)
(* First what the effective events of a log are: each of its events as the *)
(* last correction read leaves it, in order of time (EffectiveEvents). So  *)
(* an event that was voided is read only when it was restored or moved     *)
(* back (VoidedIsLeftOut). Then the log as it grows, and LogInv.           *)
(***************************************************************************)
EXTENDS Timesheet, Counting

-----------------------------------------------------------------------------
(* Sequences.                                                              *)

\* The function that Only defines.
KeptSteps(h, s, S, T) ==
  /\ h \in [0 .. Len(s) -> Seq(T)]
  /\ h[0] = <<>>
  /\ \A k \in 1 .. Len(s) : h[k] = IF k \in S THEN Append(h[k - 1], s[k]) ELSE h[k - 1]

LEMMA OnlyInSteps ==
  ASSUME NEW T, NEW s \in Seq(T), NEW S
  PROVE  \E h : KeptSteps(h, s, S, T) /\ Only(s, S) = h[Len(s)]
<1> DEFINE n == Len(s)
           op(w, k) == IF k \in S THEN Append(w, s[k]) ELSE w
           base == <<>>
           step == [p \in (1 .. n) \X Seq(T) |-> op(p[2], p[1])]
           Kept(g) == g = [k \in 0 .. Len(s) |->
                        IF k = 0 THEN <<>> ELSE IF k \in S THEN Append(g[k - 1], s[k]) ELSE g[k - 1]]
           kept == CHOOSE g : Kept(g)
<1>1. n \in Nat /\ base \in Seq(T)
  OBVIOUS
<1>2. Only(s, S) = kept[Len(s)]
  BY DEF Only
<1>3. \A w \in Seq(T), k \in 1 .. n : op(w, k) \in Seq(T)
  OBVIOUS
<1>4. step \in [(1 .. n) \X Seq(T) -> Seq(T)]
  <2> HIDE DEF op
  <2> QED
    BY <1>3
<1>5. \A k \in 1 .. n, w \in Seq(T) : step[<<k, w>>] = op(w, k)
  OBVIOUS
<1> HIDE DEF step, base
<1>6. PICK h, value : FoldSteps(h, n, Seq(T), base, step, value)
  <2> HIDE DEF n
  <2> QED
    BY <1>1, <1>4, StepsExist
<1>7. h \in [0 .. n -> Seq(T)] /\ h[0] = <<>>
  BY <1>6 DEF FoldSteps, base
<1>8. ASSUME NEW k \in 1 .. n
      PROVE  h[k] = op(h[k - 1], k)
  <2>1. h[k - 1] \in Seq(T)
    BY <1>1, <1>7
  <2> QED
    BY <1>5, <1>6, <2>1 DEF FoldSteps
<1>9. Kept(h)
  <2>1. \A k \in 0 .. n : k # 0 => k \in 1 .. n
    BY <1>1
  <2> QED
    BY <1>7, <1>8, <2>1
<1>10. Kept(kept)
  <2> HIDE DEF Kept
  <2> QED
    BY <1>9
<1> HIDE DEF kept
<1>11. \A k \in 0 .. n : kept[k] = IF k = 0 THEN <<>> ELSE op(kept[k - 1], k)
  BY <1>10
<1>12. StepRun(kept, n, Seq(T), base, step)
  <2>1. kept[0] = base
    BY <1>1, <1>11 DEF base
  <2>2. \A k \in 1 .. n : k \in 0 .. n /\ k # 0
    BY <1>1
  <2> HIDE DEF op
  <2> QED
    BY <1>5, <1>11, <2>1, <2>2 DEF StepRun
<1>13. PICK f : FoldSteps(f, n, Seq(T), base, step, kept[n])
  <2> HIDE DEF n
  <2> QED
    BY <1>1, <1>4, <1>12, StepsAdvance
<1>14. f \in [0 .. n -> Seq(T)] /\ f[0] = <<>> /\ f[n] = kept[n]
  BY <1>13 DEF FoldSteps, base
<1>15. ASSUME NEW k \in 1 .. n
      PROVE  f[k] = op(f[k - 1], k)
  <2>1. f[k - 1] \in Seq(T)
    BY <1>1, <1>14
  <2> QED
    BY <1>5, <1>13, <2>1 DEF FoldSteps
<1>16. KeptSteps(f, s, S, T)
  BY <1>14, <1>15 DEF KeptSteps
<1> QED
  BY <1>2, <1>14, <1>16

\* How the elements that Only keeps are placed in s: e gives the position of
\* each.
Picks(e, w, m, s, S) ==
  /\ e \in [DOMAIN w -> 1 .. m]
  /\ \A k \in DOMAIN w : w[k] = s[e[k]] /\ e[k] \in S
  /\ \A j, k \in DOMAIN w : j < k => e[j] < e[k]
  /\ \A i \in 1 .. m : i \in S => \E k \in DOMAIN w : e[k] = i

\* One more position.
LEMMA PicksOneMore ==
  ASSUME NEW T, NEW s \in Seq(T), NEW S, NEW m \in 0 .. Len(s) - 1, NEW w \in Seq(T), NEW e,
         Picks(e, w, m, s, S)
  PROVE  \E f : Picks(f, IF m + 1 \in S THEN Append(w, s[m + 1]) ELSE w, m + 1, s, S)
<1>1. m \in Nat /\ m + 1 \in 1 .. Len(s) /\ s[m + 1] \in T
  OBVIOUS
<1>2. CASE m + 1 \notin S
  <2>1. Picks(e, w, m + 1, s, S)
    <3>1. \A i \in 1 .. m + 1 : i \in S => i \in 1 .. m
      BY <1>1, <1>2
    <3> QED
      BY <1>1, <3>1 DEF Picks
  <2> QED
    BY <1>2, <2>1
<1>3. CASE m + 1 \in S
  <2> DEFINE v == Append(w, s[m + 1])
             f == [k \in DOMAIN v |-> IF k = Len(w) + 1 THEN m + 1 ELSE e[k]]
  <2>1. /\ v \in Seq(T) /\ Len(w) \in Nat /\ DOMAIN w = 1 .. Len(w)
        /\ DOMAIN v = 1 .. Len(w) + 1
        /\ \A k \in 1 .. Len(w) : v[k] = w[k]
        /\ v[Len(w) + 1] = s[m + 1]
    BY <1>1
  <2> HIDE DEF v
  <2>2. /\ \A k \in 1 .. Len(w) : f[k] = e[k] /\ e[k] \in 1 .. m
        /\ f[Len(w) + 1] = m + 1
    <3>1. \A k \in 1 .. Len(w) : k \in DOMAIN v /\ k # Len(w) + 1
      BY <2>1
    <3>2. Len(w) + 1 \in DOMAIN v
      BY <2>1
    <3>3. \A k \in 1 .. Len(w) : e[k] \in 1 .. m
      BY <2>1 DEF Picks
    <3> QED
      BY <3>1, <3>2, <3>3
  <2>3. \A k \in DOMAIN v : k \in 1 .. Len(w) \/ k = Len(w) + 1
    BY <2>1
  <2>4. f \in [DOMAIN v -> 1 .. m + 1]
    <3>1. f = [k \in DOMAIN v |-> f[k]]
      OBVIOUS
    <3> HIDE DEF f
    <3>2. \A k \in DOMAIN v : f[k] \in 1 .. m + 1
      BY <1>1, <2>2, <2>3
    <3> QED
      BY <3>1, <3>2
  <2> HIDE DEF f
  <2>5. \A k \in DOMAIN v : v[k] = s[f[k]] /\ f[k] \in S
    BY <1>3, <2>1, <2>2, <2>3 DEF Picks
  <2>6. ASSUME NEW j \in DOMAIN v, NEW k \in DOMAIN v, j < k
        PROVE  f[j] < f[k]
    <3>1. j \in 1 .. Len(w)
      BY <2>1, <2>6
    <3>2. CASE k \in 1 .. Len(w)
      BY <2>1, <2>2, <2>6, <3>1, <3>2 DEF Picks
    <3>3. CASE k = Len(w) + 1
      BY <1>1, <2>2, <3>1, <3>3
    <3> QED
      BY <2>3, <3>2, <3>3
  <2>7. ASSUME NEW i \in 1 .. m + 1, i \in S
        PROVE  \E k \in DOMAIN v : f[k] = i
    <3>1. CASE i = m + 1
      BY <2>1, <2>2, <3>1
    <3>2. CASE i \in 1 .. m
      <4>1. PICK k \in DOMAIN w : e[k] = i
        BY <2>7, <3>2 DEF Picks
      <4> QED
        BY <2>1, <2>2, <4>1
    <3> QED
      BY <1>1, <3>1, <3>2
  <2>8. Picks(f, v, m + 1, s, S)
    BY <2>4, <2>5, <2>6, <2>7 DEF Picks
  <2> QED
    BY <1>3, <2>8 DEF v
<1> QED
  BY <1>2, <1>3

LEMMA OnlyKeepsOrder ==
  ASSUME NEW T, NEW s \in Seq(T), NEW S
  PROVE  Only(s, S) \in Seq(T) /\ \E e : Picks(e, Only(s, S), Len(s), s, S)
<1>1. PICK h : KeptSteps(h, s, S, T) /\ Only(s, S) = h[Len(s)]
  BY OnlyInSteps
<1> DEFINE Good == {m \in 0 .. Len(s) : \E e : Picks(e, h[m], m, s, S)}
<1>2. Len(s) \in Nat
  OBVIOUS
<1>3. 0 \in Good
  <2> DEFINE none == [k \in DOMAIN h[0] |-> 0]
  <2>1. h[0] = <<>> /\ DOMAIN h[0] = {}
    BY <1>1 DEF KeptSteps
  <2>2. none \in [DOMAIN h[0] -> 1 .. 0]
    BY <2>1
  <2> HIDE DEF none
  <2>3. Picks(none, h[0], 0, s, S)
    BY <2>1, <2>2 DEF Picks
  <2> QED
    BY <1>2, <2>3
<1>4. ASSUME NEW m \in 0 .. Len(s) - 1, m \in Good
      PROVE  m + 1 \in Good
  <2>1. PICK e : Picks(e, h[m], m, s, S)
    BY <1>4
  <2>2. m + 1 \in 1 .. Len(s) /\ (m + 1) - 1 = m /\ m \in 0 .. Len(s)
    BY <1>2
  <2>3. h[m] \in Seq(T) /\ h[m + 1] = IF m + 1 \in S THEN Append(h[m], s[m + 1]) ELSE h[m]
    BY <1>1, <2>2 DEF KeptSteps
  <2>4. \E f : Picks(f, h[m + 1], m + 1, s, S)
    BY <2>1, <2>3, PicksOneMore
  <2> QED
    BY <2>2, <2>4
<1> HIDE DEF Good
<1>5. Len(s) \in Good
  BY <1>2, <1>3, <1>4, UpTo
<1>6. h[Len(s)] \in Seq(T)
  BY <1>1, <1>2 DEF KeptSteps
<1> QED
  BY <1>1, <1>5, <1>6 DEF Good

-----------------------------------------------------------------------------
(* Sorting.                                                                *)

\* The function that StableByTime defines.
SortedSteps(h, s, T) ==
  /\ h \in [0 .. Len(s) -> Seq(T)]
  /\ h[0] = <<>>
  /\ \A k \in 1 .. Len(s) : h[k] = Inserted(h[k - 1], s[k])

ByTime(w) == \A j, k \in DOMAIN w : j < k => w[j].at <= w[k].at

\* Where an element is inserted: after the first c.
InsertedAfter(v, c, w, x) ==
  /\ c \in 0 .. Len(w) /\ DOMAIN v = 1 .. Len(w) + 1
  /\ \A k \in 1 .. c : v[k] = w[k]
  /\ v[c + 1] = x
  /\ \A k \in c + 1 .. Len(w) : v[k + 1] = w[k]

LEMMA InsertedSomewhere ==
  ASSUME NEW T, NEW w \in Seq(T), NEW x \in T
  PROVE  /\ Inserted(w, x) \in Seq(T)
         /\ InsertedAfter(Inserted(w, x), Cardinality({k \in DOMAIN w : w[k].at <= x.at}), w, x)
<1> DEFINE D == {k \in DOMAIN w : w[k].at <= x.at}
           c == Cardinality(D)
<1>1. c \in 0 .. Len(w)
  <2>1. Len(w) \in Nat /\ DOMAIN w = 1 .. Len(w)
    OBVIOUS
  <2>2. IsFiniteSet(1 .. Len(w)) /\ Cardinality(1 .. Len(w)) = Len(w)
    BY <2>1, FS_Interval
  <2>3. D \subseteq 1 .. Len(w)
    BY <2>1
  <2> HIDE DEF D
  <2>4. IsFiniteSet(D) /\ Cardinality(D) <= Len(w)
    BY <2>2, <2>3, FS_Subset
  <2>5. Cardinality(D) \in Nat
    BY <2>4, FS_CardinalityType
  <2> QED
    BY <2>1, <2>4, <2>5
<1>2. Inserted(w, x) = InsertAt(w, c + 1, x)
  BY Zenon DEF Inserted
<1> HIDE DEF c
<1>3. Inserted(w, x) = SubSeq(w, 1, c) \o <<x>> \o SubSeq(w, c + 1, Len(w))
  <2>1. (c + 1) - 1 = c
    BY <1>1
  <2>2. InsertAt(w, c + 1, x) = SubSeq(w, 1, (c + 1) - 1) \o <<x>> \o SubSeq(w, c + 1, Len(w))
    BY DEF InsertAt
  <2> QED
    BY <1>2, <2>1, <2>2, Zenon
<1> DEFINE a == SubSeq(w, 1, c)
           b == SubSeq(w, c + 1, Len(w))
<1>4. /\ a \in Seq(T) /\ Len(a) = c /\ \A k \in 1 .. c : a[k] = w[k]
      /\ b \in Seq(T) /\ Len(b) = Len(w) - c
      /\ \A k \in 1 .. Len(w) - c : b[k] = w[c + k]
  BY <1>1
<1> HIDE DEF a, b
<1>5. (a \o <<x>>) \in Seq(T) /\ Len(a \o <<x>>) = c + 1
      /\ (\A k \in 1 .. c : (a \o <<x>>)[k] = w[k]) /\ (a \o <<x>>)[c + 1] = x
  BY <1>1, <1>4
<1> DEFINE y == a \o <<x>>
<1> HIDE DEF y
<1>6. y \in Seq(T) /\ Len(y) = c + 1 /\ (\A k \in 1 .. c : y[k] = w[k]) /\ y[c + 1] = x
  BY <1>5 DEF y
<1>7. /\ y \o b \in Seq(T) /\ Len(y \o b) = Len(w) + 1
      /\ \A k \in 1 .. c + 1 : (y \o b)[k] = y[k]
      /\ \A k \in c + 2 .. Len(w) + 1 : (y \o b)[k] = b[k - (c + 1)]
  BY <1>1, <1>4, <1>6
<1>8. Inserted(w, x) = y \o b
  BY <1>3 DEF y, a, b
<1> DEFINE v == y \o b
<1> HIDE DEF v
<1>9. /\ v \in Seq(T) /\ Len(v) = Len(w) + 1
      /\ \A k \in 1 .. c + 1 : v[k] = y[k]
      /\ \A k \in c + 2 .. Len(w) + 1 : v[k] = b[k - (c + 1)]
  BY <1>7 DEF v
<1>10. \A k \in c + 1 .. Len(w) : v[k + 1] = w[k]
  <2>1. ASSUME NEW k \in c + 1 .. Len(w)
        PROVE  v[k + 1] = w[k]
    <3>1. k + 1 \in c + 2 .. Len(w) + 1 /\ (k + 1) - (c + 1) = k - c
          /\ k - c \in 1 .. Len(w) - c /\ c + (k - c) = k
      BY <1>1
    <3>2. v[k + 1] = b[(k + 1) - (c + 1)]
      BY <1>9, <3>1
    <3>3. b[k - c] = w[c + (k - c)]
      BY <1>4, <3>1
    <3> QED
      BY <3>1, <3>2, <3>3, Zenon
  <2> QED
    BY <2>1
<1>11. \A k \in 1 .. c : v[k] = w[k]
  BY <1>1, <1>6, <1>9
<1>12. v[c + 1] = x
  BY <1>1, <1>6, <1>9
<1>13. DOMAIN v = 1 .. Len(w) + 1
  BY <1>9
<1>14. InsertedAfter(v, c, w, x)
  BY <1>1, <1>10, <1>11, <1>12, <1>13 DEF InsertedAfter
<1> QED
  BY <1>8, <1>9, <1>14 DEF v, c

\* Every element has a time.
Timed(T) == \A x \in T : x.at \in Int

\* A set of the first naturals, as many as it has.
LEMMA FirstOnes ==
  ASSUME NEW m \in Nat, NEW D \in SUBSET (1 .. m), \A k \in D : \A j \in 1 .. k : j \in D
  PROVE  D = 1 .. Cardinality(D) /\ Cardinality(D) \in 0 .. m
<1>1. CASE D = {}
  <2>1. Cardinality(D) = 0
    BY <1>1, FS_EmptySet
  <2> QED
    BY <1>1, <2>1
<1>2. CASE D # {}
  <2>1. PICK g \in D : \A j \in D : j <= g
    BY <1>2, GreatestIndex
  <2>2. D = 1 .. g /\ g \in 1 .. m
    <3>1. g \in 1 .. m /\ \A j \in 1 .. g : j \in D
      BY <2>1
    <3>2. \A j \in D : j \in 1 .. g
      BY <2>1
    <3> QED
      BY <3>1, <3>2
  <2>3. Cardinality(1 .. g) = g
    BY <2>2, FS_Interval
  <2> QED
    BY <2>2, <2>3
<1> QED
  BY <1>1, <1>2

\* w has the first m elements of s in the order of their times, and those of
\* the same time in their own order: p gives the place of each in s.
Arranges(p, w, m, s) ==
  /\ p \in [1 .. m -> 1 .. m] /\ DOMAIN w = 1 .. m
  /\ \A k \in 1 .. m : w[k] = s[p[k]]
  /\ \A i \in 1 .. m : \E k \in 1 .. m : p[k] = i
  /\ \A j, k \in 1 .. m : j < k =>
       w[j].at < w[k].at \/ (w[j].at = w[k].at /\ p[j] < p[k])

LEMMA ArrangesOneMore ==
  ASSUME NEW T, Timed(T), NEW s \in Seq(T), NEW m \in 0 .. Len(s) - 1, NEW w \in Seq(T), NEW p,
         Arranges(p, w, m, s)
  PROVE  \E q : Arranges(q, Inserted(w, s[m + 1]), m + 1, s)
<1> DEFINE x == s[m + 1]
           D == {k \in DOMAIN w : w[k].at <= x.at}
           c == Cardinality(D)
           v == Inserted(w, x)
           q == [k \in 1 .. m + 1 |-> IF k <= c THEN p[k] ELSE IF k = c + 1 THEN m + 1 ELSE p[k - 1]]
<1>1. m \in Nat /\ m + 1 \in 1 .. Len(s) /\ x \in T /\ Len(w) = m /\ DOMAIN w = 1 .. m
  BY DEF Arranges
<1>2. x.at \in Int /\ \A k \in 1 .. m : w[k] \in T /\ w[k].at \in Int
  BY <1>1 DEF Timed
<1>3. v \in Seq(T) /\ InsertedAfter(v, c, w, x)
  BY <1>1, InsertedSomewhere
<1> HIDE DEF x, v
<1>4. D = 1 .. c /\ c \in 0 .. m
  <2>1. \A j, k \in 1 .. m : j < k => w[j].at <= w[k].at
    <3>1. \A j, k \in 1 .. m : j < k => w[j].at < w[k].at \/ w[j].at = w[k].at
      BY DEF Arranges
    <3> QED
      BY <1>2, <3>1
  <2>2. D \in SUBSET (1 .. m) /\ \A k \in D : \A j \in 1 .. k : j \in D
    BY <1>1, <1>2, <2>1
  <2> HIDE DEF D
  <2> QED
    BY <1>1, <2>2, FirstOnes
<1>5. (\A k \in 1 .. c : w[k].at <= x.at) /\ \A k \in c + 1 .. m : x.at < w[k].at
  <2>1. \A k \in 1 .. m : k \in 1 .. c <=> w[k].at <= x.at
    BY <1>1, <1>4
  <2> HIDE DEF c
  <2> QED
    BY <1>1, <1>2, <1>4, <2>1
<1> HIDE DEF c, D
<1>6. /\ DOMAIN v = 1 .. m + 1
      /\ \A k \in 1 .. c : v[k] = w[k] /\ q[k] = p[k]
      /\ v[c + 1] = x /\ q[c + 1] = m + 1
      /\ \A k \in c + 2 .. m + 1 : v[k] = w[k - 1] /\ q[k] = p[k - 1]
  <2>1. \A k \in c + 2 .. m + 1 : k - 1 \in c + 1 .. m /\ (k - 1) + 1 = k
    BY <1>1, <1>4
  <2>2. \A k \in c + 2 .. m + 1 : v[k] = w[k - 1]
    BY <1>1, <1>3, <2>1 DEF InsertedAfter
  <2>3. \A k \in c + 2 .. m + 1 : q[k] = p[k - 1]
    BY <1>1, <1>4
  <2>4. (\A k \in 1 .. c : q[k] = p[k]) /\ q[c + 1] = m + 1
    BY <1>1, <1>4
  <2>5. DOMAIN v = 1 .. m + 1 /\ v[c + 1] = x /\ \A k \in 1 .. c : v[k] = w[k]
    BY <1>1, <1>3 DEF InsertedAfter
  <2> QED
    BY <2>2, <2>3, <2>4, <2>5
<1>7. \A k \in 1 .. m + 1 : k \in 1 .. c \/ k = c + 1 \/ k \in c + 2 .. m + 1
  BY <1>1, <1>4
<1>8. p \in [1 .. m -> 1 .. m]
  BY DEF Arranges
<1>9. q \in [1 .. m + 1 -> 1 .. m + 1]
  <2>1. q = [k \in 1 .. m + 1 |-> q[k]]
    OBVIOUS
  <2> HIDE DEF q
  <2>2. ASSUME NEW k \in 1 .. m + 1
        PROVE  q[k] \in 1 .. m + 1
    <3>1. CASE k \in 1 .. c
      BY <1>1, <1>4, <1>6, <1>8, <3>1
    <3>2. CASE k = c + 1
      BY <1>1, <1>6, <3>2
    <3>3. CASE k \in c + 2 .. m + 1
      <4>1. k - 1 \in 1 .. m /\ p[k - 1] \in 1 .. m
        BY <1>1, <1>4, <1>8, <3>3
      <4> QED
        BY <1>1, <1>6, <3>3, <4>1
    <3> QED
      BY <1>7, <3>1, <3>2, <3>3
  <2> QED
    BY <2>1, <2>2
<1> HIDE DEF q
<1>10. ASSUME NEW k \in 1 .. m + 1
       PROVE  v[k] = s[q[k]]
  <2>1. CASE k \in 1 .. c
    <3>1. k \in 1 .. m
      BY <1>1, <1>4, <2>1
    <3>2. w[k] = s[p[k]]
      BY <3>1 DEF Arranges
    <3> QED
      BY <1>6, <2>1, <3>2
  <2>2. CASE k = c + 1
    BY <1>6, <2>2 DEF x
  <2>3. CASE k \in c + 2 .. m + 1
    <3>1. k - 1 \in 1 .. m
      BY <1>1, <1>4, <2>3
    <3>2. w[k - 1] = s[p[k - 1]]
      BY <3>1 DEF Arranges
    <3> QED
      BY <1>6, <2>3, <3>2
  <2> QED
    BY <1>7, <2>1, <2>2, <2>3
<1>11. ASSUME NEW i \in 1 .. m + 1
       PROVE  \E k \in 1 .. m + 1 : q[k] = i
  <2>1. CASE i = m + 1
    <3>1. c + 1 \in 1 .. m + 1
      BY <1>1, <1>4
    <3> QED
      BY <1>6, <2>1, <3>1
  <2>2. CASE i \in 1 .. m
    <3>1. PICK k \in 1 .. m : p[k] = i
      BY <2>2 DEF Arranges
    <3>2. CASE k <= c
      <4>1. k \in 1 .. c /\ k \in 1 .. m + 1
        BY <1>1, <1>4, <3>2
      <4> QED
        BY <1>6, <3>1, <4>1
    <3>3. CASE k > c
      <4>1. k + 1 \in c + 2 .. m + 1 /\ k + 1 \in 1 .. m + 1 /\ (k + 1) - 1 = k
        BY <1>1, <1>4, <3>3
      <4>2. q[k + 1] = p[(k + 1) - 1]
        BY <1>6, <4>1
      <4> QED
        BY <3>1, <4>1, <4>2
    <3> QED
      BY <1>1, <1>4, <3>2, <3>3
  <2> QED
    BY <1>1, <2>1, <2>2
<1>12. ASSUME NEW j \in 1 .. m + 1, NEW k \in 1 .. m + 1, j < k
       PROVE  v[j].at < v[k].at \/ (v[j].at = v[k].at /\ q[j] < q[k])
  <2>0. \A a, b \in 1 .. m : a < b =>
          w[a].at < w[b].at \/ (w[a].at = w[b].at /\ p[a] < p[b])
    BY DEF Arranges
  <2>1. CASE j \in 1 .. c /\ k \in 1 .. c
    <3>1. j \in 1 .. m /\ k \in 1 .. m
      BY <1>1, <1>4, <2>1
    <3>2. w[j].at < w[k].at \/ (w[j].at = w[k].at /\ p[j] < p[k])
      BY <1>12, <2>0, <3>1
    <3> QED
      BY <1>6, <2>1, <3>2
  <2>2. CASE j \in 1 .. c /\ k = c + 1
    <3>1. j \in 1 .. m /\ p[j] < m + 1
      BY <1>1, <1>4, <1>8, <2>2
    <3>2. w[j].at <= x.at /\ w[j].at \in Int
      BY <1>2, <1>5, <2>2, <3>1
    <3> QED
      BY <1>2, <1>6, <2>2, <3>1, <3>2
  <2>3. CASE j \in 1 .. c /\ k \in c + 2 .. m + 1
    <3>1. j \in 1 .. m /\ k - 1 \in 1 .. m /\ j < k - 1
      BY <1>1, <1>4, <2>3
    <3>2. w[j].at < w[k - 1].at \/ (w[j].at = w[k - 1].at /\ p[j] < p[k - 1])
      BY <2>0, <3>1
    <3> QED
      BY <1>6, <2>3, <3>2
  <2>4. CASE j = c + 1 /\ k \in c + 2 .. m + 1
    <3>1. k - 1 \in c + 1 .. m
      BY <1>1, <1>4, <2>4
    <3>2. x.at < w[k - 1].at
      BY <1>5, <3>1
    <3> QED
      BY <1>6, <2>4, <3>2
  <2>5. CASE j \in c + 2 .. m + 1 /\ k \in c + 2 .. m + 1
    <3>1. j - 1 \in 1 .. m /\ k - 1 \in 1 .. m /\ j - 1 < k - 1
      BY <1>1, <1>4, <1>12, <2>5
    <3>2. w[j - 1].at < w[k - 1].at \/ (w[j - 1].at = w[k - 1].at /\ p[j - 1] < p[k - 1])
      BY <2>0, <3>1
    <3> QED
      BY <1>6, <2>5, <3>2
  <2>6. \/ j \in 1 .. c /\ (k \in 1 .. c \/ k = c + 1 \/ k \in c + 2 .. m + 1)
        \/ j = c + 1 /\ k \in c + 2 .. m + 1
        \/ j \in c + 2 .. m + 1 /\ k \in c + 2 .. m + 1
    BY <1>1, <1>4, <1>12
  <2> QED
    BY <2>1, <2>2, <2>3, <2>4, <2>5, <2>6
<1>13. Arranges(q, v, m + 1, s)
  BY <1>6, <1>9, <1>10, <1>11, <1>12 DEF Arranges
<1> QED
  BY <1>13 DEF v, x

LEMMA SortedInSteps ==
  ASSUME NEW T, NEW s \in Seq(T)
  PROVE  \E h : SortedSteps(h, s, T) /\ StableByTime(s) = h[Len(s)]
<1> DEFINE n == Len(s)
           op(w, k) == Inserted(w, s[k])
           base == <<>>
           step == [p \in (1 .. n) \X Seq(T) |-> op(p[2], p[1])]
           Sorts(g) == g = [k \in 0 .. Len(s) |->
                        IF k = 0 THEN <<>> ELSE Inserted(g[k - 1], s[k])]
           sorted == CHOOSE g : Sorts(g)
<1>1. n \in Nat /\ base \in Seq(T)
  OBVIOUS
<1>2. StableByTime(s) = sorted[Len(s)]
  BY DEF StableByTime
<1>3. \A w \in Seq(T), k \in 1 .. n : op(w, k) \in Seq(T)
  <2>1. ASSUME NEW w \in Seq(T), NEW k \in 1 .. n
        PROVE  Inserted(w, s[k]) \in Seq(T)
    <3>1. s[k] \in T
      OBVIOUS
    <3> QED
      BY <3>1, InsertedSomewhere
  <2> QED
    BY <2>1
<1>4. step \in [(1 .. n) \X Seq(T) -> Seq(T)]
  <2> HIDE DEF op
  <2> QED
    BY <1>3
<1>5. \A k \in 1 .. n, w \in Seq(T) : step[<<k, w>>] = op(w, k)
  OBVIOUS
<1> HIDE DEF step, base
<1>6. PICK h, value : FoldSteps(h, n, Seq(T), base, step, value)
  <2> HIDE DEF n
  <2> QED
    BY <1>1, <1>4, StepsExist
<1>7. h \in [0 .. n -> Seq(T)] /\ h[0] = <<>>
  BY <1>6 DEF FoldSteps, base
<1>8. ASSUME NEW k \in 1 .. n
      PROVE  h[k] = op(h[k - 1], k)
  <2>1. h[k - 1] \in Seq(T)
    BY <1>1, <1>7
  <2> QED
    BY <1>5, <1>6, <2>1 DEF FoldSteps
<1>9. Sorts(h)
  <2>1. \A k \in 0 .. n : k # 0 => k \in 1 .. n
    BY <1>1
  <2> QED
    BY <1>7, <1>8, <2>1
<1>10. Sorts(sorted)
  <2> HIDE DEF Sorts
  <2> QED
    BY <1>9
<1> HIDE DEF sorted
<1>11. \A k \in 0 .. n : sorted[k] = IF k = 0 THEN <<>> ELSE op(sorted[k - 1], k)
  BY <1>10
<1>12. StepRun(sorted, n, Seq(T), base, step)
  <2>1. sorted[0] = base
    BY <1>1, <1>11 DEF base
  <2>2. \A k \in 1 .. n : k \in 0 .. n /\ k # 0
    BY <1>1
  <2> HIDE DEF op
  <2> QED
    BY <1>5, <1>11, <2>1, <2>2 DEF StepRun
<1>13. PICK f : FoldSteps(f, n, Seq(T), base, step, sorted[n])
  <2> HIDE DEF n
  <2> QED
    BY <1>1, <1>4, <1>12, StepsAdvance
<1>14. f \in [0 .. n -> Seq(T)] /\ f[0] = <<>> /\ f[n] = sorted[n]
  BY <1>13 DEF FoldSteps, base
<1>15. ASSUME NEW k \in 1 .. n
      PROVE  f[k] = op(f[k - 1], k)
  <2>1. f[k - 1] \in Seq(T)
    BY <1>1, <1>14
  <2> QED
    BY <1>5, <1>13, <2>1 DEF FoldSteps
<1>16. SortedSteps(f, s, T)
  BY <1>14, <1>15 DEF SortedSteps
<1> QED
  BY <1>2, <1>14, <1>16

LEMMA StableByTimeArranges ==
  ASSUME NEW T, Timed(T), NEW s \in Seq(T)
  PROVE  StableByTime(s) \in Seq(T) /\ \E p : Arranges(p, StableByTime(s), Len(s), s)
<1>1. PICK h : SortedSteps(h, s, T) /\ StableByTime(s) = h[Len(s)]
  BY SortedInSteps
<1> DEFINE Good == {m \in 0 .. Len(s) : \E p : Arranges(p, h[m], m, s)}
<1>2. Len(s) \in Nat
  OBVIOUS
<1>3. 0 \in Good
  <2> DEFINE none == [k \in 1 .. 0 |-> 0]
  <2>1. h[0] = <<>> /\ DOMAIN h[0] = 1 .. 0
    BY <1>1 DEF SortedSteps
  <2>2. none \in [1 .. 0 -> 1 .. 0]
    OBVIOUS
  <2> HIDE DEF none
  <2>3. Arranges(none, h[0], 0, s)
    BY <2>1, <2>2 DEF Arranges
  <2> QED
    BY <1>2, <2>3
<1>4. ASSUME NEW m \in 0 .. Len(s) - 1, m \in Good
      PROVE  m + 1 \in Good
  <2>1. PICK p : Arranges(p, h[m], m, s)
    BY <1>4
  <2>2. m + 1 \in 1 .. Len(s) /\ (m + 1) - 1 = m /\ m \in 0 .. Len(s) /\ m + 1 \in 0 .. Len(s)
    BY <1>2
  <2>3. h[m] \in Seq(T) /\ h[m + 1] = Inserted(h[m], s[m + 1])
    BY <1>1, <2>2 DEF SortedSteps
  <2>4. \E q : Arranges(q, h[m + 1], m + 1, s)
    BY <2>1, <2>3, ArrangesOneMore
  <2> QED
    BY <2>2, <2>4
<1> HIDE DEF Good
<1>5. Len(s) \in Good
  BY <1>2, <1>3, <1>4, UpTo
<1>6. h[Len(s)] \in Seq(T)
  BY <1>1, <1>2 DEF SortedSteps
<1> QED
  BY <1>1, <1>5, <1>6 DEF Good

-----------------------------------------------------------------------------
(* What the effective log holds.                                           *)

Kinds == WorkKinds \union {"correction", "none"}
Entry == [kind : WorkKinds \union {"correction"}, at : Nat, paid : BOOLEAN, to : Kinds,
          corrects : Nat, void : BOOLEAN, req : Requests \union Corrections \union {"live"}]
Read == [id : Nat, kind : Kinds, at : Nat, paid : BOOLEAN]

\* A correction refers to an event before it that is not a correction.
IsLog(l) ==
  /\ l \in Seq(Entry)
  /\ \A i \in DOMAIN l : /\ l[i].kind = "correction" <=> l[i].corrects > 0
                         /\ l[i].corrects < i
                         /\ l[i].corrects > 0 => l[l[i].corrects].kind # "correction"

\* The events of a log, each once.
AreReads(l, s) ==
  /\ s \in Seq(Read)
  /\ \A k \in DOMAIN s : s[k].id \in DOMAIN l /\ l[s[k].id].kind # "correction"
  /\ \A j, k \in DOMAIN s : s[j].id = s[k].id => j = k
  /\ \A k \in DOMAIN s : s[k].paid = l[s[k].id].paid

\* An event as correction c makes it.
AsCorrected(l, c) ==
  [id |-> l[c].corrects, kind |-> l[c].to, at |-> l[c].at, paid |-> l[l[c].corrects].paid]

\* w is what correction c makes of s.
Applied(l, s, c, w) ==
  /\ \A k \in DOMAIN w : \/ w[k].id = l[c].corrects /\ ~l[c].void /\ w[k] = AsCorrected(l, c)
                         \/ w[k].id # l[c].corrects /\ \E j \in DOMAIN s : s[j] = w[k]
  /\ \A j \in DOMAIN s : s[j].id # l[c].corrects => \E k \in DOMAIN w : w[k] = s[j]
  /\ ~l[c].void => \E k \in DOMAIN w : w[k] = AsCorrected(l, c)

\* The events of s that are in w have the order they have in s, and one that
\* is not in s is the last.
KeepsOrder(s, w) ==
  /\ \A i, j \in DOMAIN s, m, n \in DOMAIN w :
       (s[i].id = w[m].id /\ s[j].id = w[n].id /\ i < j) => m < n
  /\ \A m \in DOMAIN w : (\A i \in DOMAIN s : s[i].id # w[m].id) => \A n \in DOMAIN w : n <= m

\* What Only keeps of the events of a log are events of it.
LEMMA OnlyOfReads ==
  ASSUME NEW l, NEW s, AreReads(l, s), NEW S
  PROVE  /\ AreReads(l, Only(s, S))
         /\ \A k \in DOMAIN Only(s, S) : \E j \in DOMAIN s : j \in S /\ s[j] = Only(s, S)[k]
         /\ \A j \in DOMAIN s : j \in S => \E k \in DOMAIN Only(s, S) : Only(s, S)[k] = s[j]
<1> DEFINE w == Only(s, S)
<1>1. s \in Seq(Read) /\ DOMAIN s = 1 .. Len(s)
  BY DEF AreReads
<1>2. w \in Seq(Read) /\ \E e : Picks(e, w, Len(s), s, S)
  BY <1>1, OnlyKeepsOrder
<1> HIDE DEF w
<1>3. PICK e : Picks(e, w, Len(s), s, S)
  BY <1>2
<1>4. \A k \in DOMAIN w : e[k] \in DOMAIN s /\ w[k] = s[e[k]] /\ e[k] \in S
  BY <1>1, <1>3 DEF Picks
<1>5. \A j \in DOMAIN s : j \in S => \E k \in DOMAIN w : e[k] = j
  BY <1>1, <1>3 DEF Picks
<1>6. ASSUME NEW j \in DOMAIN w, NEW k \in DOMAIN w, w[j].id = w[k].id
      PROVE  j = k
  <2>1. e[j] = e[k]
    BY <1>4, <1>6 DEF AreReads
  <2>2. e[j] \in Int /\ e[k] \in Int /\ j \in Int /\ k \in Int
    BY <1>1, <1>2, <1>4
  <2>3. (j < k => e[j] < e[k]) /\ (k < j => e[k] < e[j])
    BY <1>3 DEF Picks
  <2> QED
    BY <2>1, <2>2, <2>3
<1>7. AreReads(l, w)
  BY <1>2, <1>4, <1>6 DEF AreReads
<1>8. \A j \in DOMAIN s : j \in S => \E k \in DOMAIN w : w[k] = s[j]
  BY <1>4, <1>5
<1> QED
  BY <1>4, <1>7, <1>8 DEF w

\* So are they in another order.
LEMMA SortedReads ==
  ASSUME NEW l, NEW s, AreReads(l, s)
  PROVE  /\ AreReads(l, StableByTime(s))
         /\ \A k \in DOMAIN StableByTime(s) : \E j \in DOMAIN s : s[j] = StableByTime(s)[k]
         /\ \A j \in DOMAIN s : \E k \in DOMAIN StableByTime(s) : StableByTime(s)[k] = s[j]
         /\ ByTime(StableByTime(s))
<1> DEFINE w == StableByTime(s)
<1>1. s \in Seq(Read) /\ DOMAIN s = 1 .. Len(s)
  BY DEF AreReads
<1>2. Timed(Read)
  BY DEF Timed, Read
<1>3. w \in Seq(Read) /\ \E p : Arranges(p, w, Len(s), s)
  BY <1>1, <1>2, StableByTimeArranges
<1> HIDE DEF w
<1>4. PICK p : Arranges(p, w, Len(s), s)
  BY <1>3
<1>5. \A k \in DOMAIN w : p[k] \in DOMAIN s /\ w[k] = s[p[k]]
  BY <1>1, <1>4 DEF Arranges
<1>6. \A j \in DOMAIN s : \E k \in DOMAIN w : p[k] = j
  BY <1>1, <1>4 DEF Arranges
<1>7. DOMAIN w = 1 .. Len(s) /\ Len(s) \in Nat
  BY <1>1, <1>4 DEF Arranges
<1>8. \A j, k \in DOMAIN w : j < k => w[j].at < w[k].at \/ (w[j].at = w[k].at /\ p[j] < p[k])
  BY <1>4, <1>7 DEF Arranges
<1>9. ASSUME NEW j \in DOMAIN w, NEW k \in DOMAIN w, w[j].id = w[k].id
      PROVE  j = k
  <2>1. p[j] = p[k]
    BY <1>5, <1>9 DEF AreReads
  <2>2. w[j] = w[k]
    BY <1>5, <2>1
  <2>3. p[j] \in Int /\ j \in Int /\ k \in Int
    BY <1>1, <1>5, <1>7
  <2>4. w[j] \in Read
    BY <1>3
  <2>5. w[j].at \in Int
    BY <2>4 DEF Read
  <2> QED
    BY <1>8, <2>1, <2>2, <2>3, <2>5
<1>10. ByTime(w)
  <2>0. \A k \in DOMAIN w : w[k] \in Read
    BY <1>3
  <2>1. \A k \in DOMAIN w : w[k].at \in Int
    BY <2>0 DEF Read
  <2>2. \A j, k \in DOMAIN w : j < k => w[j].at < w[k].at \/ w[j].at = w[k].at
    BY <1>8
  <2> QED
    BY <2>1, <2>2 DEF ByTime
<1>11. AreReads(l, w)
  <2>1. \A k \in DOMAIN w : /\ w[k].id \in DOMAIN l /\ l[w[k].id].kind # "correction"
                           /\ w[k].paid = l[w[k].id].paid
    BY <1>5 DEF AreReads
  <2> QED
    BY <1>3, <1>9, <2>1 DEF AreReads
<1>12. \A j \in DOMAIN s : \E k \in DOMAIN w : w[k] = s[j]
  BY <1>5, <1>6
<1> QED
  BY <1>5, <1>10, <1>11, <1>12 DEF w

\* An event with another kind and time.
LEMMA OtherKindAndTime ==
  ASSUME NEW x \in Read, NEW k, NEW t
  PROVE  [x EXCEPT !.kind = k, !.at = t] = [id |-> x.id, kind |-> k, at |-> t, paid |-> x.paid]
<1> DEFINE y == [x EXCEPT !.kind = k]
<1>1. x = [id |-> x.id, kind |-> x.kind, at |-> x.at, paid |-> x.paid]
  BY DEF Read
<1>2. y = [id |-> x.id, kind |-> k, at |-> x.at, paid |-> x.paid]
  BY <1>1
<1> HIDE DEF y
<1>3. [y EXCEPT !.at = t] = [id |-> x.id, kind |-> k, at |-> t, paid |-> x.paid]
  BY <1>2
<1> QED
  BY <1>3 DEF y

LEMMA CorrectionApplied ==
  ASSUME NEW l, IsLog(l), NEW s, AreReads(l, s), NEW c \in DOMAIN l, l[c].kind = "correction"
  PROVE  /\ AreReads(l, ApplyCorrection(l, s, c))
         /\ Applied(l, s, c, ApplyCorrection(l, s, c))
         /\ KeepsOrder(s, ApplyCorrection(l, s, c))
<1> DEFINE t == l[c].corrects
           present == \E k \in 1 .. Len(s) : s[k].id = t
           read == IF present THEN s ELSE Append(s, AsRead(l, t))
           moved == [k \in 1 .. Len(read) |->
                       IF read[k].id = t THEN [read[k] EXCEPT !.kind = l[c].to, !.at = l[c].at]
                       ELSE read[k]]
           w == ApplyCorrection(l, s, c)
<1>1. /\ l \in Seq(Entry) /\ l[c] \in Entry /\ t \in DOMAIN l /\ l[t] \in Entry
      /\ l[t].kind # "correction"
  <2>1. l \in Seq(Entry) /\ l[c] \in Entry /\ c \in 1 .. Len(l) /\ t > 0 /\ t < c
        /\ l[t].kind # "correction"
    BY DEF IsLog
  <2>2. t \in Nat
    BY <2>1 DEF Entry
  <2>3. t \in DOMAIN l
    BY <2>1, <2>2
  <2> QED
    BY <2>1, <2>3
<1>2. AsRead(l, t) \in Read /\ AsRead(l, t).id = t /\ AsRead(l, t).paid = l[t].paid
  <2>1. t \in Nat
    BY <1>1
  <2> QED
    BY <1>1, <2>1 DEF AsRead, Read, Entry, Kinds
<1>3. w = IF l[c].void THEN Only(read, {k \in DOMAIN read : read[k].id # t}) ELSE moved
  BY Zenon DEF ApplyCorrection
<1>4. s \in Seq(Read) /\ DOMAIN s = 1 .. Len(s) /\ Len(s) \in Nat
  BY DEF AreReads
<1>5. /\ AreReads(l, read)
      /\ \E k \in DOMAIN read : read[k].id = t
      /\ \A k \in DOMAIN read : read[k].id = t \/ \E j \in DOMAIN s : s[j] = read[k]
      /\ \A j \in DOMAIN s : \E k \in DOMAIN read : read[k] = s[j]
      /\ \A j \in DOMAIN s : j \in DOMAIN read /\ read[j] = s[j]
      /\ \A k \in DOMAIN read : k \in DOMAIN s \/ k = Len(s) + 1
  <2>1. CASE present
    BY <1>4, <2>1
  <2>2. CASE ~present
    <3> DEFINE x == AsRead(l, t)
               a == Append(s, x)
    <3>1. read = a
      BY <2>2
    <3> HIDE DEF x, present
    <3>2. a \in Seq(Read) /\ DOMAIN a = 1 .. Len(s) + 1
          /\ (\A k \in 1 .. Len(s) : a[k] = s[k]) /\ a[Len(s) + 1] = x
      BY <1>2, <1>4 DEF x
    <3> HIDE DEF read
    <3> HIDE DEF a
    <3>3. \A k \in DOMAIN a : k \in DOMAIN s \/ k = Len(s) + 1
      BY <1>4, <3>2
    <3>4. x.id = t /\ x.paid = l[t].paid
      BY <1>2 DEF x
    <3>5. \A k \in DOMAIN s : s[k].id # t
      BY <1>4, <2>2 DEF present
    <3>6. \A k \in DOMAIN a : a[k].id \in DOMAIN l /\ l[a[k].id].kind # "correction"
                              /\ a[k].paid = l[a[k].id].paid
      BY <1>1, <1>4, <3>2, <3>3, <3>4 DEF AreReads
    <3>7. \A j, k \in DOMAIN a : a[j].id = a[k].id => j = k
      BY <1>4, <3>2, <3>3, <3>4, <3>5 DEF AreReads
    <3>8. AreReads(l, a)
      BY <3>2, <3>6, <3>7 DEF AreReads
    <3>9. \E k \in DOMAIN a : a[k].id = t
      <4>1. Len(s) + 1 \in DOMAIN a
        BY <1>4, <3>2
      <4> QED
        BY <3>2, <3>4, <4>1
    <3>10. \A k \in DOMAIN a : a[k].id = t \/ \E j \in DOMAIN s : s[j] = a[k]
      BY <1>4, <3>2, <3>3, <3>4
    <3>11. \A j \in DOMAIN s : j \in DOMAIN a /\ a[j] = s[j]
      BY <1>4, <3>2
    <3> QED
      BY <3>1, <3>3, <3>8, <3>9, <3>10, <3>11
  <2> QED
    BY <2>1, <2>2
<1> HIDE DEF read
<1>6. read \in Seq(Read) /\ DOMAIN read = 1 .. Len(read)
  BY <1>5 DEF AreReads
<1>7. CASE l[c].void
  <2> DEFINE S == {k \in DOMAIN read : read[k].id # t}
  <2>1. w = Only(read, S)
    BY <1>3, <1>7
  <2>2. /\ AreReads(l, Only(read, S))
        /\ \A k \in DOMAIN Only(read, S) : \E j \in DOMAIN read : j \in S /\ read[j] = Only(read, S)[k]
        /\ \A j \in DOMAIN read : j \in S => \E k \in DOMAIN Only(read, S) : Only(read, S)[k] = read[j]
    <3> HIDE DEF S
    <3> QED
      BY <1>5, OnlyOfReads
  <2>0. \A i \in DOMAIN read : read[i].id # t => i \in S
    OBVIOUS
  <2>9. \A i \in S : i \in DOMAIN read /\ read[i].id # t
    OBVIOUS
  <2> HIDE DEF w, S
  <2>3. \A k \in DOMAIN w : w[k].id # t /\ \E j \in DOMAIN s : s[j] = w[k]
    BY <1>5, <2>1, <2>2, <2>9
  <2>4. \A j \in DOMAIN s : s[j].id # t => \E k \in DOMAIN w : w[k] = s[j]
    <3>1. ASSUME NEW j \in DOMAIN s, s[j].id # t
          PROVE  \E k \in DOMAIN w : w[k] = s[j]
      <4>1. PICK i \in DOMAIN read : read[i] = s[j]
        BY <1>5
      <4>2. i \in S
        BY <2>0, <3>1, <4>1
      <4> QED
        BY <2>1, <2>2, <4>1, <4>2
    <3> QED
      BY <3>1
  <2>5. Applied(l, s, c, w)
    BY <1>7, <2>3, <2>4 DEF Applied
  <2>6. PICK e : Picks(e, w, Len(read), read, S)
    BY <1>6, <2>1, OnlyKeepsOrder
  <2>7. ASSUME NEW i \in DOMAIN s, NEW m \in DOMAIN w, s[i].id = w[m].id
        PROVE  e[m] = i /\ m \in Int /\ i \in Int
    <3>1. i \in DOMAIN read /\ read[i] = s[i]
      BY <1>5
    <3>2. e[m] \in DOMAIN read /\ w[m] = read[e[m]]
      BY <1>6, <2>6 DEF Picks
    <3>3. w \in Seq(Read)
      BY <2>1, <2>2 DEF AreReads
    <3> QED
      BY <1>4, <1>5, <2>7, <3>1, <3>2, <3>3 DEF AreReads
  <2>8. ASSUME NEW i \in DOMAIN s, NEW j \in DOMAIN s, NEW m \in DOMAIN w, NEW n \in DOMAIN w,
               s[i].id = w[m].id, s[j].id = w[n].id, i < j
        PROVE  m < n
    <3>1. e[m] = i /\ e[n] = j /\ m \in Int /\ n \in Int /\ i \in Int /\ j \in Int
      BY <2>7, <2>8
    <3>2. n < m => e[n] < e[m]
      BY <2>6 DEF Picks
    <3> QED
      BY <2>8, <3>1, <3>2
  <2>10. \A m \in DOMAIN w : \E i \in DOMAIN s : s[i].id = w[m].id
    BY <2>3
  <2>11. KeepsOrder(s, w)
    BY <2>8, <2>10 DEF KeepsOrder
  <2> QED
    BY <2>1, <2>2, <2>5, <2>11 DEF w
<1>8. CASE ~l[c].void
  <2>1. w = moved
    BY <1>3, <1>8
  <2>2. \A k \in DOMAIN read : read[k] \in Read /\ read[k].id # t => moved[k] = read[k]
    BY <1>6
  <2>3. ASSUME NEW k \in DOMAIN read, read[k].id = t
        PROVE  moved[k] = AsCorrected(l, c)
    <3>1. read[k] \in Read /\ read[k].paid = l[t].paid
      BY <1>5, <1>6, <2>3 DEF AreReads
    <3>2. moved[k] = [read[k] EXCEPT !.kind = l[c].to, !.at = l[c].at]
      BY <1>6, <2>3
    <3> HIDE DEF moved
    <3>3. moved[k] = [id |-> read[k].id, kind |-> l[c].to, at |-> l[c].at, paid |-> read[k].paid]
      BY <3>1, <3>2, OtherKindAndTime
    <3> QED
      BY <2>3, <3>1, <3>3 DEF AsCorrected
  <2>4. AsCorrected(l, c) \in Read /\ AsCorrected(l, c).id = t /\ AsCorrected(l, c).paid = l[t].paid
    <3>1. t \in Nat
      BY <1>1
    <3> QED
      BY <1>1, <3>1 DEF AsCorrected, Read, Entry
  <2>5. DOMAIN moved = DOMAIN read /\ DOMAIN read = 1 .. Len(read) /\ Len(read) \in Nat
    BY <1>6
  <2>6. moved = [k \in 1 .. Len(read) |-> moved[k]]
    OBVIOUS
  <2> HIDE DEF moved, w
  <2>7. \A k \in DOMAIN read : moved[k] \in Read /\ moved[k].id = read[k].id
    BY <1>6, <2>2, <2>3, <2>4
  <2>8. moved \in Seq(Read)
    BY <2>5, <2>6, <2>7
  <2>9. \A k \in DOMAIN moved : moved[k].paid = l[moved[k].id].paid
    BY <1>5, <1>6, <2>2, <2>3, <2>4, <2>5 DEF AreReads
  <2>10. AreReads(l, moved)
    BY <1>5, <2>5, <2>7, <2>8, <2>9 DEF AreReads
  <2>11. \A k \in DOMAIN moved : \/ moved[k].id = t /\ moved[k] = AsCorrected(l, c)
                                 \/ moved[k].id # t /\ \E j \in DOMAIN s : s[j] = moved[k]
    BY <1>5, <1>6, <2>2, <2>3, <2>5, <2>7
  <2>12. \A j \in DOMAIN s : s[j].id # t => \E k \in DOMAIN moved : moved[k] = s[j]
    BY <1>5, <1>6, <2>2, <2>5
  <2>13. \E k \in DOMAIN moved : moved[k] = AsCorrected(l, c)
    BY <1>5, <2>3, <2>5
  <2>14. Applied(l, s, c, moved)
    BY <1>8, <2>11, <2>12, <2>13 DEF Applied
  <2>15. ASSUME NEW i \in DOMAIN s, NEW m \in DOMAIN moved, s[i].id = moved[m].id
        PROVE  m = i
    <3>1. i \in DOMAIN read /\ read[i] = s[i] /\ m \in DOMAIN read /\ moved[m].id = read[m].id
      BY <1>5, <2>5, <2>7
    <3> QED
      BY <1>5, <2>15, <3>1 DEF AreReads
  <2>16. ASSUME NEW m \in DOMAIN moved, \A i \in DOMAIN s : s[i].id # moved[m].id,
                NEW n \in DOMAIN moved
         PROVE  n <= m
    <3>1. m \in DOMAIN read /\ n \in DOMAIN read /\ moved[m].id = read[m].id
      BY <2>5, <2>7
    <3>2. m = Len(s) + 1
      BY <1>5, <2>16, <3>1
    <3>3. n \in DOMAIN s \/ n = Len(s) + 1
      BY <1>5, <3>1
    <3> QED
      BY <1>4, <3>2, <3>3
  <2>17. KeepsOrder(s, moved)
    BY <2>15, <2>16 DEF KeepsOrder
  <2> QED
    BY <2>1, <2>10, <2>14, <2>17 DEF w
<1> QED
  BY <1>7, <1>8

-----------------------------------------------------------------------------
(* The effective events: each as its last correction leaves it.            *)

\* The corrections are read in the order in which they were made, each once.
LEMMA CorrectionsAreRead ==
  ASSUME NEW l, IsLog(l), NEW until, NEW cs, cs = correctionsRead(l, until)
  PROVE  /\ cs \in Seq(Nat)
         /\ \A k \in DOMAIN cs : cs[k] \in InQuery(l, until) /\ l[cs[k]].kind = "correction"
         /\ \A j, k \in DOMAIN cs : j < k => cs[j] < cs[k]
         /\ \A i \in InQuery(l, until) : l[i].kind = "correction" => \E k \in DOMAIN cs : cs[k] = i
<1> DEFINE S == InQuery(l, until) \ RegularRead(l, until)
<1>1. l \in Seq(Entry) /\ DOMAIN l = 1 .. Len(l) /\ Len(l) \in Nat
  BY DEF IsLog
<1>2. Indices(l) \in Seq(Nat) /\ Len(Indices(l)) = Len(l) /\ \A i \in 1 .. Len(l) : Indices(l)[i] = i
  BY <1>1 DEF Indices
<1>3. cs = Only(Indices(l), S)
  BY Zenon DEF correctionsRead
<1>4. \A i : i \in S <=> (i \in InQuery(l, until) /\ l[i].kind = "correction")
  BY DEF RegularRead
<1> HIDE DEF S
<1>5. cs \in Seq(Nat) /\ \E e : Picks(e, cs, Len(Indices(l)), Indices(l), S)
  BY <1>2, <1>3, OnlyKeepsOrder
<1>6. PICK e : Picks(e, cs, Len(l), Indices(l), S)
  BY <1>2, <1>5
<1>7. \A k \in DOMAIN cs : cs[k] = e[k] /\ e[k] \in S
  BY <1>1, <1>2, <1>6 DEF Picks
<1>8. \A j, k \in DOMAIN cs : j < k => cs[j] < cs[k]
  BY <1>6, <1>7 DEF Picks
<1>9. \A i \in S : i \in 1 .. Len(l)
  BY <1>1, <1>4 DEF InQuery
<1>10. \A i \in S : \E k \in DOMAIN cs : cs[k] = i
  BY <1>6, <1>7, <1>9 DEF Picks
<1> QED
  BY <1>4, <1>5, <1>7, <1>8, <1>10

\* The events are read as they are in the log, each once.
LEMMA EventsAreRead ==
  ASSUME NEW l, IsLog(l), NEW until, NEW s, s = eventsRead(l, until)
  PROVE  /\ AreReads(l, s)
         /\ \A k \in DOMAIN s : s[k].id \in RegularRead(l, until) /\ s[k] = AsRead(l, s[k].id)
         /\ \A i \in RegularRead(l, until) : \E k \in DOMAIN s : s[k] = AsRead(l, i)
<1> DEFINE S == RegularRead(l, until)
           all == [i \in DOMAIN l |-> AsRead(l, i)]
           w == Only(all, S)
<1>1. l \in Seq(Entry) /\ DOMAIN l = 1 .. Len(l) /\ Len(l) \in Nat
  BY DEF IsLog
<1>2. \A i \in 1 .. Len(l) : AsRead(l, i) \in Read /\ AsRead(l, i).id = i
                             /\ AsRead(l, i).paid = l[i].paid
  <2>1. \A i \in 1 .. Len(l) : i \in Nat /\ l[i] \in Entry
    BY <1>1
  <2> QED
    BY <2>1 DEF AsRead, Read, Entry, Kinds
<1>3. all \in Seq(Read) /\ Len(all) = Len(l) /\ \A i \in 1 .. Len(l) : all[i] = AsRead(l, i)
  BY <1>1, <1>2
<1>4. s = StableByTime(w)
  BY Zenon DEF eventsRead
<1>5. \A i \in S : i \in 1 .. Len(l) /\ l[i].kind # "correction"
  BY <1>1 DEF RegularRead, InQuery
<1> HIDE DEF all, S
<1>6. w \in Seq(Read) /\ \E e : Picks(e, w, Len(all), all, S)
  BY <1>3, OnlyKeepsOrder
<1> HIDE DEF w
<1>7. PICK e : Picks(e, w, Len(l), all, S)
  BY <1>3, <1>6
<1>8. \A k \in DOMAIN w : w[k] = AsRead(l, e[k]) /\ e[k] \in S /\ w[k].id = e[k]
  BY <1>2, <1>3, <1>5, <1>7 DEF Picks
<1>9. \A i \in S : \E k \in DOMAIN w : w[k] = AsRead(l, i)
  BY <1>5, <1>7, <1>8 DEF Picks
<1>10. \A j, k \in DOMAIN w : w[j].id = w[k].id => j = k
  <2>1. \A j, k \in DOMAIN w : j < k => e[j] < e[k]
    BY <1>7 DEF Picks
  <2>2. \A k \in DOMAIN w : k \in Int /\ e[k] \in Int
    BY <1>1, <1>5, <1>6, <1>8
  <2>3. ASSUME NEW j \in DOMAIN w, NEW k \in DOMAIN w, w[j].id = w[k].id
        PROVE  j = k
    <3>1. e[j] = e[k] /\ e[j] \in Int /\ j \in Int /\ k \in Int
      BY <1>8, <2>2, <2>3
    <3>2. (j < k => e[j] < e[k]) /\ (k < j => e[k] < e[j])
      BY <2>1
    <3> QED
      BY <3>1, <3>2
  <2> QED
    BY <2>3
<1>11. \A k \in DOMAIN w : /\ w[k].id \in DOMAIN l /\ l[w[k].id].kind # "correction"
                           /\ w[k].paid = l[w[k].id].paid
  BY <1>1, <1>2, <1>5, <1>8
<1>12. AreReads(l, w)
  BY <1>6, <1>10, <1>11 DEF AreReads
<1>13. /\ AreReads(l, s)
       /\ \A k \in DOMAIN s : \E j \in DOMAIN w : w[j] = s[k]
       /\ \A j \in DOMAIN w : \E k \in DOMAIN s : s[k] = w[j]
  BY <1>4, <1>12, SortedReads
<1>14. \A k \in DOMAIN w : w[k].id \in S /\ w[k] = AsRead(l, w[k].id)
  BY <1>8
<1>15. \A k \in DOMAIN s : s[k].id \in S /\ s[k] = AsRead(l, s[k].id)
  BY <1>13, <1>14
<1>16. \A i \in S : \E k \in DOMAIN s : s[k] = AsRead(l, i)
  BY <1>9, <1>13
<1> QED
  BY <1>13, <1>15, <1>16 DEF S

\* The corrections in cs, one after the other.
CorrectionSteps(h, l, s, cs) ==
  /\ DOMAIN h = 0 .. Len(cs)
  /\ h[0] = s
  /\ \A k \in 1 .. Len(cs) : h[k] = ApplyCorrection(l, h[k - 1], cs[k])

LEMMA EventsCorrectedInSteps ==
  ASSUME NEW l, IsLog(l), NEW until
  PROVE  \E h : /\ CorrectionSteps(h, l, eventsRead(l, until), correctionsRead(l, until))
                /\ eventsCorrected(l, until) = h[Len(correctionsRead(l, until))]
                /\ \A k \in 0 .. Len(correctionsRead(l, until)) : AreReads(l, h[k])
<1> DEFINE cs == correctionsRead(l, until)
           base == eventsRead(l, until)
           n == Len(cs)
           T == {s \in Seq(Read) : AreReads(l, s)}
           op(s, c) == ApplyCorrection(l, s, c)
           step == [p \in (1 .. n) \X T |-> op(p[2], cs[p[1]])]
           Fold(g) == g = [s \in SUBSET DOMAIN cs |->
                             IF s = {} THEN base
                             ELSE op(g[s \ {Max(s)}], cs[Max(s)])]
           iter == CHOOSE g : Fold(g)
           value == eventsCorrected(l, until)
<1>1. n \in Nat /\ DOMAIN cs = 1 .. n
  <2> DEFINE c == cs
  <2>1. cs \in Seq(Nat)
    <3> HIDE DEF cs
    <3>1. c = cs
      OBVIOUS
    <3> QED
      BY CorrectionsAreRead DEF cs
  <2> HIDE DEF cs
  <2> QED
    BY <2>1
<1>2. value = iter[1 .. n]
  <2>1. value = iter[DOMAIN cs]
    BY DEF eventsCorrected, FoldLeft, MapThenFoldSet
  <2> QED
    BY <1>1, <2>1
<1>3. base \in T
  <2>1. AreReads(l, base)
    BY EventsAreRead
  <2> HIDE DEF base
  <2> QED
    BY <2>1 DEF AreReads
<1>4. ASSUME NEW s \in T, NEW k \in 1 .. n
      PROVE  op(s, cs[k]) \in T
  <2>1. cs[k] \in DOMAIN l /\ l[cs[k]].kind = "correction"
    <3>1. \A j \in DOMAIN cs : cs[j] \in InQuery(l, until) /\ l[cs[j]].kind = "correction"
      BY CorrectionsAreRead
    <3> HIDE DEF cs
    <3> QED
      BY <1>1, <3>1 DEF InQuery
  <2>2. AreReads(l, op(s, cs[k]))
    <3> HIDE DEF cs
    <3> QED
      BY <2>1, CorrectionApplied
  <2> HIDE DEF op
  <2> QED
    BY <2>2 DEF AreReads
<1> HIDE DEF base, T, cs, value
<1>5. step \in [(1 .. n) \X T -> T]
  <2> HIDE DEF op
  <2> QED
    BY <1>4
<1>6. \A k \in 1 .. n, s \in T : step[<<k, s>>] = op(s, cs[k])
  OBVIOUS
<1> HIDE DEF step, n, op
<1>7. PICK g : FoldTable(g, n, T, base, step)
  BY <1>1, <1>3, <1>5, FoldIsDefined
<1>8. Fold(g)
  <2>1. ASSUME NEW s \in SUBSET (1 .. n)
        PROVE  g[s] = IF s = {} THEN base ELSE op(g[s \ {Max(s)}], cs[Max(s)])
    <3>1. s # {} => Max(s) \in 1 .. n /\ s \ {Max(s)} \in SUBSET (1 .. n)
      BY <1>1, MaxOfIndexes
    <3> QED
      BY <1>6, <1>7, <3>1 DEF FoldTable
  <2> QED
    BY <1>1, <1>7, <2>1 DEF FoldTable
<1>9. Fold(iter)
  <2> HIDE DEF Fold
  <2> QED
    BY <1>8
<1> HIDE DEF iter
<1>10. iter[{}] = base
  BY <1>9
<1>11. FoldRun(iter, n, T, base, step)
  BY <1>1, <1>6, <1>9, <1>10, MaxOfIndexes DEF FoldRun
<1>12. PICK h : FoldSteps(h, n, T, base, step, value)
  BY <1>1, <1>2, <1>3, <1>5, <1>11, FoldAdvances
<1>13. h \in [0 .. n -> T] /\ h[0] = base /\ h[n] = value
  BY <1>12 DEF FoldSteps
<1>14. ASSUME NEW k \in 1 .. n
       PROVE  h[k] = op(h[k - 1], cs[k])
  <2>1. h[k - 1] \in T
    BY <1>1, <1>13
  <2> QED
    BY <1>6, <1>12, <2>1 DEF FoldSteps
<1>15. \A k \in 0 .. n : AreReads(l, h[k])
  BY <1>13 DEF T
<1>16. CorrectionSteps(h, l, base, cs)
  <2>1. \A k \in 1 .. n : h[k] = ApplyCorrection(l, h[k - 1], cs[k])
    BY <1>14 DEF op
  <2> QED
    BY <1>13, <2>1 DEF CorrectionSteps, n
<1> QED
  BY <1>13, <1>15, <1>16 DEF base, cs, value, n

\* Of the first m corrections in cs, the one at j is the last of its event.
IsLast(l, cs, m, j) ==
  j \in 1 .. m /\ \A i \in j + 1 .. m : l[cs[i]].corrects # l[cs[j]].corrects
NoneOf(l, cs, m, e) == \A j \in 1 .. m : l[cs[j]].corrects # e

\* w is what the first m of them make of s.
Decided(l, s, cs, m, w) ==
  /\ \A k \in DOMAIN w :
       \/ NoneOf(l, cs, m, w[k].id) /\ \E j \in DOMAIN s : s[j] = w[k]
       \/ \E j \in 1 .. m : IsLast(l, cs, m, j) /\ ~l[cs[j]].void /\ w[k] = AsCorrected(l, cs[j])
  /\ \A k \in DOMAIN s : NoneOf(l, cs, m, s[k].id) => \E i \in DOMAIN w : w[i] = s[k]
  /\ \A j \in 1 .. m :
       (IsLast(l, cs, m, j) /\ ~l[cs[j]].void) => \E i \in DOMAIN w : w[i] = AsCorrected(l, cs[j])

LEMMA DecidedOneMore ==
  ASSUME NEW l, NEW s, NEW cs, NEW m \in Nat, NEW v, Decided(l, s, cs, m, v),
         NEW w, Applied(l, v, cs[m + 1], w)
  PROVE  Decided(l, s, cs, m + 1, w)
<1> DEFINE c == cs[m + 1]
<1>1. \A j : j \in 1 .. m + 1 <=> (j \in 1 .. m \/ j = m + 1)
  OBVIOUS
<1>2. \A x : AsCorrected(l, x).id = l[x].corrects
  BY DEF AsCorrected
<1>3. \A e : NoneOf(l, cs, m + 1, e) <=> (NoneOf(l, cs, m, e) /\ l[c].corrects # e)
  BY <1>1 DEF NoneOf
<1>4. IsLast(l, cs, m + 1, m + 1)
  BY DEF IsLast
<1>5. ASSUME NEW j \in 1 .. m
      PROVE  IsLast(l, cs, m + 1, j) <=> (IsLast(l, cs, m, j) /\ l[c].corrects # l[cs[j]].corrects)
  <2>1. \A i : i \in j + 1 .. m + 1 <=> (i \in j + 1 .. m \/ i = m + 1)
    OBVIOUS
  <2>2. j \in 1 .. m + 1
    OBVIOUS
  <2> QED
    BY <2>1, <2>2 DEF IsLast
<1> HIDE DEF c
<1>6. ASSUME NEW k \in DOMAIN w
      PROVE  \/ NoneOf(l, cs, m + 1, w[k].id) /\ \E j \in DOMAIN s : s[j] = w[k]
             \/ \E j \in 1 .. m + 1 :
                  IsLast(l, cs, m + 1, j) /\ ~l[cs[j]].void /\ w[k] = AsCorrected(l, cs[j])
  <2>1. CASE w[k].id = l[c].corrects
    <3>1. ~l[c].void /\ w[k] = AsCorrected(l, c)
      BY <2>1 DEF Applied, c
    <3> QED
      BY <1>1, <1>4, <3>1 DEF c
  <2>2. CASE w[k].id # l[c].corrects
    <3>1. PICK i \in DOMAIN v : v[i] = w[k]
      BY <2>2 DEF Applied, c
    <3>2. CASE NoneOf(l, cs, m, v[i].id) /\ \E j \in DOMAIN s : s[j] = v[i]
      BY <1>3, <2>2, <3>1, <3>2
    <3>3. CASE \E j \in 1 .. m : IsLast(l, cs, m, j) /\ ~l[cs[j]].void /\ v[i] = AsCorrected(l, cs[j])
      <4>1. PICK j \in 1 .. m : IsLast(l, cs, m, j) /\ ~l[cs[j]].void /\ v[i] = AsCorrected(l, cs[j])
        BY <3>3
      <4>2. l[c].corrects # l[cs[j]].corrects
        BY <1>2, <2>2, <3>1, <4>1
      <4> QED
        BY <1>1, <1>5, <3>1, <4>1, <4>2
    <3> QED
      BY <3>2, <3>3 DEF Decided
  <2> QED
    BY <2>1, <2>2
<1>7. ASSUME NEW k \in DOMAIN s, NoneOf(l, cs, m + 1, s[k].id)
      PROVE  \E i \in DOMAIN w : w[i] = s[k]
  <2>1. PICK i \in DOMAIN v : v[i] = s[k]
    BY <1>3, <1>7 DEF Decided
  <2>2. v[i].id # l[c].corrects
    BY <1>3, <1>7, <2>1
  <2> QED
    BY <2>1, <2>2 DEF Applied, c
<1>8. ASSUME NEW j \in 1 .. m + 1, IsLast(l, cs, m + 1, j), ~l[cs[j]].void
      PROVE  \E i \in DOMAIN w : w[i] = AsCorrected(l, cs[j])
  <2>1. CASE j = m + 1
    BY <1>8, <2>1 DEF Applied, c
  <2>2. CASE j \in 1 .. m
    <3>1. IsLast(l, cs, m, j) /\ l[c].corrects # l[cs[j]].corrects
      BY <1>5, <1>8, <2>2
    <3>2. PICK i \in DOMAIN v : v[i] = AsCorrected(l, cs[j])
      BY <1>8, <2>2, <3>1 DEF Decided
    <3>3. v[i].id # l[c].corrects
      BY <1>2, <3>1, <3>2
    <3> QED
      BY <3>2, <3>3 DEF Applied, c
  <2> QED
    BY <1>1, <2>1, <2>2
<1> QED
  BY <1>6, <1>7, <1>8 DEF Decided

\* Correction c is the last of its event among those that are read.
Deciding(l, until, c) ==
  /\ c \in InQuery(l, until) /\ l[c].kind = "correction"
  /\ \A x \in InQuery(l, until) :
       (l[x].kind = "correction" /\ x > c) => l[x].corrects # l[c].corrects
Uncorrected(l, until, e) ==
  /\ e \in RegularRead(l, until)
  /\ \A x \in InQuery(l, until) : l[x].kind = "correction" => l[x].corrects # e

\* What the events read up to a time are: each that no correction of the query
\* is of, as it was recorded, and what the last correction makes of the others,
\* unless it is a void.
AreEffective(l, until, ev) ==
  /\ AreReads(l, ev) /\ ByTime(ev)
  /\ \A k \in DOMAIN ev :
       \/ Uncorrected(l, until, ev[k].id) /\ ev[k] = AsRead(l, ev[k].id)
       \/ \E c \in InQuery(l, until) :
            Deciding(l, until, c) /\ ~l[c].void /\ ev[k] = AsCorrected(l, c)
  /\ \A e : Uncorrected(l, until, e) => \E k \in DOMAIN ev : ev[k] = AsRead(l, e)
  /\ \A c : (Deciding(l, until, c) /\ ~l[c].void) =>
       \E k \in DOMAIN ev : ev[k] = AsCorrected(l, c)

LEMMA EffectiveEvents ==
  ASSUME NEW l, IsLog(l), NEW until
  PROVE  AreEffective(l, until, effectiveEvents(l, until))
<1> DEFINE cs == correctionsRead(l, until)
           s == eventsRead(l, until)
           m == Len(cs)
           ev == effectiveEvents(l, until)
<1>1. /\ cs \in Seq(Nat)
      /\ \A k \in DOMAIN cs : cs[k] \in InQuery(l, until) /\ l[cs[k]].kind = "correction"
      /\ \A j, k \in DOMAIN cs : j < k => cs[j] < cs[k]
      /\ \A i \in InQuery(l, until) : l[i].kind = "correction" => \E k \in DOMAIN cs : cs[k] = i
  BY CorrectionsAreRead
<1>2. /\ AreReads(l, s)
      /\ \A k \in DOMAIN s : s[k].id \in RegularRead(l, until) /\ s[k] = AsRead(l, s[k].id)
      /\ \A i \in RegularRead(l, until) : \E k \in DOMAIN s : s[k] = AsRead(l, i)
  BY EventsAreRead
<1>3. PICK h : /\ CorrectionSteps(h, l, s, cs) /\ eventsCorrected(l, until) = h[m]
               /\ \A k \in 0 .. m : AreReads(l, h[k])
  BY EventsCorrectedInSteps
<1>4. ev = StableByTime(h[m])
  BY <1>3, Zenon DEF effectiveEvents
<1> HIDE DEF cs, s, ev
<1>5. m \in Nat /\ DOMAIN cs = 1 .. m
  BY <1>1
<1> HIDE DEF m
<1> DEFINE Good == {k \in 0 .. m : Decided(l, s, cs, k, h[k])}
<1>6. 0 \in Good
  <2>1. h[0] = s
    BY <1>3 DEF CorrectionSteps
  <2>2. Decided(l, s, cs, 0, s)
    BY DEF Decided, NoneOf
  <2> QED
    BY <1>5, <2>1, <2>2
<1>7. ASSUME NEW k \in 0 .. m - 1, k \in Good
      PROVE  k + 1 \in Good
  <2>1. k \in Nat /\ k + 1 \in 1 .. m /\ (k + 1) - 1 = k /\ k \in 0 .. m /\ k + 1 \in 0 .. m
    BY <1>5
  <2>2. h[k + 1] = ApplyCorrection(l, h[k], cs[k + 1])
    BY <1>3, <2>1 DEF CorrectionSteps, m
  <2>3. cs[k + 1] \in DOMAIN l /\ l[cs[k + 1]].kind = "correction"
    BY <1>1, <1>5, <2>1 DEF InQuery
  <2>4. Applied(l, h[k], cs[k + 1], h[k + 1])
    BY <1>3, <2>1, <2>2, <2>3, CorrectionApplied
  <2>5. Decided(l, s, cs, k + 1, h[k + 1])
    BY <1>7, <2>1, <2>4, DecidedOneMore
  <2> QED
    BY <2>1, <2>5
<1> HIDE DEF Good
<1>8. m \in Good
  BY <1>5, <1>6, <1>7, UpTo
<1>9. Decided(l, s, cs, m, h[m])
  BY <1>8 DEF Good
<1> DEFINE w == h[m]
<1>10. AreReads(l, w)
  BY <1>3, <1>5
<1>11. Decided(l, s, cs, m, w)
  BY <1>9
<1> HIDE DEF w
<1>12. /\ AreReads(l, ev) /\ ByTime(ev)
       /\ \A k \in DOMAIN ev : \E j \in DOMAIN w : w[j] = ev[k]
       /\ \A j \in DOMAIN w : \E k \in DOMAIN ev : ev[k] = w[j]
  BY <1>4, <1>10, SortedReads DEF w
<1>13. \A c \in InQuery(l, until) : c \in Int
  <2>1. DOMAIN l \subseteq Int
    BY DEF IsLog
  <2> QED
    BY <2>1 DEF InQuery
<1>14. ASSUME NEW j \in 1 .. m
       PROVE  IsLast(l, cs, m, j) <=> Deciding(l, until, cs[j])
  <2>1. j \in Int /\ cs[j] \in InQuery(l, until) /\ l[cs[j]].kind = "correction"
    BY <1>1, <1>5
  <2>2. ASSUME IsLast(l, cs, m, j), NEW x \in InQuery(l, until), l[x].kind = "correction", x > cs[j]
        PROVE  l[x].corrects # l[cs[j]].corrects
    <3>1. PICK i \in 1 .. m : cs[i] = x
      BY <1>1, <1>5, <2>2
    <3>2. (i < j => cs[i] < cs[j]) /\ cs[i] \in Int /\ cs[j] \in Int
      BY <1>1, <1>5, <1>13, <2>1, <3>1
    <3>3. i \in j + 1 .. m
      BY <2>1, <2>2, <3>1, <3>2
    <3> QED
      BY <2>2, <3>1, <3>3 DEF IsLast
  <2>3. ASSUME Deciding(l, until, cs[j]), NEW i \in j + 1 .. m
        PROVE  l[cs[i]].corrects # l[cs[j]].corrects
    <3>1. i \in 1 .. m /\ j < i
      BY <1>5
    <3>2. cs[i] \in InQuery(l, until) /\ l[cs[i]].kind = "correction" /\ cs[j] < cs[i]
      BY <1>1, <1>5, <3>1
    <3>3. cs[i] > cs[j]
      BY <1>13, <2>1, <3>2
    <3> QED
      BY <2>3, <3>2, <3>3 DEF Deciding
  <2>4. Deciding(l, until, cs[j]) => IsLast(l, cs, m, j)
    BY <2>3 DEF IsLast
  <2>5. IsLast(l, cs, m, j) => Deciding(l, until, cs[j])
    BY <2>1, <2>2 DEF Deciding
  <2> QED
    BY <2>4, <2>5
<1>15. \A e : NoneOf(l, cs, m, e) <=>
         \A x \in InQuery(l, until) : l[x].kind = "correction" => l[x].corrects # e
  BY <1>1, <1>5 DEF NoneOf
<1>16. ASSUME NEW k \in DOMAIN ev
       PROVE  \/ Uncorrected(l, until, ev[k].id) /\ ev[k] = AsRead(l, ev[k].id)
              \/ \E c \in InQuery(l, until) :
                   Deciding(l, until, c) /\ ~l[c].void /\ ev[k] = AsCorrected(l, c)
  <2>1. PICK i \in DOMAIN w : w[i] = ev[k]
    BY <1>12
  <2>2. CASE NoneOf(l, cs, m, w[i].id) /\ \E j \in DOMAIN s : s[j] = w[i]
    <3>1. Uncorrected(l, until, w[i].id) /\ w[i] = AsRead(l, w[i].id)
      BY <1>2, <1>15, <2>2 DEF Uncorrected
    <3> QED
      BY <2>1, <3>1
  <2>3. CASE \E j \in 1 .. m : IsLast(l, cs, m, j) /\ ~l[cs[j]].void /\ w[i] = AsCorrected(l, cs[j])
    BY <1>1, <1>5, <1>14, <2>1, <2>3
  <2> QED
    BY <1>11, <2>2, <2>3 DEF Decided
<1>17. ASSUME NEW e, Uncorrected(l, until, e)
       PROVE  \E k \in DOMAIN ev : ev[k] = AsRead(l, e)
  <2>1. PICK j \in DOMAIN s : s[j] = AsRead(l, e)
    BY <1>2, <1>17 DEF Uncorrected
  <2>2. s[j].id = e
    BY <2>1 DEF AsRead
  <2>3. NoneOf(l, cs, m, s[j].id)
    BY <1>15, <1>17, <2>2 DEF Uncorrected
  <2>4. \E i \in DOMAIN w : w[i] = s[j]
    BY <1>11, <2>3 DEF Decided
  <2> QED
    BY <1>12, <2>1, <2>4
<1>18. ASSUME NEW c, Deciding(l, until, c), ~l[c].void
       PROVE  \E k \in DOMAIN ev : ev[k] = AsCorrected(l, c)
  <2>1. PICK j \in 1 .. m : cs[j] = c
    BY <1>1, <1>5, <1>18 DEF Deciding
  <2>2. \E i \in DOMAIN w : w[i] = AsCorrected(l, c)
    BY <1>11, <1>14, <1>18, <2>1 DEF Decided
  <2> QED
    BY <1>12, <2>2
<1>19. AreEffective(l, until, ev)
  BY <1>12, <1>16, <1>17, <1>18 DEF AreEffective
<1> QED
  BY <1>19 DEF ev

-----------------------------------------------------------------------------
(* The days that can be edited.                                            *)

\* An event whose void nothing undoes afterwards is shown only up to a time
\* before its own, by a correction that moved it back.
LEMMA VoidedIsLeftOut ==
  ASSUME NEW l, IsLog(l), NEW until \in Int, NEW i \in DOMAIN l, l[i].void,
         l[i].kind = "correction", l[i].at = l[l[i].corrects].at,
         \A k \in DOMAIN l : ~(i < k /\ l[k].corrects = l[i].corrects /\ ~l[k].void),
         NEW k \in DOMAIN effectiveEvents(l, until),
         effectiveEvents(l, until)[k].id = l[i].corrects
  PROVE  /\ until + DayLen < l[i].at
         /\ \E c \in DOMAIN l : c < i /\ l[c].corrects = l[i].corrects /\ ~l[c].void
                                /\ l[c].at < l[l[i].corrects].at
<1> DEFINE ev == effectiveEvents(l, until)
           e == l[i].corrects
<1>1. AreEffective(l, until, ev)
  BY EffectiveEvents
<1> HIDE DEF ev
<1>2. k \in DOMAIN ev /\ ev[k].id = e
  BY DEF ev
<1>3. l \in Seq(Entry) /\ DOMAIN l = 1 .. Len(l) /\ \A j \in DOMAIN l : j \in Int /\ l[j].at \in Int
  <2>1. l \in Seq(Entry)
    BY DEF IsLog
  <2>2. \A j \in DOMAIN l : l[j] \in Entry
    BY <2>1
  <2> QED
    BY <2>1, <2>2 DEF Entry
<1>4. DayLen \in Int
  BY TimesheetAssumption
<1>5. CASE Uncorrected(l, until, ev[k].id)
  <2>1. e \in InQuery(l, until) /\ l[e].at <= until + DayLen
    BY <1>2, <1>5 DEF Uncorrected, RegularRead, InQuery
  <2>2. i \in InQuery(l, until)
    BY <2>1 DEF InQuery
  <2> QED
    BY <1>2, <1>5, <2>2 DEF Uncorrected
<1>6. CASE \E c \in InQuery(l, until) :
             Deciding(l, until, c) /\ ~l[c].void /\ ev[k] = AsCorrected(l, c)
  <2>1. PICK c \in InQuery(l, until) :
               Deciding(l, until, c) /\ ~l[c].void /\ ev[k] = AsCorrected(l, c)
    BY <1>6
  <2>2. l[c].corrects = e
    BY <1>2, <2>1 DEF AsCorrected
  <2>3. c \in DOMAIN l /\ l[c].at <= until + DayLen /\ c # i
    BY <2>1 DEF InQuery
  <2>4. c < i
    BY <1>3, <2>1, <2>2, <2>3
  <2>5. i \notin InQuery(l, until)
    BY <1>3, <2>1, <2>2, <2>4 DEF Deciding
  <2>6. until + DayLen < l[i].at
    BY <1>3, <1>4, <2>5 DEF InQuery
  <2>7. l[c].at < l[e].at
    BY <1>3, <1>4, <2>3, <2>6
  <2> QED
    BY <2>1, <2>2, <2>3, <2>4, <2>6, <2>7
<1> QED
  BY <1>1, <1>2, <1>5, <1>6 DEF AreEffective

-----------------------------------------------------------------------------
(* The days as they can be edited.                                         *)

Worked == [kind : {"work", "break"}, start : Nat, end : Nat, paid : BOOLEAN]
Group == [ids : Seq(Nat), intervals : Seq(Worked), closed : BOOLEAN]
Editing(days) == [shift : days \union {-1}, work : Seq(Read), rest : Seq(Read),
                  groups : [days -> Group]]

\* An event joins one day.
LEMMA EventJoinsADay ==
  ASSUME NEW days \in SUBSET Int, NEW s \in Editing(days), NEW e \in Read, DayOf(e.at) \in days
  PROVE  /\ editableStep(s, e) \in Editing(days)
         /\ \E own \in days : \A d \in days :
              editableStep(s, e).groups[d].ids =
                IF d = own THEN Append(s.groups[d].ids, e.id) ELSE s.groups[d].ids
<1> DEFINE own   == IF e.kind = "clock_in" \/ s.shift < 0 THEN DayOf(e.at) ELSE s.shift
           begun == IF e.kind = "break_end" THEN s.rest ELSE s.work
           k     == IF e.kind = "break_end" THEN "break" ELSE "work"
           x     == [kind |-> k, start |-> begun[1].at, end |-> e.at,
                     paid |-> k = "break" /\ begun[1].paid]
           ended == IF e.kind = "clock_in" \/ begun = <<>> THEN <<>> ELSE <<x>>
           day   == s.groups[own]
           cl    == e.kind = "clock_out" \/ (e.kind # "clock_in" /\ day.closed)
           g     == [ids |-> Append(day.ids, e.id), intervals |-> day.intervals \o ended,
                     closed |-> cl]
           sh    == IF e.kind = "clock_in" THEN own ELSE IF e.kind = "clock_out" THEN -1 ELSE s.shift
           wk    == IF e.kind \in {"clock_in", "break_end"} THEN <<e>> ELSE <<>>
           rs    == IF e.kind = "break_start" THEN <<e>> ELSE <<>>
           gs    == [s.groups EXCEPT ![own] = g]
<1>1. editableStep(s, e) = [shift |-> sh, work |-> wk, rest |-> rs, groups |-> gs]
  BY Zenon DEF editableStep
<1>2. /\ s.shift \in days \union {-1} /\ s.work \in Seq(Read) /\ s.rest \in Seq(Read)
      /\ s.groups \in [days -> Group]
  BY DEF Editing
<1>3. own \in days
  BY <1>2
<1>4. day \in Group
  BY <1>2, <1>3
<1>5. day.ids \in Seq(Nat) /\ day.intervals \in Seq(Worked) /\ day.closed \in BOOLEAN
  BY <1>4 DEF Group
<1>6. e.id \in Nat /\ e.at \in Nat
  BY DEF Read
<1>7. ended \in Seq(Worked)
  <2>1. CASE e.kind = "clock_in" \/ begun = <<>>
    BY <2>1
  <2>2. CASE e.kind # "clock_in" /\ begun # <<>>
    <3>1. begun \in Seq(Read)
      BY <1>2
    <3> HIDE DEF begun
    <3>2. begun[1] \in Read
      BY <2>2, <3>1
    <3>3. begun[1].at \in Nat /\ begun[1].paid \in BOOLEAN
      BY <3>2 DEF Read
    <3>4. k \in {"work", "break"}
      OBVIOUS
    <3>5. (k = "break" /\ begun[1].paid) \in BOOLEAN
      OBVIOUS
    <3>6. x \in Worked
      <4> HIDE DEF k
      <4> QED
        BY <1>6, <3>3, <3>4, <3>5 DEF Worked
    <3> HIDE DEF x
    <3> QED
      BY <2>2, <3>6
  <2> QED
    BY <2>1, <2>2
<1> HIDE DEF ended, own, day
<1>8. g \in Group
  <2>1. cl \in BOOLEAN
    OBVIOUS
  <2>2. Append(day.ids, e.id) \in Seq(Nat) /\ day.intervals \o ended \in Seq(Worked)
    BY <1>5, <1>6, <1>7
  <2> HIDE DEF cl
  <2> QED
    BY <2>1, <2>2 DEF Group
<1>9. g.ids = Append(day.ids, e.id)
  OBVIOUS
<1> HIDE DEF g
<1>10. gs \in [days -> Group] /\ \A d \in days : gs[d] = IF d = own THEN g ELSE s.groups[d]
  BY <1>2, <1>3, <1>8
<1> HIDE DEF gs
<1>11. sh \in days \union {-1} /\ wk \in Seq(Read) /\ rs \in Seq(Read)
  BY <1>2, <1>3
<1> HIDE DEF sh, wk, rs
<1>12. editableStep(s, e) \in Editing(days)
  BY <1>1, <1>10, <1>11 DEF Editing
<1>13. \A d \in days : editableStep(s, e).groups[d].ids =
                         IF d = own THEN Append(s.groups[d].ids, e.id) ELSE s.groups[d].ids
  <2>1. editableStep(s, e).groups = gs
    BY <1>1
  <2>2. g.ids = Append(s.groups[own].ids, e.id)
    BY <1>9 DEF day
  <2> QED
    BY <1>10, <2>1, <2>2
<1> QED
  BY <1>3, <1>12, <1>13

EditingSteps(h, events, days) ==
  /\ h \in [0 .. Len(events) -> Editing(days)]
  /\ h[0] = [shift |-> -1, work |-> <<>>, rest |-> <<>>, groups |-> [d \in days |-> EmptyDay]]
  /\ \A k \in 1 .. Len(events) : h[k] = editableStep(h[k - 1], events[k])

LEMMA EditableDaysInSteps ==
  ASSUME NEW events \in Seq(Read), NEW days,
         days = Days \union {DayOf(events[k].at) : k \in DOMAIN events}
  PROVE  \E h : EditingSteps(h, events, days) /\ editableDays(events) = h[Len(events)].groups
<1> DEFINE base == [shift |-> -1, work |-> <<>>, rest |-> <<>>,
                    groups |-> [d \in days |-> EmptyDay]]
           n == Len(events)
           T == Editing(days)
           op(s, e) == editableStep(s, e)
           step == [p \in (1 .. n) \X T |-> op(p[2], events[p[1]])]
           Fold(g) == g = [s \in SUBSET DOMAIN events |->
                             IF s = {} THEN base
                             ELSE op(g[s \ {Max(s)}], events[Max(s)])]
           iter == CHOOSE g : Fold(g)
           value == iter[1 .. n]
<1>1. n \in Nat /\ DOMAIN events = 1 .. n
  OBVIOUS
<1>2. editableDays(events) = value.groups
  <2>1. editableDays(events) = iter[DOMAIN events].groups
    BY DEF editableDays, FoldLeft, MapThenFoldSet
  <2> QED
    BY <1>1, <2>1
<1>3. base \in T
  <2>1. EmptyDay \in Group
    BY DEF EmptyDay, Group
  <2>2. [d \in days |-> EmptyDay] \in [days -> Group]
    BY <2>1
  <2> QED
    BY <2>2 DEF Editing
<1>0. days \in SUBSET Int
  <2>1. \A k \in DOMAIN events : DayOf(events[k].at) \in Int
    <3>1. \A k \in DOMAIN events : events[k] \in Read
      OBVIOUS
    <3> QED
      BY <3>1, TimesheetAssumption DEF DayOf, Read
  <2>2. Days \subseteq Int
    BY DEF Days
  <2> QED
    BY <2>1, <2>2
<1>4. ASSUME NEW s \in T, NEW k \in 1 .. n
      PROVE  op(s, events[k]) \in T
  <2>1. events[k] \in Read /\ DayOf(events[k].at) \in days
    BY <1>1
  <2> QED
    BY <1>0, <2>1, EventJoinsADay
<1> HIDE DEF base, T
<1>5. step \in [(1 .. n) \X T -> T]
  <2> HIDE DEF op
  <2> QED
    BY <1>4
<1>6. \A k \in 1 .. n, s \in T : step[<<k, s>>] = op(s, events[k])
  OBVIOUS
<1> HIDE DEF step, n, op
<1>7. PICK g : FoldTable(g, n, T, base, step)
  BY <1>1, <1>3, <1>5, FoldIsDefined
<1>8. Fold(g)
  <2>1. ASSUME NEW s \in SUBSET (1 .. n)
        PROVE  g[s] = IF s = {} THEN base ELSE op(g[s \ {Max(s)}], events[Max(s)])
    <3>1. s # {} => Max(s) \in 1 .. n /\ s \ {Max(s)} \in SUBSET (1 .. n)
      BY <1>1, MaxOfIndexes
    <3> QED
      BY <1>6, <1>7, <3>1 DEF FoldTable
  <2> QED
    BY <1>1, <1>7, <2>1 DEF FoldTable
<1>9. Fold(iter)
  <2> HIDE DEF Fold
  <2> QED
    BY <1>8
<1> HIDE DEF iter
<1>10. iter[{}] = base
  BY <1>9
<1>11. FoldRun(iter, n, T, base, step)
  BY <1>1, <1>6, <1>9, <1>10, MaxOfIndexes DEF FoldRun
<1> HIDE DEF value
<1>15. value = iter[1 .. n]
  BY DEF value
<1>12. PICK h : FoldSteps(h, n, T, base, step, value)
  BY <1>1, <1>15, <1>3, <1>5, <1>11, FoldAdvances
<1>13. h \in [0 .. n -> T] /\ h[0] = base /\ h[n] = value
  BY <1>12 DEF FoldSteps
<1>14. ASSUME NEW k \in 1 .. n
       PROVE  h[k] = op(h[k - 1], events[k])
  <2>1. h[k - 1] \in T
    BY <1>1, <1>13
  <2> QED
    BY <1>6, <1>12, <2>1 DEF FoldSteps
<1>16. EditingSteps(h, events, days)
  BY <1>13, <1>14 DEF EditingSteps, T, base, op, n
<1> QED
  BY <1>2, <1>13, <1>16 DEF n

\* The events of a day are among the first m events, each once.
DayIsOf(ids, events, m) ==
  /\ ids \in Seq(Nat)
  /\ \A k \in DOMAIN ids : \E j \in 1 .. m : ids[k] = events[j].id
  /\ \A j, k \in DOMAIN ids : ids[j] = ids[k] => j = k

LEMMA EditableIds ==
  ASSUME NEW l, NEW events, AreReads(l, events), NEW d \in Days
  PROVE  DayIsOf(editableDays(events)[d].ids, events, Len(events))
<1> DEFINE days == Days \union {DayOf(events[k].at) : k \in DOMAIN events}
<1>1. events \in Seq(Read) /\ Len(events) \in Nat /\ DOMAIN events = 1 .. Len(events)
  BY DEF AreReads
<1>2. d \in days
  OBVIOUS
<1>3. \A k \in DOMAIN events : DayOf(events[k].at) \in days
  OBVIOUS
<1>4. days \in SUBSET Int
  <2>1. \A k \in DOMAIN events : DayOf(events[k].at) \in Int
    <3>1. \A k \in DOMAIN events : events[k] \in Read
      BY <1>1
    <3> QED
      BY <3>1, TimesheetAssumption DEF DayOf, Read
  <2>2. Days \subseteq Int
    BY DEF Days
  <2> QED
    BY <2>1, <2>2
<1>5. PICK h : EditingSteps(h, events, days) /\ editableDays(events) = h[Len(events)].groups
  BY <1>1, EditableDaysInSteps
<1> HIDE DEF days
<1> DEFINE Good == {m \in 0 .. Len(events) : DayIsOf(h[m].groups[d].ids, events, m)}
<1>6. 0 \in Good
  <2>1. h[0].groups[d].ids = <<>>
    BY <1>2, <1>5 DEF EditingSteps, EmptyDay
  <2>2. DayIsOf(<<>>, events, 0)
    BY DEF DayIsOf
  <2> QED
    BY <1>1, <2>1, <2>2
<1>7. ASSUME NEW m \in 0 .. Len(events) - 1, m \in Good
      PROVE  m + 1 \in Good
  <2>1. /\ m \in Nat /\ m + 1 \in 1 .. Len(events) /\ (m + 1) - 1 = m /\ m \in 0 .. Len(events)
        /\ m + 1 \in 0 .. Len(events)
    BY <1>1
  <2>2. h[m] \in Editing(days) /\ h[m + 1] = editableStep(h[m], events[m + 1])
    BY <1>5, <2>1 DEF EditingSteps
  <2>3. events[m + 1] \in Read /\ DayOf(events[m + 1].at) \in days
    BY <1>1, <1>3, <2>1
  <2>4. PICK own \in days : \A x \in days :
              editableStep(h[m], events[m + 1]).groups[x].ids =
                IF x = own THEN Append(h[m].groups[x].ids, events[m + 1].id) ELSE h[m].groups[x].ids
    BY <1>4, <2>2, <2>3, EventJoinsADay
  <2> DEFINE a == h[m].groups[d].ids
             b == h[m + 1].groups[d].ids
             x == events[m + 1].id
  <2>5. DayIsOf(a, events, m)
    BY <1>7
  <2>6. b = a \/ b = Append(a, x)
    BY <1>2, <2>2, <2>4
  <2>7. x \in Nat
    BY <2>3 DEF Read
  <2>8. \A j \in 1 .. m : events[j].id # x
    <3>1. \A j \in 1 .. m : j \in DOMAIN events /\ m + 1 \in DOMAIN events /\ j # m + 1
      BY <1>1, <2>1
    <3> QED
      BY <3>1 DEF AreReads
  <2>13. x = events[m + 1].id
    OBVIOUS
  <2> HIDE DEF a, b, x
  <2>9. \A j \in 1 .. m : j \in 1 .. m + 1
    BY <2>1
  <2>10. DayIsOf(a, events, m + 1)
    BY <2>5, <2>9 DEF DayIsOf
  <2>11. DayIsOf(Append(a, x), events, m + 1)
    <3> DEFINE c == Append(a, x)
    <3>1. a \in Seq(Nat) /\ Len(a) \in Nat /\ DOMAIN a = 1 .. Len(a)
      BY <2>5 DEF DayIsOf
    <3>2. c \in Seq(Nat) /\ DOMAIN c = 1 .. Len(a) + 1 /\ c[Len(a) + 1] = x
          /\ \A k \in 1 .. Len(a) : c[k] = a[k]
      BY <2>7, <3>1
    <3> HIDE DEF c
    <3>3. \A k \in DOMAIN c : k \in DOMAIN a \/ k = Len(a) + 1
      BY <3>1, <3>2
    <3>4. \A k \in DOMAIN a : c[k] = a[k] /\ c[k] # x
      <4>1. \A k \in DOMAIN a : \E j \in 1 .. m : a[k] = events[j].id
        BY <2>5 DEF DayIsOf
      <4> QED
        BY <2>8, <3>1, <3>2, <4>1
    <3>5. \A k \in DOMAIN c : \E j \in 1 .. m + 1 : c[k] = events[j].id
      <4>1. m + 1 \in 1 .. m + 1
        BY <2>1
      <4>2. \A k \in DOMAIN a : \E j \in 1 .. m : a[k] = events[j].id
        BY <2>5 DEF DayIsOf
      <4>3. \A k \in DOMAIN a : \E j \in 1 .. m + 1 : c[k] = events[j].id
        BY <2>9, <3>4, <4>2
      <4> QED
        BY <2>13, <3>2, <3>3, <4>1, <4>3
    <3>6. \A j, k \in DOMAIN c : c[j] = c[k] => j = k
      <4>1. \A j, k \in DOMAIN a : c[j] = c[k] => j = k
        BY <2>5, <3>4 DEF DayIsOf
      <4> QED
        BY <3>2, <3>3, <3>4, <4>1
    <3> QED
      BY <3>2, <3>5, <3>6 DEF DayIsOf, c
  <2>12. DayIsOf(b, events, m + 1)
    BY <2>6, <2>10, <2>11
  <2> QED
    BY <2>1, <2>12 DEF b
<1> HIDE DEF Good
<1>8. Len(events) \in Good
  BY <1>1, <1>6, <1>7, UpTo
<1> QED
  BY <1>5, <1>8 DEF Good

-----------------------------------------------------------------------------
(* What a request stands for.                                              *)

\* Days begin at a natural.
LEMMA DayBegins ==
  ASSUME NEW d \in Nat
  PROVE  d * DayLen \in Nat
<1>1. DayLen \in Nat
  BY TimesheetAssumption
<1>2. d * DayLen \in Int
  BY <1>1
<1> DEFINE Good == {m \in 0 .. d : m * DayLen >= 0}
<1>3. 0 \in Good
  BY <1>1
<1>4. ASSUME NEW m \in 0 .. d - 1, m \in Good
      PROVE  m + 1 \in Good
  <2>1. m \in Int /\ m * DayLen >= 0 /\ m + 1 \in 0 .. d
    BY <1>4
  <2>2. m * DayLen \in Int /\ (m + 1) * DayLen = m * DayLen + DayLen
    BY <1>1, <2>1
  <2> QED
    BY <1>1, <2>1, <2>2
<1> HIDE DEF Good
<1>5. d \in Good
  BY <1>3, <1>4, UpTo
<1> QED
  BY <1>2, <1>5 DEF Good

\* A draft for a day is placed as intervals.
LEMMA PlacedIsWorked ==
  ASSUME NEW draft \in Seq(Typed), NEW d \in Nat
  PROVE  Placed(draft, d) \in Seq(Worked)
<1> DEFINE P == [kind : {"work", "break"}, paid : BOOLEAN, at : Nat, start : Nat, end : Nat]
           from(i)  == draft[i].start + (IF draft[i].startNextDay THEN DayLen ELSE 0)
           until(i) == from(i) + draft[i].end - draft[i].start
                         + (IF draft[i].end < draft[i].start THEN DayLen ELSE 0)
           x(i) == [kind |-> draft[i].kind, paid |-> draft[i].paid, at |-> from(i),
                    start |-> d * DayLen + from(i), end |-> d * DayLen + until(i)]
           placed == [i \in DOMAIN draft |-> x(i)]
           sorted == StableByTime(placed)
           y(i) == [kind |-> sorted[i].kind, start |-> sorted[i].start,
                    end |-> sorted[i].end, paid |-> sorted[i].paid]
<1>1. DOMAIN draft = 1 .. Len(draft) /\ Len(draft) \in Nat /\ DayLen \in Nat /\ d * DayLen \in Nat
  BY TimesheetAssumption, DayBegins
<1>2. ASSUME NEW i \in 1 .. Len(draft)
      PROVE  x(i) \in P
  <2>1. draft[i] \in Typed
    BY <1>1
  <2>2. /\ draft[i].kind \in {"work", "break"} /\ draft[i].paid \in BOOLEAN
        /\ draft[i].start \in Nat /\ draft[i].end \in Nat
    BY <2>1 DEF Typed
  <2>3. from(i) \in Nat /\ from(i) >= draft[i].start
    BY <1>1, <2>2
  <2> HIDE DEF from
  <2>4. until(i) \in Nat
    BY <1>1, <2>2, <2>3
  <2> HIDE DEF until
  <2>5. d * DayLen + from(i) \in Nat /\ d * DayLen + until(i) \in Nat
    BY <1>1, <2>3, <2>4
  <2> QED
    BY <2>2, <2>3, <2>5
<1> HIDE DEF x
<1>3. placed \in Seq(P) /\ Len(placed) = Len(draft)
  BY <1>1, <1>2
<1>4. Timed(P)
  BY DEF Timed
<1>5. Placed(draft, d) = [i \in DOMAIN draft |-> y(i)]
  BY DEF Placed, x
<1> HIDE DEF placed, P
<1>6. sorted \in Seq(P) /\ \E p : Arranges(p, sorted, Len(placed), placed)
  BY <1>3, <1>4, StableByTimeArranges
<1>7. DOMAIN sorted = 1 .. Len(draft)
  BY <1>3, <1>6 DEF Arranges
<1> HIDE DEF sorted
<1>8. ASSUME NEW i \in 1 .. Len(draft)
      PROVE  y(i) \in Worked
  <2>1. sorted[i] \in P
    BY <1>1, <1>6, <1>7
  <2> QED
    BY <2>1 DEF P, Worked
<1> HIDE DEF y
<1> QED
  BY <1>1, <1>5, <1>8

\* The intervals of a day that is over are over.
LEMMA NormalizedIsOver ==
  ASSUME NEW iv \in Seq(Worked), NEW d \in Nat, now \in Nat, normalizeIntervals(iv, d)
  PROVE  \A i \in DOMAIN iv : iv[i].start < iv[i].end /\ iv[i].end <= now
<1> DEFINE n == Len(iv)
<1>1. n \in Nat /\ DOMAIN iv = 1 .. n /\ n > 0
  BY DEF normalizeIntervals
<1>2. \A i \in 1 .. n : iv[i].start \in Int /\ iv[i].end \in Int
  <2>1. \A i \in 1 .. n : iv[i] \in Worked
    BY <1>1
  <2> QED
    BY <2>1 DEF Worked
<1>3. /\ \A i \in 1 .. n : iv[i].start < iv[i].end
      /\ \A i \in 2 .. n : iv[i - 1].end <= iv[i].start
      /\ iv[n].end <= now
  BY DEF normalizeIntervals
<1> HIDE DEF n
<1> DEFINE Good == {m \in 0 .. n - 1 : iv[n - m].end <= now}
<1>4. 0 \in Good
  BY <1>1, <1>3
<1>5. ASSUME NEW m \in 0 .. n - 1 - 1, m \in Good
      PROVE  m + 1 \in Good
  <2>1. m \in Int /\ m + 1 \in 0 .. n - 1 /\ iv[n - m].end <= now
    BY <1>1, <1>5
  <2>2. n - m \in 2 .. n /\ n - m \in 1 .. n /\ (n - m) - 1 = n - (m + 1) /\ n - (m + 1) \in 1 .. n
    BY <1>1, <2>1
  <2>3. iv[(n - m) - 1].end <= iv[n - m].start /\ iv[n - m].start < iv[n - m].end
    BY <1>3, <2>2
  <2>4. iv[n - (m + 1)].end <= now
    <3>1. /\ iv[(n - m) - 1].end \in Int /\ iv[n - m].start \in Int
          /\ iv[n - m].end \in Int
      BY <1>2, <2>2
    <3>2. iv[(n - m) - 1].end <= now
      BY <2>1, <2>3, <3>1
    <3> QED
      BY <2>2, <3>2
  <2> QED
    BY <2>1, <2>4
<1> HIDE DEF Good
<1>6. \A j \in 0 .. n - 1 : j \in Good
  <2>1. ASSUME NEW j \in 0 .. n - 1
        PROVE  j \in Good
    <3>1. j \in Nat /\ \A m \in 0 .. j - 1 : m \in 0 .. n - 1 - 1
      BY <1>1
    <3> QED
      BY <1>4, <1>5, <3>1, UpTo
  <2> QED
    BY <2>1
<1>7. ASSUME NEW i \in 1 .. n
      PROVE  iv[i].end <= now
  <2>1. n - i \in 0 .. n - 1 /\ n - (n - i) = i
    BY <1>1
  <2>2. n - i \in Good
    BY <1>6, <2>1
  <2> QED
    BY <2>1, <2>2 DEF Good
<1> QED
  BY <1>1, <1>3, <1>7

\* The entries of request r up to time t.
NewEntries(r, t) == {x \in Entry : /\ x.kind \in WorkKinds /\ x.corrects = 0 /\ ~x.void
                                   /\ x.req = r /\ x.at <= t}

LEMMA EventIsEntry ==
  ASSUME NEW r \in Requests \union {"live"}, NEW k \in WorkKinds, NEW t \in Nat, NEW p \in BOOLEAN,
         NEW u \in Nat, t <= u
  PROVE  Event(k, t, p, r) \in NewEntries(r, u)
<1>1. k \in Kinds /\ "none" \in Kinds /\ 0 \in Nat /\ FALSE \in BOOLEAN
      /\ r \in Requests \union Corrections \union {"live"}
  BY DEF Kinds
<1>2. Event(k, t, p, r) \in Entry
  BY <1>1 DEF Event, Entry
<1> QED
  BY <1>2 DEF Event, NewEntries

LEMMA WrittenOfInterval ==
  ASSUME NEW r \in Requests, NEW t \in Nat, NEW iv \in Seq(Worked), NEW i \in DOMAIN iv,
         iv[i].start < iv[i].end, iv[i].end <= t
  PROVE  eventsOfInterval(r, iv, i) \in Seq(NewEntries(r, t))
<1> DEFINE joinsBefore == i > 1 /\ iv[i - 1].kind = "break" /\ iv[i - 1].end = iv[i].start
           joinsAfter  == i < Len(iv) /\ iv[i + 1].kind = "break" /\ iv[i].end = iv[i + 1].start
           a == Event("break_start", iv[i].start, iv[i].paid, r)
           b == Event("break_end", iv[i].end, iv[i].paid, r)
           c == Event("clock_in", iv[i].start, FALSE, r)
           d == Event("clock_out", iv[i].end, FALSE, r)
<1>1. iv[i] \in Worked
  OBVIOUS
<1>2. iv[i].start \in Nat /\ iv[i].end \in Nat /\ iv[i].paid \in BOOLEAN
  BY <1>1 DEF Worked
<1>3. iv[i].start <= t
  BY <1>2
<1>4. /\ "break_start" \in WorkKinds /\ "break_end" \in WorkKinds /\ "clock_in" \in WorkKinds
      /\ "clock_out" \in WorkKinds
  BY DEF WorkKinds
<1>5. /\ a \in NewEntries(r, t) /\ b \in NewEntries(r, t)
      /\ c \in NewEntries(r, t) /\ d \in NewEntries(r, t)
  BY <1>2, <1>3, <1>4, EventIsEntry
<1>6. eventsOfInterval(r, iv, i) =
        IF iv[i].kind = "break" THEN <<a, b>>
        ELSE (IF joinsBefore THEN <<>> ELSE <<c>>) \o (IF joinsAfter THEN <<>> ELSE <<d>>)
  BY DEF eventsOfInterval
<1> HIDE DEF a, b, c, d, joinsBefore, joinsAfter
<1>7. <<a, b>> \in Seq(NewEntries(r, t)) /\ <<c>> \in Seq(NewEntries(r, t))
      /\ <<d>> \in Seq(NewEntries(r, t)) /\ <<>> \in Seq(NewEntries(r, t))
  BY <1>5
<1> DEFINE x == IF joinsBefore THEN <<>> ELSE <<c>>
           y == IF joinsAfter THEN <<>> ELSE <<d>>
<1>8. x \in Seq(NewEntries(r, t)) /\ y \in Seq(NewEntries(r, t))
  BY <1>7
<1>9. eventsOfInterval(r, iv, i) = IF iv[i].kind = "break" THEN <<a, b>> ELSE x \o y
  BY <1>6
<1> HIDE DEF x, y
<1>10. x \o y \in Seq(NewEntries(r, t))
  BY <1>8
<1> QED
  BY <1>7, <1>9, <1>10

LEMMA WrittenAreEntries ==
  ASSUME NEW r \in Requests, NEW t \in Nat, NEW iv \in Seq(Worked),
         \A i \in DOMAIN iv : iv[i].start < iv[i].end /\ iv[i].end <= t
  PROVE  eventsWritten(r, iv) \in Seq(NewEntries(r, t))
<1> DEFINE base == <<>>
           ind == Indices(iv)
           n == Len(iv)
           T == Seq(NewEntries(r, t))
           op(s, i) == s \o eventsOfInterval(r, iv, i)
           step == [p \in (1 .. n) \X T |-> op(p[2], ind[p[1]])]
           Fold(g) == g = [s \in SUBSET DOMAIN ind |->
                             IF s = {} THEN base
                             ELSE op(g[s \ {Max(s)}], ind[Max(s)])]
           iter == CHOOSE g : Fold(g)
           value == eventsWritten(r, iv)
<1>1. n \in Nat /\ DOMAIN iv = 1 .. n /\ DOMAIN ind = 1 .. n /\ \A i \in 1 .. n : ind[i] = i
  BY DEF Indices
<1>2. value = iter[1 .. n]
  <2>1. value = iter[DOMAIN ind]
    BY DEF eventsWritten, FoldLeft, MapThenFoldSet
  <2> QED
    BY <1>1, <2>1
<1>3. base \in T
  OBVIOUS
<1>4. ASSUME NEW s \in T, NEW k \in 1 .. n
      PROVE  op(s, ind[k]) \in T
  <2>1. eventsOfInterval(r, iv, ind[k]) \in T
    BY <1>1, WrittenOfInterval
  <2> QED
    BY <2>1
<1> HIDE DEF base, T, value, ind
<1>5. step \in [(1 .. n) \X T -> T]
  <2> HIDE DEF op
  <2> QED
    BY <1>4
<1>6. \A k \in 1 .. n, s \in T : step[<<k, s>>] = op(s, ind[k])
  OBVIOUS
<1> HIDE DEF step, n, op
<1>7. PICK g : FoldTable(g, n, T, base, step)
  BY <1>1, <1>3, <1>5, FoldIsDefined
<1>8. Fold(g)
  <2>1. ASSUME NEW s \in SUBSET (1 .. n)
        PROVE  g[s] = IF s = {} THEN base ELSE op(g[s \ {Max(s)}], ind[Max(s)])
    <3>1. s # {} => Max(s) \in 1 .. n /\ s \ {Max(s)} \in SUBSET (1 .. n)
      BY <1>1, MaxOfIndexes
    <3> QED
      BY <1>6, <1>7, <3>1 DEF FoldTable
  <2> QED
    BY <1>1, <1>7, <2>1 DEF FoldTable
<1>9. Fold(iter)
  <2> HIDE DEF Fold
  <2> QED
    BY <1>8
<1> HIDE DEF iter
<1>10. iter[{}] = base
  BY <1>9
<1>11. FoldRun(iter, n, T, base, step)
  <2>1. ASSUME NEW s \in SUBSET (1 .. n), s # {}, iter[s \ {Max(s)}] \in T
        PROVE  iter[s] = step[<<Max(s), iter[s \ {Max(s)}]>>]
    <3>1. Max(s) \in 1 .. n
      BY <1>1, <2>1, MaxOfIndexes
    <3>2. iter[s] = op(iter[s \ {Max(s)}], ind[Max(s)])
      BY <1>1, <1>9, <2>1
    <3> QED
      BY <1>6, <2>1, <3>1, <3>2
  <2> QED
    BY <1>10, <2>1 DEF FoldRun
<1>12. PICK h : FoldSteps(h, n, T, base, step, value)
  BY <1>1, <1>2, <1>3, <1>5, <1>11, FoldAdvances
<1>13. value \in T
  BY <1>1, <1>12 DEF FoldSteps
<1> QED
  BY <1>13 DEF value, T

\* The log m is the log l and entries of request r.
Adds(m, l, r, t) == \E w \in Seq(NewEntries(r, t)) : m = l \o w

LEMMA RequestIsMaterialized ==
  ASSUME NEW r \in Requests, NEW t \in Nat, NEW iv \in Seq(Worked), NEW l,
         \A i \in DOMAIN iv : iv[i].start < iv[i].end /\ iv[i].end <= t
  PROVE  Adds(materializeRequest(l, r, iv), l, r, t)
<1> DEFINE w == StableByTime(eventsWritten(r, iv))
<1>1. eventsWritten(r, iv) \in Seq(NewEntries(r, t))
  BY WrittenAreEntries
<1>2. Timed(NewEntries(r, t))
  BY DEF Timed, NewEntries, Entry
<1>3. w \in Seq(NewEntries(r, t))
  BY <1>1, <1>2, StableByTimeArranges
<1>4. materializeRequest(l, r, iv) = l \o w
  BY Zenon DEF materializeRequest
<1> QED
  BY <1>3, <1>4 DEF Adds

-----------------------------------------------------------------------------
(* A log that grows.                                                       *)

\* The log up to time t: a void carries the time of its event, which a request
\* of its own made, any other correction names a kind, and what is not a
\* correction is not ahead.
LogIs(l, t) ==
  /\ IsLog(l)
  /\ \A i \in DOMAIN l :
       /\ l[i].void => /\ l[i].kind = "correction" /\ l[i].at = l[l[i].corrects].at
                       /\ l[i].req \in Requests
       /\ (l[i].kind = "correction" /\ ~l[i].void) => l[i].to \in WorkKinds
       /\ l[i].kind # "correction" => l[i].at <= t

\* An entry that may follow the log.
MayFollow(l, t, x) ==
  /\ x \in Entry
  /\ \/ x.kind # "correction" /\ x.corrects = 0 /\ ~x.void /\ x.at <= t
     \/ /\ x.kind = "correction" /\ x.corrects \in DOMAIN l /\ l[x.corrects].kind # "correction"
        /\ x.void => x.at = l[x.corrects].at /\ x.req \in Requests
        /\ ~x.void => x.to \in WorkKinds

Grows(l, m) == m \in Seq(Entry) /\ Len(l) <= Len(m) /\ \A i \in DOMAIN l : m[i] = l[i]
NewIn(l, m) == DOMAIN m \ DOMAIN l

LEMMA GrowsNew ==
  ASSUME NEW l \in Seq(Entry), NEW m, Grows(l, m)
  PROVE  /\ DOMAIN l \subseteq DOMAIN m /\ DOMAIN m = DOMAIN l \union NewIn(l, m)
         /\ \A i \in DOMAIN l : \A j \in NewIn(l, m) : i < j
         /\ \A i \in DOMAIN m : i \in Nat /\ i > 0 /\ m[i] \in Entry
         /\ Len(l) \in Nat /\ Len(m) \in Nat /\ DOMAIN l = 1 .. Len(l) /\ DOMAIN m = 1 .. Len(m)
         /\ NewIn(l, m) = Len(l) + 1 .. Len(m)
<1>1. /\ Len(l) \in Nat /\ DOMAIN l = 1 .. Len(l) /\ m \in Seq(Entry) /\ Len(m) \in Nat
      /\ DOMAIN m = 1 .. Len(m) /\ Len(l) <= Len(m)
  BY DEF Grows
<1>2. \A i \in DOMAIN m : m[i] \in Entry
  BY <1>1
<1>3. NewIn(l, m) = Len(l) + 1 .. Len(m)
  BY <1>1 DEF NewIn
<1> QED
  BY <1>1, <1>2, <1>3

LEMMA LogIsGrown ==
  ASSUME NEW l, NEW t \in Int, NEW u \in Int, t <= u, LogIs(l, t), NEW m, Grows(l, m),
         \A i \in NewIn(l, m) : MayFollow(l, u, m[i])
  PROVE  LogIs(m, u)
<1>1. l \in Seq(Entry)
  BY DEF LogIs, IsLog
<1>2. /\ DOMAIN l \subseteq DOMAIN m /\ DOMAIN m = DOMAIN l \union NewIn(l, m)
      /\ \A i \in DOMAIN l : \A j \in NewIn(l, m) : i < j
      /\ \A i \in DOMAIN m : i \in Nat /\ i > 0 /\ m[i] \in Entry
      /\ DOMAIN l = 1 .. Len(l)
  BY <1>1, GrowsNew
<1>3. ASSUME NEW i \in DOMAIN l
      PROVE  /\ m[i].kind = "correction" <=> m[i].corrects > 0
             /\ m[i].corrects < i
             /\ m[i].corrects > 0 => m[m[i].corrects].kind # "correction"
             /\ m[i].void => m[i].kind = "correction" /\ m[i].at = m[m[i].corrects].at
                             /\ m[i].req \in Requests
             /\ (m[i].kind = "correction" /\ ~m[i].void) => m[i].to \in WorkKinds
             /\ m[i].kind # "correction" => m[i].at <= u
  <2>1. m[i] = l[i] /\ l[i].corrects \in Nat /\ l[i].at \in Nat
    BY <1>2 DEF Grows, Entry
  <2>2. /\ l[i].kind = "correction" <=> l[i].corrects > 0
        /\ l[i].corrects < i
        /\ l[i].corrects > 0 => l[l[i].corrects].kind # "correction"
        /\ l[i].void => l[i].kind = "correction" /\ l[i].at = l[l[i].corrects].at
                        /\ l[i].req \in Requests
        /\ (l[i].kind = "correction" /\ ~l[i].void) => l[i].to \in WorkKinds
        /\ l[i].kind # "correction" => l[i].at <= t
    BY DEF LogIs, IsLog
  <2>3. l[i].corrects > 0 => l[i].corrects \in DOMAIN l
    BY <1>2, <2>1, <2>2
  <2>4. l[i].corrects > 0 => m[l[i].corrects] = l[l[i].corrects]
    BY <2>3 DEF Grows
  <2> QED
    BY <2>1, <2>2, <2>4
<1>4. ASSUME NEW i \in NewIn(l, m)
      PROVE  /\ m[i].kind = "correction" <=> m[i].corrects > 0
             /\ m[i].corrects < i
             /\ m[i].corrects > 0 => m[m[i].corrects].kind # "correction"
             /\ m[i].void => m[i].kind = "correction" /\ m[i].at = m[m[i].corrects].at
                             /\ m[i].req \in Requests
             /\ (m[i].kind = "correction" /\ ~m[i].void) => m[i].to \in WorkKinds
             /\ m[i].kind # "correction" => m[i].at <= u
  <2>1. MayFollow(l, u, m[i])
    BY <1>4
  <2>2. m[i].corrects \in DOMAIN l => m[m[i].corrects] = l[m[i].corrects]
    BY DEF Grows
  <2>3. m[i].corrects \in DOMAIN l => m[i].corrects < i /\ m[i].corrects > 0
    BY <1>2
  <2>4. i > 0 /\ i \in Nat
    BY <1>2
  <2> QED
    BY <2>1, <2>2, <2>3, <2>4 DEF MayFollow
<1>5. m \in Seq(Entry)
  BY DEF Grows
<1>6. IsLog(m)
  BY <1>2, <1>3, <1>4, <1>5 DEF IsLog
<1> QED
  BY <1>2, <1>3, <1>4, <1>6 DEF LogIs

\* Event e was restored between two positions, or moved back before one.
Restored(l, e, i, j) == \E k \in DOMAIN l : i < k /\ k < j /\ l[k].corrects = e /\ ~l[k].void
Moved(l, e, i) == \E k \in DOMAIN l : k < i /\ l[k].corrects = e /\ ~l[k].void /\ l[k].at < l[e].at
VoidsOnce(l) ==
  \A i, j \in DOMAIN l :
    (i < j /\ l[i].void /\ l[j].void /\ l[i].corrects = l[j].corrects) =>
      Restored(l, l[i].corrects, i, j) \/ Moved(l, l[i].corrects, i)

\* The voids that follow: each of its own event, which none before them voided
\* unless it was restored since, or moved back.
VoidsMayFollow(l, m) ==
  /\ \A i, j \in NewIn(l, m) : (m[i].void /\ m[j].void /\ m[i].corrects = m[j].corrects) => i = j
  /\ \A i \in DOMAIN l, j \in NewIn(l, m) :
       (l[i].void /\ m[j].void /\ l[i].corrects = m[j].corrects) =>
         Restored(l, l[i].corrects, i, Len(l) + 1) \/ Moved(l, l[i].corrects, i)

LEMMA VoidsOnceGrown ==
  ASSUME NEW l, NEW t, LogIs(l, t), VoidsOnce(l), NEW m, Grows(l, m), VoidsMayFollow(l, m)
  PROVE  VoidsOnce(m)
<1>1. l \in Seq(Entry)
  BY DEF LogIs, IsLog
<1>2. /\ DOMAIN l \subseteq DOMAIN m /\ DOMAIN m = DOMAIN l \union NewIn(l, m)
      /\ \A i \in DOMAIN l : \A j \in NewIn(l, m) : i < j
      /\ \A i \in DOMAIN m : i \in Nat /\ i > 0 /\ m[i] \in Entry
      /\ DOMAIN l = 1 .. Len(l) /\ Len(l) \in Nat
      /\ \A i \in DOMAIN l : m[i] = l[i]
  BY <1>1, GrowsNew DEF Grows
<1> SUFFICES ASSUME NEW i \in DOMAIN m, NEW j \in DOMAIN m, i < j, m[i].void, m[j].void,
                    m[i].corrects = m[j].corrects
             PROVE  Restored(m, m[i].corrects, i, j) \/ Moved(m, m[i].corrects, i)
  BY DEF VoidsOnce
<1>3. i \in DOMAIN l
  <2>1. CASE i \in NewIn(l, m) /\ j \in NewIn(l, m)
    BY <1>2, <2>1 DEF VoidsMayFollow
  <2>2. CASE i \in NewIn(l, m) /\ j \in DOMAIN l
    BY <1>2, <2>2
  <2> QED
    BY <1>2, <2>1, <2>2
<1> DEFINE e == l[i].corrects
<1>4. m[i] = l[i] /\ e \in DOMAIN l /\ m[e] = l[e]
  <2>1. m[i] = l[i] /\ l[i].void /\ l[i] \in Entry
    BY <1>2, <1>3
  <2>2. l[i].kind = "correction" /\ l[i].corrects > 0 /\ l[i].corrects < i
    BY <1>3, <2>1 DEF LogIs, IsLog
  <2>3. e \in Nat
    BY <2>1 DEF Entry
  <2>4. e \in DOMAIN l
    BY <1>2, <1>3, <2>2, <2>3
  <2> QED
    BY <1>2, <2>1, <2>4
<1>5. Moved(l, e, i) => Moved(m, e, i)
  BY <1>2, <1>4 DEF Moved
<1>6. CASE j \in DOMAIN l
  <2>1. m[j] = l[j]
    BY <1>2, <1>6
  <2>2. Restored(l, e, i, j) \/ Moved(l, e, i)
    BY <1>3, <1>4, <1>6, <2>1 DEF VoidsOnce
  <2>3. Restored(l, e, i, j) => Restored(m, e, i, j)
    BY <1>2 DEF Restored
  <2> QED
    BY <1>4, <1>5, <2>2, <2>3
<1>7. CASE j \in NewIn(l, m)
  <2>1. Restored(l, e, i, Len(l) + 1) \/ Moved(l, e, i)
    BY <1>3, <1>4, <1>7 DEF VoidsMayFollow
  <2>2. \A k \in DOMAIN l : k < j
    BY <1>2, <1>7
  <2>3. Restored(l, e, i, Len(l) + 1) => Restored(m, e, i, j)
    BY <1>2, <2>2 DEF Restored
  <2> QED
    BY <1>4, <1>5, <2>1, <2>3
<1> QED
  BY <1>2, <1>6, <1>7

-----------------------------------------------------------------------------
(* What an approved request writes.                                        *)

\* What a request that was made holds: intervals that are over, and the
\* positions of events, each once.
IsMade(q, l, t) ==
  /\ q.type \in {"addition", "replacement"} /\ q.day \in Days /\ q.intervals \in Seq(Worked)
  /\ q.targets \in Seq(Nat)
  /\ \A i \in DOMAIN q.intervals : q.intervals[i].start < q.intervals[i].end
                                   /\ q.intervals[i].end <= t
  /\ \A k \in DOMAIN q.targets : q.targets[k] \in DOMAIN l /\ l[q.targets[k]].kind # "correction"
  /\ \A j, k \in DOMAIN q.targets : q.targets[j] = q.targets[k] => j = k
  /\ q.type = "addition" => q.targets = <<>>

\* The entry by which request r voids event e.
IsVoidOf(x, l, r, e) ==
  /\ x \in Entry /\ x.kind = "correction" /\ x.void /\ x.corrects = e /\ x.at = l[e].at
  /\ x.req = r

\* The log m is the log l with what request r stands for.
Writes(r, q, l, m, t) ==
  /\ Grows(l, m)
  /\ \A i \in NewIn(l, m) :
       \/ m[i] \in NewEntries(r, t)
       \/ \E k \in DOMAIN q.targets : i = Len(l) + k /\ IsVoidOf(m[i], l, r, q.targets[k])
  /\ \A k \in DOMAIN q.targets :
       Len(l) + k \in NewIn(l, m) /\ IsVoidOf(m[Len(l) + k], l, r, q.targets[k])

\* One sequence after another.
LEMMA Concatenated ==
  ASSUME NEW T, NEW a \in Seq(T), NEW b \in Seq(T)
  PROVE  /\ a \o b \in Seq(T) /\ Len(a \o b) = Len(a) + Len(b)
         /\ Len(a) \in Nat /\ Len(b) \in Nat
         /\ DOMAIN (a \o b) = 1 .. Len(a) + Len(b)
         /\ \A i \in 1 .. Len(a) : (a \o b)[i] = a[i]
         /\ \A i \in Len(a) + 1 .. Len(a) + Len(b) : (a \o b)[i] = b[i - Len(a)]
  OBVIOUS

LEMMA MaterializedWrites ==
  ASSUME NEW r \in Requests, now \in Nat, LogIs(log, now), NEW q, IsMade(q, log, now)
  PROVE  Writes(r, q, log, Materialized(r, q), now)
<1> DEFINE E == NewEntries(r, now)
           n == Len(log)
           iv == q.intervals
           k1 == Len(q.targets)
           void(i) == CorrectionEvent(q.targets[i], "none", log[q.targets[i]].at, TRUE, r)
           voids == [i \in 1 .. Len(q.targets) |-> void(i)]
<1>1. log \in Seq(Entry) /\ n \in Nat /\ DOMAIN log = 1 .. n /\ \A i \in 1 .. n : log[i] \in Entry
  <2>1. log \in Seq(Entry)
    BY DEF LogIs, IsLog
  <2> QED
    BY <2>1
<1>2. E \subseteq Entry
  BY DEF NewEntries
<1>3. q.targets \in Seq(Nat) /\ DOMAIN q.targets = 1 .. k1 /\ k1 \in Nat
  BY DEF IsMade
<1>4. ASSUME NEW l
      PROVE  \E w \in Seq(E) : materializeRequest(l, r, iv) = l \o w
  <2>1. iv \in Seq(Worked) /\ \A i \in DOMAIN iv : iv[i].start < iv[i].end /\ iv[i].end <= now
    BY DEF IsMade
  <2> HIDE DEF iv
  <2>2. Adds(materializeRequest(l, r, iv), l, r, now)
    BY <2>1, RequestIsMaterialized
  <2> QED
    BY <2>2 DEF Adds
<1> HIDE DEF E, n, iv
<1>5. CASE q.type = "addition"
  <2>1. Materialized(r, q) = materializeRequest(log, r, iv)
    BY <1>5 DEF Materialized, iv
  <2>2. PICK w \in Seq(E) : Materialized(r, q) = log \o w
    BY <1>4, <2>1
  <2> DEFINE m == log \o w
  <2>3. /\ m \in Seq(Entry) /\ Len(m) = n + Len(w) /\ DOMAIN m = 1 .. n + Len(w) /\ Len(w) \in Nat
        /\ \A i \in 1 .. n : m[i] = log[i]
        /\ \A i \in n + 1 .. n + Len(w) : m[i] \in E
    <3>1. w \in Seq(Entry)
      BY <1>2
    <3>2. \A i \in n + 1 .. n + Len(w) : i - n \in 1 .. Len(w)
      BY <1>1
    <3>3. \A i \in n + 1 .. n + Len(w) : m[i] = w[i - n]
      BY <1>1, <3>1 DEF n
    <3>4. \A i \in 1 .. Len(w) : w[i] \in E
      OBVIOUS
    <3>5. m \in Seq(Entry) /\ Len(m) = n + Len(w) /\ DOMAIN m = 1 .. n + Len(w) /\ Len(w) \in Nat
          /\ \A i \in 1 .. n : m[i] = log[i]
      BY <1>1, <3>1 DEF n
    <3> QED
      BY <3>2, <3>3, <3>4, <3>5
  <2> HIDE DEF m
  <2>4. Grows(log, m)
    BY <1>1, <2>3 DEF Grows, n
  <2>5. \A i \in NewIn(log, m) : m[i] \in E
    BY <1>1, <2>3 DEF NewIn
  <2>6. DOMAIN q.targets = {}
    BY <1>5 DEF IsMade
  <2>7. Writes(r, q, log, m, now)
    BY <2>4, <2>5, <2>6 DEF Writes, E
  <2> QED
    BY <2>2, <2>7 DEF m
<1>6. CASE q.type = "replacement"
  <2>1. Materialized(r, q) = materializeRequest(log \o voids, r, iv)
    BY <1>6 DEF Materialized, materializeReplacement, iv
  <2>2. ASSUME NEW k \in 1 .. k1
        PROVE  void(k) \in Entry /\ IsVoidOf(void(k), log, r, q.targets[k])
    <3>1. q.targets[k] \in 1 .. n /\ q.targets[k] \in Nat /\ log[q.targets[k]] \in Entry
      BY <1>1, <1>3 DEF IsMade
    <3> DEFINE a == log[q.targets[k]].at
               e == q.targets[k]
    <3>2. a \in Nat
      BY <3>1 DEF Entry
    <3>3. void(k) = [kind |-> "correction", at |-> a, paid |-> FALSE, to |-> "none", corrects |-> e,
                     void |-> TRUE, req |-> r]
      BY DEF CorrectionEvent
    <3>4. e \in Nat
      BY <3>1
    <3>6. a = log[e].at /\ e = q.targets[k]
      OBVIOUS
    <3> HIDE DEF a, e, void
    <3>5. void(k) \in Entry
      BY <3>2, <3>3, <3>4 DEF Entry, Kinds
    <3> QED
      BY <3>3, <3>5, <3>6 DEF IsVoidOf
  <2>3. voids \in Seq(Entry) /\ Len(voids) = k1 /\ \A k \in 1 .. k1 : voids[k] = void(k)
    <3> HIDE DEF void
    <3> QED
      BY <1>3, <2>2
  <2> HIDE DEF voids, void, k1
  <2>4. PICK w \in Seq(E) : Materialized(r, q) = (log \o voids) \o w
    BY <1>4, <2>1
  <2> DEFINE v == log \o voids
             m == v \o w
  <2>5. /\ v \in Seq(Entry) /\ Len(v) = n + k1
        /\ (\A i \in 1 .. n : v[i] = log[i]) /\ \A k \in 1 .. k1 : v[n + k] = voids[k]
    <3>1. \A k \in 1 .. k1 : n + k \in n + 1 .. n + k1 /\ (n + k) - n = k
      BY <1>1, <1>3
    <3>2. v \in Seq(Entry) /\ Len(v) = n + k1 /\ (\A i \in 1 .. n : v[i] = log[i])
          /\ \A i \in n + 1 .. n + k1 : v[i] = voids[i - n]
      BY <1>1, <2>3, Concatenated DEF n
    <3>3. \A k \in 1 .. k1 : v[n + k] = voids[(n + k) - n]
      BY <3>1, <3>2
    <3> QED
      BY <3>1, <3>2, <3>3
  <2> HIDE DEF v
  <2>6. /\ m \in Seq(Entry) /\ Len(m) = n + k1 + Len(w) /\ DOMAIN m = 1 .. n + k1 + Len(w)
        /\ Len(w) \in Nat
        /\ \A i \in 1 .. n + k1 : m[i] = v[i]
        /\ \A i \in n + k1 + 1 .. n + k1 + Len(w) : m[i] \in E
    <3>1. w \in Seq(Entry)
      BY <1>2
    <3>2. \A i \in n + k1 + 1 .. n + k1 + Len(w) : i - (n + k1) \in 1 .. Len(w)
      BY <1>1, <1>3
    <3>3. \A i \in n + k1 + 1 .. n + k1 + Len(w) : m[i] = w[i - (n + k1)]
      BY <2>5, <3>1, Concatenated
    <3>4. \A i \in 1 .. Len(w) : w[i] \in E
      OBVIOUS
    <3>5. m \in Seq(Entry) /\ Len(m) = n + k1 + Len(w) /\ DOMAIN m = 1 .. n + k1 + Len(w)
          /\ Len(w) \in Nat /\ \A i \in 1 .. n + k1 : m[i] = v[i]
      <4>1. /\ m \in Seq(Entry) /\ Len(m) = Len(v) + Len(w) /\ Len(w) \in Nat
            /\ DOMAIN m = 1 .. Len(v) + Len(w) /\ \A i \in 1 .. Len(v) : m[i] = v[i]
        BY <2>5, <3>1, Concatenated
      <4> QED
        BY <2>5, <4>1
    <3> QED
      BY <3>2, <3>3, <3>4, <3>5
  <2> HIDE DEF m
  <2>7. Grows(log, m)
    BY <1>1, <1>3, <2>5, <2>6 DEF Grows, n
  <2>8. ASSUME NEW k \in DOMAIN q.targets
        PROVE  n + k \in NewIn(log, m) /\ IsVoidOf(m[n + k], log, r, q.targets[k])
    <3>1. k \in 1 .. k1 /\ n + k \in 1 .. n + k1 /\ n + k \notin 1 .. n
          /\ n + k \in 1 .. n + k1 + Len(w)
      BY <1>1, <1>3, <2>6
    <3>2. m[n + k] = void(k)
      BY <2>3, <2>5, <2>6, <3>1
    <3> QED
      BY <1>1, <2>2, <2>6, <3>1, <3>2 DEF NewIn
  <2>9. ASSUME NEW i \in NewIn(log, m)
        PROVE  \/ m[i] \in E
               \/ \E k \in DOMAIN q.targets : i = n + k /\ IsVoidOf(m[i], log, r, q.targets[k])
    <3>1. i \in 1 .. n + k1 + Len(w) /\ i \notin 1 .. n
      BY <1>1, <2>6 DEF NewIn
    <3>2. CASE i <= n + k1
      <4>1. i - n \in DOMAIN q.targets /\ n + (i - n) = i
        BY <1>1, <1>3, <3>1, <3>2
      <4> QED
        BY <2>8, <4>1
    <3>3. CASE i > n + k1
      <4>1. i \in n + k1 + 1 .. n + k1 + Len(w)
        BY <1>1, <1>3, <3>1, <3>3
      <4> QED
        BY <2>6, <4>1
    <3> QED
      BY <1>1, <1>3, <3>1, <3>2, <3>3
  <2>10. Writes(r, q, log, m, now)
    BY <2>7, <2>8, <2>9 DEF Writes, E, n
  <2> QED
    BY <2>4, <2>10 DEF m, v
<1> QED
  BY <1>5, <1>6 DEF IsMade

\* So the log stays one, whatever else is in it.
LEMMA WritesKeepLog ==
  ASSUME NEW r \in Requests, NEW q, NEW l, NEW m, NEW t \in Nat, LogIs(l, t), VoidsOnce(l),
         IsMade(q, l, t), Writes(r, q, l, m, t),
         \A i \in DOMAIN l : (l[i].void /\ l[i].corrects \in Range(q.targets)) =>
           Restored(l, l[i].corrects, i, Len(l) + 1) \/ Moved(l, l[i].corrects, i)
  PROVE  /\ LogIs(m, t) /\ VoidsOnce(m)
         /\ \A i \in NewIn(l, m) : m[i].req = r
         /\ {m[i].corrects : i \in {j \in NewIn(l, m) : m[j].void}} = Range(q.targets)
<1>1. \A i \in NewIn(l, m) : MayFollow(l, t, m[i]) /\ m[i].req = r
  <2>1. SUFFICES ASSUME NEW i \in NewIn(l, m)
                 PROVE  MayFollow(l, t, m[i]) /\ m[i].req = r
    OBVIOUS
  <2>2. CASE m[i] \in NewEntries(r, t)
    BY <2>2 DEF NewEntries, MayFollow, WorkKinds
  <2>3. CASE \E k \in DOMAIN q.targets : i = Len(l) + k /\ IsVoidOf(m[i], l, r, q.targets[k])
    BY <2>3 DEF IsVoidOf, MayFollow, IsMade
  <2> QED
    BY <2>2, <2>3 DEF Writes
<1>2. Grows(l, m)
  BY DEF Writes
<1>3. LogIs(m, t)
  BY <1>1, <1>2, LogIsGrown
<1>4. \A i \in NewIn(l, m) : m[i].void =>
        \E k \in DOMAIN q.targets : i = Len(l) + k /\ m[i].corrects = q.targets[k]
  BY DEF Writes, NewEntries, IsVoidOf
<1>5. VoidsMayFollow(l, m)
  <2>1. ASSUME NEW i \in NewIn(l, m), NEW j \in NewIn(l, m), m[i].void, m[j].void,
               m[i].corrects = m[j].corrects
        PROVE  i = j
    <3>1. PICK a \in DOMAIN q.targets : i = Len(l) + a /\ m[i].corrects = q.targets[a]
      BY <1>4, <2>1
    <3>2. PICK b \in DOMAIN q.targets : j = Len(l) + b /\ m[j].corrects = q.targets[b]
      BY <1>4, <2>1
    <3> QED
      BY <2>1, <3>1, <3>2 DEF IsMade
  <2>2. \A j \in NewIn(l, m) : m[j].void => m[j].corrects \in Range(q.targets)
    BY <1>4 DEF Range
  <2> QED
    BY <2>1, <2>2 DEF VoidsMayFollow
<1>6. VoidsOnce(m)
  BY <1>2, <1>5, VoidsOnceGrown
<1>7. {m[i].corrects : i \in {j \in NewIn(l, m) : m[j].void}} = Range(q.targets)
  <2>1. \A k \in DOMAIN q.targets : Len(l) + k \in {j \in NewIn(l, m) : m[j].void}
                                     /\ m[Len(l) + k].corrects = q.targets[k]
    BY DEF Writes, IsVoidOf
  <2>2. \A i \in {j \in NewIn(l, m) : m[j].void} : \E k \in DOMAIN q.targets : m[i].corrects = q.targets[k]
    BY <1>4
  <2> QED
    BY <2>1, <2>2 DEF Range
<1> QED
  BY <1>1, <1>3, <1>6, <1>7

-----------------------------------------------------------------------------
(* The inductive invariant.                                                *)

CheckedRequests ==
  [stage : {"checked"}, type : {"addition", "replacement"}, day : Days,
   intervals : Seq(Worked), targets : Seq(Nat), fingerprint : Seq(Read), auto : BOOLEAN]
StoredRequests ==
  [stage : {"stored"}, status : {"pending", "approved", "rejected", "cancelled"},
   type : {"addition", "replacement"}, day : Days,
   intervals : Seq(Worked), targets : Seq(Nat), fingerprint : Seq(Read), auto : BOOLEAN]
RequestStates == [stage : {"none", "refused"}] \union CheckedRequests \union StoredRequests
CorrectionStates ==
  [stage : {"none"}]
    \union [stage : {"checked"}, event : Nat, kind : WorkKinds, at : Nat]
    \union [stage : {"stored"}, status : {"pending", "approved", "rejected"},
            event : Nat, kind : WorkKinds, at : Nat]
DeskStates ==
  [op : {"idle"}]
    \union [op : {"resolve", "apply"}, corr : Corrections, status : {"approved", "rejected"}]

Made(q) == q.stage = "checked" \/ q.stage = "stored"
VoidTargets(l, r) == {l[i].corrects : i \in {j \in DOMAIN l : l[j].req = r /\ l[j].void}}

\* A request wrote what it stands for when it was approved, and nothing before.
RequestOk(q, r, l, t) ==
  /\ Made(q) => IsMade(q, l, t)
  /\ ~(q.stage = "stored" /\ q.status = "approved") => \A i \in DOMAIN l : l[i].req # r
  /\ (q.stage = "stored" /\ q.status = "approved") => VoidTargets(l, r) = Range(q.targets)

RequestsInv ==
  /\ reqs \in [Requests -> RequestStates]
  /\ \A r \in Requests : RequestOk(reqs[r], r, log, now)

\* A correction is of an event, and was made once at most, after it was stored.
CorrectionOk(q, c, l) ==
  /\ q.stage # "none" => q.event \in DOMAIN l /\ l[q.event].kind # "correction"
  /\ q.stage # "stored" => \A i \in DOMAIN l : l[i].req # c
  /\ \A i, j \in DOMAIN l : (l[i].req = c /\ l[j].req = c) => i = j

DeskOn(s, c) == desk[s].op # "idle" /\ desk[s].corr = c
\* What one supervisor at a time decides about it is what happens.
Decides(c) ==
  /\ \A s \in Supervisors : DeskOn(s, c) =>
       corrs[c].status = IF desk[s].op = "resolve" THEN "pending" ELSE desk[s].status
  /\ \A s, t \in Supervisors : (DeskOn(s, c) /\ DeskOn(t, c)) => s = t
  /\ (\E i \in DOMAIN log : log[i].req = c) => corrs[c].status = "approved"

CorrectionsInv ==
  /\ corrs \in [Corrections -> CorrectionStates] /\ desk \in [Supervisors -> DeskStates]
  /\ \A c \in Corrections : CorrectionOk(corrs[c], c, log)
  /\ \A s \in Supervisors : desk[s].op # "idle" => corrs[desk[s].corr].stage = "stored"
  /\ \A c \in Corrections : {c} \notin beside => Decides(c)

LogInv ==
  /\ now \in 0 .. MaxTime /\ LogIs(log, now) /\ VoidsOnce(log)
  /\ RequestsInv /\ CorrectionsInv

-----------------------------------------------------------------------------
(* What a step of the log leaves as it was.                                *)

LEMMA StageOfRequest ==
  ASSUME NEW q \in RequestStates
  PROVE  /\ q.stage = "checked" => q \in CheckedRequests
         /\ q.stage = "stored" => q \in StoredRequests
BY DEF RequestStates, CheckedRequests, StoredRequests

LEMMA OtherRequestKept ==
  ASSUME NEW l, NEW t \in Int, LogIs(l, t), NEW m, Grows(l, m), NEW u \in Int, t <= u,
         NEW q, NEW r, RequestOk(q, r, l, t), \A i \in NewIn(l, m) : m[i].req # r
  PROVE  RequestOk(q, r, m, u)
<1>1. l \in Seq(Entry)
  BY DEF LogIs, IsLog
<1>2. /\ DOMAIN l \subseteq DOMAIN m /\ DOMAIN m = DOMAIN l \union NewIn(l, m)
      /\ \A i \in DOMAIN l : m[i] = l[i]
  BY <1>1, GrowsNew DEF Grows
<1>3. Made(q) => IsMade(q, m, u)
  <2>1. ASSUME IsMade(q, l, t)
        PROVE  IsMade(q, m, u)
    <3>1. \A i \in DOMAIN q.intervals : q.intervals[i].end \in Int
      <4>1. \A i \in DOMAIN q.intervals : q.intervals[i] \in Worked
        BY <2>1 DEF IsMade
      <4> QED
        BY <4>1 DEF Worked
    <3>2. \A i \in DOMAIN q.intervals : q.intervals[i].end <= u
      BY <2>1, <3>1 DEF IsMade
    <3>3. \A k \in DOMAIN q.targets : q.targets[k] \in DOMAIN m /\ m[q.targets[k]].kind # "correction"
      BY <1>2, <2>1 DEF IsMade
    <3> QED
      BY <2>1, <3>2, <3>3 DEF IsMade
  <2> QED
    BY <2>1 DEF RequestOk
<1>4. \A i \in DOMAIN m : m[i].req = r => i \in DOMAIN l /\ l[i] = m[i]
  BY <1>2
<1>5. VoidTargets(m, r) = VoidTargets(l, r)
  BY <1>2, <1>4 DEF VoidTargets
<1> QED
  BY <1>3, <1>4, <1>5 DEF RequestOk

LEMMA OtherCorrectionKept ==
  ASSUME NEW l, NEW t, LogIs(l, t), NEW m, Grows(l, m), NEW q, NEW c, CorrectionOk(q, c, l),
         \A i \in NewIn(l, m) : m[i].req # c
  PROVE  /\ CorrectionOk(q, c, m)
         /\ (\E i \in DOMAIN m : m[i].req = c) => \E i \in DOMAIN l : l[i].req = c
<1>1. l \in Seq(Entry)
  BY DEF LogIs, IsLog
<1>2. /\ DOMAIN l \subseteq DOMAIN m /\ DOMAIN m = DOMAIN l \union NewIn(l, m)
      /\ \A i \in DOMAIN l : m[i] = l[i]
  BY <1>1, GrowsNew DEF Grows
<1>3. \A i \in DOMAIN m : m[i].req = c => i \in DOMAIN l /\ l[i] = m[i]
  BY <1>2
<1> QED
  BY <1>2, <1>3 DEF CorrectionOk

LEMMA NothingLater ==
  ASSUME NEW l \in Seq(Entry)
  PROVE  Grows(l, l) /\ NewIn(l, l) = {}
<1>1. Len(l) \in Int
  OBVIOUS
<1> QED
  BY <1>1 DEF Grows, NewIn

LEMMA CorrectionsKept ==
  ASSUME LogInv, Grows(log, log'), \A i \in NewIn(log, log') : log'[i].req \notin Corrections,
         corrs' = corrs, desk' = desk, beside \subseteq beside'
  PROVE  CorrectionsInv'
<1>1. /\ LogIs(log, now) /\ CorrectionsInv
  BY DEF LogInv
<1>2. ASSUME NEW c \in Corrections
      PROVE  /\ CorrectionOk(corrs[c], c, log')
             /\ (\E i \in DOMAIN log' : log'[i].req = c) => \E i \in DOMAIN log : log[i].req = c
  <2>1. CorrectionOk(corrs[c], c, log) /\ \A i \in NewIn(log, log') : log'[i].req # c
    BY <1>1 DEF CorrectionsInv
  <2> QED
    BY <1>1, <2>1, OtherCorrectionKept
<1>3. ASSUME NEW c \in Corrections, {c} \notin beside'
      PROVE  Decides(c)'
  <2>1. {c} \notin beside
    BY <1>3
  <2>2. Decides(c)
    BY <1>1, <2>1 DEF CorrectionsInv
  <2> QED
    BY <1>2, <2>2 DEF Decides, DeskOn
<1> QED
  BY <1>1, <1>2, <1>3 DEF CorrectionsInv

LEMMA RequestsKept ==
  ASSUME LogInv, Grows(log, log'), now' \in Int, now <= now', NEW r \in Requests,
         \A i \in NewIn(log, log') : log'[i].req = r \/ log'[i].req \notin Requests,
         NEW q \in RequestStates, reqs' = [reqs EXCEPT ![r] = q], RequestOk(q, r, log', now')
  PROVE  RequestsInv'
<1>1. LogIs(log, now) /\ RequestsInv /\ now \in Int
  BY DEF LogInv
<1>2. reqs' \in [Requests -> RequestStates] /\ reqs'[r] = q
      /\ \A s \in Requests : s # r => reqs'[s] = reqs[s]
  BY <1>1 DEF RequestsInv
<1>3. ASSUME NEW s \in Requests
      PROVE  RequestOk(reqs'[s], s, log', now')
  <2>1. CASE s = r
    BY <1>2, <2>1
  <2>2. CASE s # r
    <3>1. RequestOk(reqs[s], s, log, now) /\ \A i \in NewIn(log, log') : log'[i].req # s
      BY <1>1, <2>2 DEF RequestsInv
    <3>2. RequestOk(reqs[s], s, log', now')
      BY <1>1, <3>1, OtherRequestKept
    <3> QED
      BY <1>2, <2>2, <3>2
  <2> QED
    BY <2>1, <2>2
<1> QED
  BY <1>2, <1>3 DEF RequestsInv

LEMMA AllRequestsKept ==
  ASSUME LogInv, Grows(log, log'), now' \in Int, now <= now',
         \A i \in NewIn(log, log') : log'[i].req \notin Requests, reqs' = reqs
  PROVE  RequestsInv'
<1>1. LogIs(log, now) /\ RequestsInv /\ now \in Int
  BY DEF LogInv
<1>2. ASSUME NEW s \in Requests
      PROVE  RequestOk(reqs[s], s, log', now')
  <2>1. RequestOk(reqs[s], s, log, now) /\ \A i \in NewIn(log, log') : log'[i].req # s
    BY <1>1 DEF RequestsInv
  <2> QED
    BY <1>1, <2>1, OtherRequestKept
<1> QED
  BY <1>1, <1>2 DEF RequestsInv

\* An event that was voided, and is shown, was restored or moved back.
LEMMA VoidedAndShown ==
  ASSUME NEW l, NEW t, LogIs(l, t), NEW i \in DOMAIN l, l[i].void, NEW until \in Int,
         NEW k \in DOMAIN effectiveEvents(l, until),
         effectiveEvents(l, until)[k].id = l[i].corrects
  PROVE  \/ Restored(l, l[i].corrects, i, Len(l) + 1)
         \/ Moved(l, l[i].corrects, i) /\ until + DayLen < l[i].at
<1>1. IsLog(l) /\ l[i].kind = "correction" /\ l[i].at = l[l[i].corrects].at /\ l \in Seq(Entry)
  BY DEF LogIs, IsLog
<1>2. CASE Restored(l, l[i].corrects, i, Len(l) + 1)
  BY <1>2
<1>3. CASE ~Restored(l, l[i].corrects, i, Len(l) + 1)
  <2>1. \A j \in DOMAIN l : j < Len(l) + 1
    BY <1>1
  <2>2. \A j \in DOMAIN l : ~(i < j /\ l[j].corrects = l[i].corrects /\ ~l[j].void)
    BY <1>3, <2>1 DEF Restored
  <2>3. /\ until + DayLen < l[i].at
        /\ \E c \in DOMAIN l : c < i /\ l[c].corrects = l[i].corrects /\ ~l[c].void
                               /\ l[c].at < l[l[i].corrects].at
    BY <1>1, <2>2, VoidedIsLeftOut
  <2> QED
    BY <2>3 DEF Moved
<1> QED
  BY <1>2, <1>3

-----------------------------------------------------------------------------
(* The steps of a request keep the invariant.                              *)

LEMMA LogInvInit ==
  ASSUME NEW start \in 0 .. MaxTime, TimesheetInit(start)
  PROVE  LogInv
<1>1. log = <<>> /\ DOMAIN log = {} /\ log \in Seq(Entry) /\ now \in 0 .. MaxTime
  BY DEF TimesheetInit
<1>2. LogIs(log, now) /\ VoidsOnce(log)
  BY <1>1 DEF LogIs, IsLog, VoidsOnce
<1>3. RequestsInv
  <2>1. [stage |-> "none"] \in RequestStates
    BY DEF RequestStates
  <2>2. reqs \in [Requests -> RequestStates] /\ \A r \in Requests : reqs[r].stage = "none"
    BY <2>1 DEF TimesheetInit, NoRequest
  <2> QED
    BY <1>1, <2>2 DEF RequestsInv, RequestOk, Made
<1>4. CorrectionsInv
  <2>1. [stage |-> "none"] \in CorrectionStates /\ [op |-> "idle"] \in DeskStates
    BY DEF CorrectionStates, DeskStates
  <2>2. corrs \in [Corrections -> CorrectionStates] /\ desk \in [Supervisors -> DeskStates]
        /\ (\A c \in Corrections : corrs[c].stage = "none")
        /\ \A s \in Supervisors : desk[s].op = "idle"
    BY <2>1 DEF TimesheetInit, NoCorrection, Idle
  <2> QED
    BY <1>1, <2>2 DEF CorrectionsInv, CorrectionOk, Decides, DeskOn
<1> QED
  BY <1>1, <1>2, <1>3, <1>4 DEF LogInv

\* A request is answered and the log stays.
LEMMA RepliesKeep ==
  ASSUME LogInv, NEW r \in Requests, NEW q \in RequestStates, Replies(r, q), log' = log,
         beside \subseteq beside', RequestOk(q, r, log, now)
  PROVE  LogInv'
<1>1. log \in Seq(Entry) /\ now \in Int
  BY DEF LogInv, LogIs, IsLog
<1>2. /\ reqs' = [reqs EXCEPT ![r] = q] /\ now' = now /\ corrs' = corrs /\ desk' = desk
  BY DEF Replies
<1>3. Grows(log, log') /\ NewIn(log, log') = {}
  BY <1>1, NothingLater
<1>4. RequestOk(q, r, log', now')
  BY <1>2
<1>5. RequestsInv'
  <2>1. now' \in Int /\ now <= now' /\ reqs' = [reqs EXCEPT ![r] = q]
    BY <1>1, <1>2
  <2>2. \A i \in NewIn(log, log') : log'[i].req = r \/ log'[i].req \notin Requests
    BY <1>3
  <2> QED
    BY <1>3, <1>4, <2>1, <2>2, RequestsKept
<1>6. CorrectionsInv'
  BY <1>2, <1>3, CorrectionsKept
<1> QED
  BY <1>2, <1>5, <1>6 DEF LogInv

\* A request is approved and what it stands for is written.
LEMMA ApprovalKeeps ==
  ASSUME LogInv, NEW r \in Requests, Made(reqs[r]),
         ~(reqs[r].stage = "stored" /\ reqs[r].status = "approved"),
         reqs[r].type = "replacement" => DayUnchanged(reqs[r]),
         log' = Materialized(r, reqs[r]), beside \subseteq beside',
         NEW q \in StoredRequests, Replies(r, q), q.status = "approved", q.type = reqs[r].type,
         q.day = reqs[r].day, q.intervals = reqs[r].intervals, q.targets = reqs[r].targets
  PROVE  LogInv'
<1> DEFINE p == reqs[r]
<1>1. /\ now \in Nat /\ LogIs(log, now) /\ VoidsOnce(log) /\ RequestOk(p, r, log, now)
      /\ log \in Seq(Entry) /\ IsLog(log)
  BY DEF LogInv, RequestsInv, LogIs, IsLog
<1>2. IsMade(p, log, now) /\ \A i \in DOMAIN log : log[i].req # r
  BY <1>1 DEF RequestOk
<1>3. ASSUME NEW i \in DOMAIN log, log[i].void, log[i].corrects \in Range(p.targets)
      PROVE  Restored(log, log[i].corrects, i, Len(log) + 1) \/ Moved(log, log[i].corrects, i)
  <2>1. CASE p.type = "addition"
    BY <1>2, <1>3, <2>1 DEF IsMade, Range
  <2>2. CASE p.type = "replacement"
    <3> DEFINE until == (p.day + 2) * DayLen
               events == effectiveEvents(log, until)
               ids == editableDays(events)[p.day].ids
    <3>1. p.day \in Days /\ p.day + 2 \in Nat
      BY <1>2 DEF IsMade, Days
    <3>2. until \in Int
      BY <3>1, DayBegins
    <3>3. AreReads(log, events)
      <4> HIDE DEF until
      <4> QED
        BY <1>1, EffectiveEvents DEF AreEffective
    <3>4. Range(ids) = Range(p.targets)
      BY <2>2 DEF DayUnchanged, editableDayState
    <3> HIDE DEF until, events
    <3>5. DayIsOf(ids, events, Len(events))
      BY <3>1, <3>3, EditableIds
    <3> HIDE DEF ids
    <3>6. PICK j \in DOMAIN ids : ids[j] = log[i].corrects
      BY <1>3, <3>4 DEF Range
    <3>7. PICK k \in DOMAIN events : events[k].id = log[i].corrects
      <4>1. DOMAIN events = 1 .. Len(events)
        BY <3>3 DEF AreReads
      <4> QED
        BY <3>5, <3>6, <4>1 DEF DayIsOf
    <3> QED
      BY <1>1, <1>3, <3>2, <3>7, VoidedAndShown DEF events
  <2> QED
    BY <1>2, <2>1, <2>2 DEF IsMade
<1>4. Writes(r, p, log, log', now)
  BY <1>1, <1>2, MaterializedWrites
<1>5. /\ LogIs(log', now) /\ VoidsOnce(log')
      /\ \A i \in NewIn(log, log') : log'[i].req = r
      /\ {log'[i].corrects : i \in {j \in NewIn(log, log') : log'[j].void}} = Range(p.targets)
  <2> HIDE DEF p
  <2> QED
    BY <1>1, <1>2, <1>3, <1>4, WritesKeepLog
<1>6. /\ Grows(log, log') /\ DOMAIN log' = DOMAIN log \union NewIn(log, log')
      /\ \A i \in DOMAIN log : log'[i] = log[i]
  BY <1>1, <1>4, GrowsNew DEF Writes, Grows
<1>7. /\ reqs' = [reqs EXCEPT ![r] = q] /\ now' = now /\ corrs' = corrs /\ desk' = desk
  BY DEF Replies
<1>8. RequestOk(q, r, log', now')
  <2>1. q.stage = "stored"
    BY DEF StoredRequests
  <2>2. IsMade(q, log', now)
    BY <1>2, <1>6 DEF IsMade
  <2>3. \A i : (i \in DOMAIN log' /\ log'[i].req = r /\ log'[i].void) <=>
               (i \in NewIn(log, log') /\ log'[i].void)
    BY <1>2, <1>5, <1>6
  <2>4. VoidTargets(log', r) = Range(q.targets)
    BY <1>5, <2>3 DEF VoidTargets
  <2> QED
    BY <1>7, <2>1, <2>2, <2>4 DEF RequestOk
<1>9. RequestsInv'
  <2>1. q \in RequestStates
    BY DEF RequestStates
  <2>2. now' \in Int /\ now <= now' /\ reqs' = [reqs EXCEPT ![r] = q]
    BY <1>1, <1>7
  <2>3. \A i \in NewIn(log, log') : log'[i].req = r \/ log'[i].req \notin Requests
    BY <1>5
  <2> QED
    BY <1>6, <1>8, <2>1, <2>2, <2>3, RequestsKept
<1>10. CorrectionsInv'
  <2>1. \A i \in NewIn(log, log') : log'[i].req \notin Corrections
    BY <1>5, TimesheetAssumption
  <2> QED
    BY <1>6, <1>7, <2>1, CorrectionsKept
<1> QED
  BY <1>5, <1>7, <1>9, <1>10 DEF LogInv

LEMMA AdditionCheckKeeps ==
  ASSUME LogInv, NEW r \in Requests, NEW d \in Days, NEW draft \in Drafts,
         AdditionCheck(r, d, draft)
  PROVE  LogInv'
<1> DEFINE iv == Placed(draft, d)
           q == [stage |-> "checked", type |-> "addition", day |-> d, intervals |-> iv,
                 targets |-> <<>>, fingerprint |-> <<>>, auto |-> ~policy.addition]
<1>1. d \in Nat /\ draft \in Seq(Typed) /\ now \in Nat
  BY TimesheetAssumption DEF Days, LogInv
<1>2. iv \in Seq(Worked)
  BY <1>1, PlacedIsWorked
<1>3. \A i \in DOMAIN iv : iv[i].start < iv[i].end /\ iv[i].end <= now
  <2>1. normalizeIntervals(iv, d)
    BY DEF AdditionCheck
  <2> HIDE DEF iv
  <2> QED
    BY <1>1, <1>2, <2>1, NormalizedIsOver
<1>4. Replies(r, q) /\ log' = log /\ beside \subseteq beside' /\ reqs[r].stage = "none"
  BY DEF AdditionCheck
<1> HIDE DEF iv
<1>5. q \in CheckedRequests
  BY <1>2 DEF CheckedRequests
<1>6. IsMade(q, log, now)
  BY <1>2, <1>3 DEF IsMade
<1>7. \A i \in DOMAIN log : log[i].req # r
  BY <1>4 DEF LogInv, RequestsInv, RequestOk
<1>8. q.stage = "checked"
  OBVIOUS
<1> HIDE DEF q
<1>9. RequestOk(q, r, log, now)
  BY <1>6, <1>7, <1>8 DEF RequestOk
<1>10. q \in RequestStates
  BY <1>5 DEF RequestStates
<1> QED
  BY <1>4, <1>9, <1>10, RepliesKeep

LEMMA ReplacementCheckKeeps ==
  ASSUME LogInv, NEW r \in Requests, NEW d \in Days, NEW draft \in Drafts \union {<<>>},
         ReplacementCheck(r, d, draft)
  PROVE  LogInv'
<1> DEFINE iv == Placed(draft, d)
           day == editableDayState(log, d)
           until == (d + 2) * DayLen
           events == effectiveEvents(log, until)
           S == {k \in DOMAIN events : events[k].id \in Range(editableDays(events)[d].ids)}
           q == [stage |-> "checked", type |-> "replacement", day |-> d, intervals |-> iv,
                 targets |-> day.ids, fingerprint |-> day.fingerprint, auto |-> ~policy.correction]
<1>1. d \in Nat /\ d + 2 \in Nat /\ draft \in Seq(Typed) /\ now \in Nat /\ IsLog(log)
  <2>1. <<>> \in Seq(Typed)
    OBVIOUS
  <2>2. draft \in Seq(Typed)
    BY <2>1, TimesheetAssumption
  <2> QED
    BY <2>2, TimesheetAssumption DEF Days, LogInv, LogIs
<1>2. iv \in Seq(Worked)
  BY <1>1, PlacedIsWorked
<1>3. \A i \in DOMAIN iv : iv[i].start < iv[i].end /\ iv[i].end <= now
  <2>1. CASE iv = <<>>
    BY <2>1
  <2>2. CASE iv # <<>>
    <3>1. normalizeIntervals(iv, d)
      BY <2>2 DEF ReplacementCheck
    <3> HIDE DEF iv
    <3> QED
      BY <1>1, <1>2, <3>1, NormalizedIsOver
  <2> QED
    BY <2>1, <2>2
<1>4. Replies(r, q) /\ log' = log /\ beside \subseteq beside' /\ reqs[r].stage = "none"
  BY DEF ReplacementCheck
<1>5. AreReads(log, events)
  <2> HIDE DEF until
  <2> QED
    BY <1>1, EffectiveEvents DEF AreEffective
<1>6. day.ids = editableDays(events)[d].ids /\ day.fingerprint = Only(events, S)
  BY DEF editableDayState
<1> HIDE DEF iv, events, S, day
<1>7. DayIsOf(day.ids, events, Len(events))
  BY <1>5, <1>6, EditableIds
<1>8. day.fingerprint \in Seq(Read)
  <2>1. AreReads(log, Only(events, S))
    BY <1>5, OnlyOfReads
  <2> QED
    BY <1>6, <2>1 DEF AreReads
<1>9. /\ day.ids \in Seq(Nat)
      /\ \A k \in DOMAIN day.ids : day.ids[k] \in DOMAIN log /\ log[day.ids[k]].kind # "correction"
      /\ \A j, k \in DOMAIN day.ids : day.ids[j] = day.ids[k] => j = k
  <2>1. /\ DOMAIN events = 1 .. Len(events)
        /\ \A k \in DOMAIN events : events[k].id \in DOMAIN log
                                   /\ log[events[k].id].kind # "correction"
    BY <1>5 DEF AreReads
  <2> QED
    BY <1>7, <2>1 DEF DayIsOf
<1>10. q \in CheckedRequests
  BY <1>2, <1>8, <1>9 DEF CheckedRequests
<1>11. IsMade(q, log, now)
  BY <1>2, <1>3, <1>9 DEF IsMade
<1>12. \A i \in DOMAIN log : log[i].req # r
  BY <1>4 DEF LogInv, RequestsInv, RequestOk
<1>13. q.stage = "checked"
  OBVIOUS
<1> HIDE DEF q
<1>14. RequestOk(q, r, log, now)
  BY <1>11, <1>12, <1>13 DEF RequestOk
<1>15. q \in RequestStates
  BY <1>10 DEF RequestStates
<1> QED
  BY <1>4, <1>14, <1>15, RepliesKeep

LEMMA RequestSaveKeeps ==
  ASSUME LogInv, NEW r \in Requests, RequestSave(r)
  PROVE  LogInv'
<1> DEFINE q == reqs[r]
<1>1. /\ q.stage = "checked" /\ beside' = beside
      /\ \/ Replies(r, StoredAs(q, "pending")) /\ log' = log
         \/ Replies(r, [stage |-> "refused"]) /\ log' = log
         \/ /\ q.type = "replacement" => DayUnchanged(q)
            /\ Replies(r, StoredAs(q, "approved")) /\ log' = Materialized(r, q)
  BY DEF RequestSave
<1>2. q \in CheckedRequests /\ RequestOk(q, r, log, now)
  BY <1>1, StageOfRequest DEF LogInv, RequestsInv
<1>3. IsMade(q, log, now) /\ (\A i \in DOMAIN log : log[i].req # r) /\ Made(q)
  BY <1>1, <1>2 DEF RequestOk, Made
<1> HIDE DEF q
<1>4. ASSUME NEW status \in {"pending", "approved"}
      PROVE  /\ StoredAs(q, status) \in StoredRequests /\ StoredAs(q, status).status = status
             /\ StoredAs(q, status).stage = "stored"
             /\ StoredAs(q, status).type = q.type /\ StoredAs(q, status).day = q.day
             /\ StoredAs(q, status).intervals = q.intervals
             /\ StoredAs(q, status).targets = q.targets
  BY <1>2 DEF StoredAs, StoredRequests, CheckedRequests
<1>5. CASE Replies(r, StoredAs(q, "pending")) /\ log' = log
  <2> DEFINE p == StoredAs(q, "pending")
  <2>1. p \in StoredRequests /\ p.status = "pending" /\ p.stage = "stored" /\ p.type = q.type
        /\ p.day = q.day /\ p.intervals = q.intervals /\ p.targets = q.targets
    BY <1>4
  <2>2. Replies(r, p)
    BY <1>5
  <2> HIDE DEF p
  <2>3. IsMade(p, log, now)
    BY <1>3, <2>1 DEF IsMade
  <2>4. RequestOk(p, r, log, now)
    BY <1>3, <2>1, <2>3 DEF RequestOk
  <2>5. p \in RequestStates
    BY <2>1 DEF RequestStates
  <2> QED
    BY <1>1, <1>5, <2>2, <2>4, <2>5, RepliesKeep
<1>6. CASE Replies(r, [stage |-> "refused"]) /\ log' = log
  <2>1. [stage |-> "refused"] \in RequestStates
    BY DEF RequestStates
  <2>2. RequestOk([stage |-> "refused"], r, log, now)
    BY <1>3 DEF RequestOk, Made
  <2> QED
    BY <1>1, <1>6, <2>1, <2>2, RepliesKeep
<1>7. CASE /\ q.type = "replacement" => DayUnchanged(q)
           /\ Replies(r, StoredAs(q, "approved")) /\ log' = Materialized(r, q)
  <2> DEFINE p == StoredAs(q, "approved")
  <2>1. p \in StoredRequests /\ p.status = "approved" /\ p.type = q.type
        /\ p.day = q.day /\ p.intervals = q.intervals /\ p.targets = q.targets
    BY <1>4
  <2>2. Replies(r, p)
    BY <1>7
  <2> HIDE DEF p
  <2>3. q.stage = "checked" /\ beside \subseteq beside'
    BY <1>1
  <2> QED
    BY <1>3, <1>7, <2>1, <2>2, <2>3, ApprovalKeeps DEF q
<1> QED
  BY <1>1, <1>5, <1>6, <1>7

WithStatus(q, status) == [q EXCEPT !.status = status]

LEMMA StatusOfRequest ==
  ASSUME NEW q \in StoredRequests, NEW status \in {"pending", "approved", "rejected", "cancelled"}
  PROVE  LET p == WithStatus(q, status)
         IN /\ p \in StoredRequests /\ p.status = status /\ p.stage = "stored"
            /\ p.type = q.type /\ p.day = q.day /\ p.intervals = q.intervals
            /\ p.targets = q.targets
BY DEF StoredRequests, WithStatus

\* A request that is no longer pending, and was not approved.
LEMMA SettledKeeps ==
  ASSUME LogInv, NEW r \in Pending, NEW status \in {"rejected", "cancelled"},
         Replies(r, [reqs[r] EXCEPT !.status = status]), log' = log, beside' = beside
  PROVE  LogInv'
<1> DEFINE p == WithStatus(reqs[r], status)
<1>1. r \in Requests /\ reqs[r].stage = "stored" /\ reqs[r].status = "pending"
  BY DEF Pending, Stored
<1>2. reqs[r] \in StoredRequests /\ RequestOk(reqs[r], r, log, now)
  BY <1>1, StageOfRequest DEF LogInv, RequestsInv
<1>3. p \in StoredRequests /\ p.status = status /\ p.stage = "stored" /\ p.type = reqs[r].type
      /\ p.day = reqs[r].day /\ p.intervals = reqs[r].intervals /\ p.targets = reqs[r].targets
  BY <1>2, StatusOfRequest
<1> HIDE DEF p
<1>4. Replies(r, p)
  BY DEF p, WithStatus
<1>5. IsMade(reqs[r], log, now) /\ \A i \in DOMAIN log : log[i].req # r
  BY <1>1, <1>2 DEF RequestOk, Made
<1>6. RequestOk(p, r, log, now)
  <2>1. IsMade(p, log, now)
    BY <1>3, <1>5 DEF IsMade
  <2> QED
    BY <1>3, <1>5, <2>1 DEF RequestOk
<1>7. p \in RequestStates
  BY <1>3 DEF RequestStates
<1> QED
  BY <1>1, <1>4, <1>6, <1>7, RepliesKeep

LEMMA ResolveKeeps ==
  ASSUME LogInv, NEW r \in Requests, NEW status \in {"approved", "rejected"}, Resolve(r, status)
  PROVE  LogInv'
<1>1. r \in Pending /\ Replies(r, [reqs[r] EXCEPT !.status = status]) /\ beside' = beside
  BY DEF Resolve
<1>2. CASE status = "rejected"
  <2>1. log' = log
    BY <1>2 DEF Resolve
  <2> QED
    BY <1>1, <1>2, <2>1, SettledKeeps
<1>3. CASE status = "approved"
  <2> DEFINE x == reqs[r]
             p == WithStatus(x, status)
  <2>1. /\ log' = Materialized(r, reqs[r]) /\ Replies(r, p)
        /\ reqs[r].type = "replacement" => DayUnchanged(reqs[r])
    BY <1>1, <1>3 DEF Resolve, WithStatus
  <2>2. x.stage = "stored" /\ x.status = "pending" /\ Made(x)
    BY <1>1 DEF Pending, Stored, Made
  <2>3. x \in StoredRequests
    BY <2>2, StageOfRequest DEF LogInv, RequestsInv
  <2>4. x = reqs[r]
    OBVIOUS
  <2>5. p \in StoredRequests /\ p.status = status /\ p.stage = "stored"
        /\ p.type = x.type /\ p.day = x.day /\ p.intervals = x.intervals /\ p.targets = x.targets
    BY <2>3, StatusOfRequest
  <2> HIDE DEF x, p
  <2> QED
    BY <1>1, <1>3, <2>1, <2>2, <2>4, <2>5, ApprovalKeeps
<1> QED
  BY <1>2, <1>3

LEMMA CancelKeeps ==
  ASSUME LogInv, NEW r \in Requests, Cancel(r)
  PROVE  LogInv'
BY SettledKeeps DEF Cancel

-----------------------------------------------------------------------------
(* The steps of a correction, of a clocking and of the clock keep it.      *)

\* A correction that is asked for, or stored, but not decided.
LEMMA CorrectionMadeKeeps ==
  ASSUME LogInv, NEW c \in Corrections, NEW q \in CorrectionStates,
         corrs' = [corrs EXCEPT ![c] = q], CorrectionOk(q, c, log),
         \A i \in DOMAIN log : log[i].req # c, \A s \in Supervisors : ~DeskOn(s, c),
         now' = now, log' = log, reqs' = reqs, desk' = desk, beside' = beside
  PROVE  LogInv'
<1>1. CorrectionsInv
  BY DEF LogInv
<1>2. /\ corrs' \in [Corrections -> CorrectionStates] /\ corrs'[c] = q
      /\ \A x \in Corrections : x # c => corrs'[x] = corrs[x]
  BY <1>1 DEF CorrectionsInv
<1>3. \A x \in Corrections : CorrectionOk(corrs'[x], x, log)
  BY <1>1, <1>2 DEF CorrectionsInv
<1>4. \A s \in Supervisors : desk[s].op # "idle" => desk[s].corr # c
  BY DEF DeskOn
<1>5. \A s \in Supervisors : desk[s].op # "idle" => desk[s].corr \in Corrections
  BY <1>1 DEF CorrectionsInv, DeskStates
<1>6. \A s \in Supervisors : desk[s].op # "idle" => corrs'[desk[s].corr].stage = "stored"
  BY <1>1, <1>2, <1>4, <1>5 DEF CorrectionsInv
<1>7. ASSUME NEW x \in Corrections, {x} \notin beside
      PROVE  Decides(x)'
  <2>1. CASE x = c
    BY <2>1 DEF Decides, DeskOn
  <2>2. CASE x # c
    <3>1. Decides(x)
      BY <1>1, <1>7 DEF CorrectionsInv
    <3> QED
      BY <1>2, <2>2, <3>1 DEF Decides, DeskOn
  <2> QED
    BY <2>1, <2>2
<1>8. CorrectionsInv'
  BY <1>1, <1>2, <1>3, <1>6, <1>7 DEF CorrectionsInv
<1> QED
  BY <1>8 DEF LogInv, RequestsInv

LEMMA CorrectionCheckKeeps ==
  ASSUME LogInv, NEW c \in Corrections, NEW i \in DOMAIN log, NEW k \in CorrectedKinds,
         NEW t \in CorrectedTimes, CorrectionCheck(c, i, k, t)
  PROVE  LogInv'
<1> DEFINE q == [stage |-> "checked", event |-> i, kind |-> k, at |-> t]
<1>1. /\ corrs[c].stage = "none" /\ log[i].kind # "correction" /\ corrs' = [corrs EXCEPT ![c] = q]
      /\ now' = now /\ log' = log /\ reqs' = reqs /\ desk' = desk /\ beside' = beside
  BY DEF CorrectionCheck
<1>2. i \in Nat
  BY DEF LogInv, LogIs, IsLog
<1>3. q \in CorrectionStates
  BY <1>2, TimesheetAssumption DEF CorrectionStates
<1>4. CorrectionOk(corrs[c], c, log)
  BY DEF LogInv, CorrectionsInv
<1>5. \A j \in DOMAIN log : log[j].req # c
  BY <1>1, <1>4 DEF CorrectionOk
<1>6. CorrectionOk(q, c, log)
  BY <1>1, <1>4, <1>5 DEF CorrectionOk
<1>7. \A s \in Supervisors : ~DeskOn(s, c)
  BY <1>1 DEF LogInv, CorrectionsInv, DeskOn
<1> HIDE DEF q
<1> QED
  BY <1>1, <1>3, <1>5, <1>6, <1>7, CorrectionMadeKeeps

LEMMA CorrectionSaveKeeps ==
  ASSUME LogInv, NEW c \in Corrections, CorrectionSave(c)
  PROVE  LogInv'
<1> DEFINE p == corrs[c]
           q == [stage |-> "stored", status |-> "pending", event |-> p.event, kind |-> p.kind,
                 at |-> p.at]
<1>1. /\ p.stage = "checked" /\ corrs' = [corrs EXCEPT ![c] = q]
      /\ now' = now /\ log' = log /\ reqs' = reqs /\ desk' = desk /\ beside' = beside
  BY DEF CorrectionSave
<1>2. p \in CorrectionStates /\ CorrectionOk(p, c, log)
  BY DEF LogInv, CorrectionsInv
<1>3. q \in CorrectionStates
  BY <1>1, <1>2 DEF CorrectionStates
<1>5. \A j \in DOMAIN log : log[j].req # c
  BY <1>1, <1>2 DEF CorrectionOk
<1>6. CorrectionOk(q, c, log)
  BY <1>1, <1>2, <1>5 DEF CorrectionOk
<1>7. \A s \in Supervisors : ~DeskOn(s, c)
  BY <1>1 DEF LogInv, CorrectionsInv, DeskOn
<1> HIDE DEF q
<1> QED
  BY <1>1, <1>3, <1>5, <1>6, <1>7, CorrectionMadeKeeps

LEMMA CorrectionReadKeeps ==
  ASSUME LogInv, NEW s \in Supervisors, NEW c \in Corrections,
         NEW status \in {"approved", "rejected"}, CorrectionRead(s, c, status)
  PROVE  LogInv'
<1> DEFINE q == [op |-> "resolve", corr |-> c, status |-> status]
<1>1. /\ corrs[c].stage = "stored" /\ corrs[c].status = "pending" /\ desk[s].op = "idle"
      /\ desk' = [desk EXCEPT ![s] = q] /\ q \in DeskStates
      /\ q.op = "resolve" /\ q.corr = c
      /\ now' = now /\ log' = log /\ reqs' = reqs /\ corrs' = corrs
      /\ beside' = IF \E x \in Supervisors : DeskOn(x, c) THEN beside \union {{c}} ELSE beside
  BY DEF CorrectionRead, DeskStates, DeskOn
<1> HIDE DEF q
<1>2. CorrectionsInv
  BY DEF LogInv
<1>3. /\ desk' \in [Supervisors -> DeskStates] /\ desk'[s] = q
      /\ \A x \in Supervisors : x # s => desk'[x] = desk[x]
  BY <1>1, <1>2 DEF CorrectionsInv
<1>4. \A x \in Supervisors : desk'[x].op # "idle" => corrs[desk'[x].corr].stage = "stored"
  BY <1>1, <1>2, <1>3 DEF CorrectionsInv
<1>5. ASSUME NEW x \in Corrections, {x} \notin beside'
      PROVE  Decides(x)'
  <2>1. {x} \notin beside /\ Decides(x)
    BY <1>1, <1>2, <1>5 DEF CorrectionsInv
  <2>2. CASE x = c
    <3>1. \A y \in Supervisors : ~DeskOn(y, c)
      BY <1>1, <1>5, <2>2
    <3>2. \A y \in Supervisors : DeskOn(y, c)' => y = s
      BY <1>1, <1>3, <3>1 DEF DeskOn
    <3> QED
      BY <1>1, <1>3, <2>1, <2>2, <3>2 DEF Decides
  <2>3. CASE x # c
    <3>1. \A y \in Supervisors : DeskOn(y, x)' => y # s /\ DeskOn(y, x)
      BY <1>1, <1>3, <2>3 DEF DeskOn
    <3> QED
      BY <1>1, <1>3, <2>1, <3>1 DEF Decides
  <2> QED
    BY <2>2, <2>3
<1>6. CorrectionsInv'
  BY <1>1, <1>2, <1>3, <1>4, <1>5 DEF CorrectionsInv
<1> QED
  BY <1>1, <1>6 DEF LogInv, RequestsInv

LEMMA CorrectionResolveKeeps ==
  ASSUME LogInv, NEW s \in Supervisors, CorrectionResolve(s)
  PROVE  LogInv'
<1> DEFINE c == desk[s].corr
           st == desk[s].status
<1>1. CorrectionsInv /\ desk[s].op = "resolve"
  BY DEF LogInv, CorrectionResolve
<1>2. /\ c \in Corrections /\ corrs[c].stage = "stored" /\ st \in {"approved", "rejected"}
      /\ desk[s] \in [op : {"resolve", "apply"}, corr : Corrections,
                      status : {"approved", "rejected"}]
  BY <1>1 DEF CorrectionsInv, DeskStates
<1> DEFINE p == [corrs[c] EXCEPT !.status = st]
           q == [desk[s] EXCEPT !.op = "apply"]
<1>3. /\ corrs' = [corrs EXCEPT ![c] = p] /\ desk' = [desk EXCEPT ![s] = q]
      /\ now' = now /\ log' = log /\ reqs' = reqs /\ beside' = beside
  BY DEF CorrectionResolve
<1>4. /\ p \in CorrectionStates /\ p.stage = "stored" /\ p.status = st
      /\ p.event = corrs[c].event
  <2> DEFINE o == corrs[c]
  <2>1. o \in CorrectionStates /\ o.stage = "stored"
    BY <1>1, <1>2 DEF CorrectionsInv
  <2> HIDE DEF o, st
  <2>2. o \in [stage : {"stored"}, status : {"pending", "approved", "rejected"},
               event : Nat, kind : WorkKinds, at : Nat]
    BY <2>1 DEF CorrectionStates
  <2> DEFINE n == [o EXCEPT !.status = st]
  <2>3. n \in CorrectionStates /\ n.stage = "stored" /\ n.status = st /\ n.event = o.event
    BY <1>2, <2>2 DEF CorrectionStates
  <2> QED
    BY <2>3 DEF o
<1>5. q \in DeskStates /\ q.op = "apply" /\ q.corr = c /\ q.status = st
  BY <1>2 DEF DeskStates
<1> HIDE DEF p, q, c, st
<1>6. /\ corrs' \in [Corrections -> CorrectionStates] /\ corrs'[c] = p
      /\ \A x \in Corrections : x # c => corrs'[x] = corrs[x]
      /\ desk' \in [Supervisors -> DeskStates] /\ desk'[s] = q
      /\ \A x \in Supervisors : x # s => desk'[x] = desk[x]
  BY <1>1, <1>2, <1>3, <1>4, <1>5 DEF CorrectionsInv
<1>7. \A x \in Corrections : CorrectionOk(corrs'[x], x, log)
  <2>1. \A x \in Corrections : CorrectionOk(corrs[x], x, log)
    BY <1>1 DEF CorrectionsInv
  <2>2. CorrectionOk(corrs'[c], c, log)
    BY <1>2, <1>4, <1>6, <2>1 DEF CorrectionOk
  <2> QED
    BY <1>6, <2>1, <2>2
<1>8. \A x \in Supervisors : desk'[x].op # "idle" => corrs'[desk'[x].corr].stage = "stored"
  <2>1. \A x \in Supervisors : desk[x].op # "idle" =>
          desk[x].corr \in Corrections /\ corrs[desk[x].corr].stage = "stored"
    BY <1>1 DEF CorrectionsInv, DeskStates
  <2> QED
    BY <1>4, <1>5, <1>6, <2>1
<1>9. ASSUME NEW x \in Corrections, {x} \notin beside
      PROVE  Decides(x)'
  <2>1. Decides(x)
    BY <1>1, <1>9 DEF CorrectionsInv
  <2>2. \A y \in Supervisors : DeskOn(y, x)' <=> DeskOn(y, x)
    BY <1>1, <1>5, <1>6 DEF DeskOn, c
  <2>3. CASE x = c
    <3>1. DeskOn(s, c)
      BY <1>1 DEF DeskOn, c
    <3>2. \A y \in Supervisors : DeskOn(y, x)' => y = s
      BY <2>1, <2>2, <2>3, <3>1 DEF Decides
    <3>3. \A i \in DOMAIN log : log[i].req # c
      BY <1>1, <2>1, <2>3, <3>1 DEF Decides
    <3> QED
      BY <1>3, <1>4, <1>5, <1>6, <2>3, <3>2, <3>3 DEF Decides
  <2>4. CASE x # c
    <3>1. \A y \in Supervisors : DeskOn(y, x)' => y # s
      BY <1>5, <1>6, <2>4 DEF DeskOn
    <3> QED
      BY <1>3, <1>6, <2>1, <2>2, <2>4, <3>1 DEF Decides
  <2> QED
    BY <2>3, <2>4
<1>10. CorrectionsInv'
  BY <1>3, <1>6, <1>7, <1>8, <1>9 DEF CorrectionsInv
<1> QED
  BY <1>3, <1>10 DEF LogInv, RequestsInv

\* A supervisor's request is over, and what it leaves in the log is the
\* correction it decided, or nothing.
LEMMA DeskLeftKeeps ==
  ASSUME LogInv, NEW s \in Supervisors, desk' = [desk EXCEPT ![s] = Idle], corrs' = corrs,
         beside' = beside, reqs' = reqs, log' = log, now' = now
  PROVE  LogInv'
<1>1. CorrectionsInv
  BY DEF LogInv
<1>2. [op |-> "idle"] \in DeskStates
  BY DEF DeskStates
<1>3. /\ desk' \in [Supervisors -> DeskStates] /\ desk'[s].op = "idle"
      /\ \A x \in Supervisors : x # s => desk'[x] = desk[x]
  BY <1>1, <1>2 DEF CorrectionsInv, Idle
<1>4. \A x \in Supervisors : desk'[x].op # "idle" => corrs[desk'[x].corr].stage = "stored"
  BY <1>1, <1>3 DEF CorrectionsInv
<1>5. ASSUME NEW x \in Corrections, {x} \notin beside
      PROVE  Decides(x)'
  <2>1. Decides(x)
    BY <1>1, <1>5 DEF CorrectionsInv
  <2>2. \A y \in Supervisors : DeskOn(y, x)' => y # s /\ DeskOn(y, x)
    BY <1>3 DEF DeskOn
  <2> QED
    BY <1>3, <2>1, <2>2 DEF Decides
<1>6. CorrectionsInv'
  BY <1>1, <1>3, <1>4, <1>5 DEF CorrectionsInv
<1> QED
  BY <1>6 DEF LogInv, RequestsInv

\* One entry follows the log.
LEMMA OneMore ==
  ASSUME NEW l \in Seq(Entry), NEW x \in Entry
  PROVE  /\ Grows(l, Append(l, x)) /\ NewIn(l, Append(l, x)) = {Len(l) + 1}
         /\ Append(l, x)[Len(l) + 1] = x
         /\ DOMAIN Append(l, x) = DOMAIN l \union {Len(l) + 1} /\ Len(l) + 1 \notin DOMAIN l
<1>1. Len(l) \in Nat
  OBVIOUS
<1>2. Append(l, x) \in Seq(Entry) /\ DOMAIN l = 1 .. Len(l) /\ DOMAIN Append(l, x) = 1 .. Len(l) + 1
      /\ Len(Append(l, x)) = Len(l) + 1 /\ \A i \in 1 .. Len(l) : Append(l, x)[i] = l[i]
  OBVIOUS
<1>3. 1 .. Len(l) + 1 = 1 .. Len(l) \union {Len(l) + 1} /\ Len(l) + 1 \notin 1 .. Len(l)
  BY <1>1
<1> QED
  BY <1>1, <1>2, <1>3 DEF Grows, NewIn

LEMMA OneMoreKeepsLog ==
  ASSUME NEW l, NEW t \in Int, LogIs(l, t), VoidsOnce(l), NEW x \in Entry, MayFollow(l, t, x),
         ~x.void
  PROVE  LogIs(Append(l, x), t) /\ VoidsOnce(Append(l, x))
<1> DEFINE m == Append(l, x)
<1>1. l \in Seq(Entry)
  BY DEF LogIs, IsLog
<1>2. Grows(l, m) /\ NewIn(l, m) = {Len(l) + 1} /\ m[Len(l) + 1] = x
  BY <1>1, OneMore
<1> HIDE DEF m
<1>3. \A i \in NewIn(l, m) : MayFollow(l, t, m[i])
  BY <1>2
<1>4. LogIs(m, t)
  BY <1>2, <1>3, LogIsGrown
<1>5. VoidsMayFollow(l, m)
  BY <1>2 DEF VoidsMayFollow
<1>6. VoidsOnce(m)
  BY <1>2, <1>5, VoidsOnceGrown
<1> QED
  BY <1>4, <1>6 DEF m

LEMMA CorrectionApplyKeeps ==
  ASSUME LogInv, NEW s \in Supervisors, CorrectionApply(s)
  PROVE  LogInv'
<1> DEFINE c == desk[s].corr
           x == CorrectionEvent(corrs[c].event, corrs[c].kind, corrs[c].at, FALSE, c)
           wanted == desk[s].status = "approved" /\ ~\E i \in DOMAIN log : log[i].req = c
<1>1. /\ CorrectionsInv /\ desk[s].op = "apply" /\ desk' = [desk EXCEPT ![s] = Idle]
      /\ log' = IF wanted THEN Append(log, x) ELSE log
      /\ now' = now /\ reqs' = reqs /\ corrs' = corrs /\ beside' = beside
  BY DEF LogInv, CorrectionApply
<1>2. CASE ~wanted
  BY <1>1, <1>2, DeskLeftKeeps
<1>3. CASE wanted
  <2>1. c \in Corrections /\ corrs[c].stage = "stored" /\ corrs[c] \in CorrectionStates
    BY <1>1 DEF CorrectionsInv, DeskStates
  <2>2. /\ corrs[c].event \in DOMAIN log /\ log[corrs[c].event].kind # "correction"
        /\ corrs[c].event \in Nat /\ corrs[c].at \in Nat /\ corrs[c].kind \in WorkKinds
    BY <1>1, <2>1 DEF CorrectionsInv, CorrectionOk, CorrectionStates
  <2> DEFINE e == corrs[c].event
             k == corrs[c].kind
             a == corrs[c].at
  <2>3. x = [kind |-> "correction", at |-> a, paid |-> FALSE, to |-> k, corrects |-> e,
             void |-> FALSE, req |-> c]
    BY DEF CorrectionEvent
  <2> HIDE DEF x, e, k, a
  <2>4. e \in Nat /\ a \in Nat /\ k \in WorkKinds /\ e \in DOMAIN log /\ log[e].kind # "correction"
    BY <2>2 DEF e, k, a
  <2>5. x \in Entry
    <3> HIDE DEF c
    <3> QED
      BY <2>1, <2>3, <2>4 DEF Entry, Kinds
  <2>6. /\ MayFollow(log, now, x) /\ ~x.void /\ x.req = c
    BY <2>3, <2>4, <2>5 DEF MayFollow
  <2>7. LogIs(log, now) /\ VoidsOnce(log) /\ now \in Int /\ log \in Seq(Entry)
    BY DEF LogInv, LogIs, IsLog
  <2>8. log' = Append(log, x)
    BY <1>1, <1>3
  <2>9. LogIs(log', now) /\ VoidsOnce(log')
    BY <2>5, <2>6, <2>7, <2>8, OneMoreKeepsLog
  <2>10. /\ Grows(log, log') /\ NewIn(log, log') = {Len(log) + 1} /\ log'[Len(log) + 1] = x
         /\ DOMAIN log' = DOMAIN log \union {Len(log) + 1} /\ Len(log) + 1 \notin DOMAIN log
         /\ \A i \in DOMAIN log : log'[i] = log[i]
    <3>1. Grows(log, log') /\ NewIn(log, log') = {Len(log) + 1} /\ log'[Len(log) + 1] = x
         /\ DOMAIN log' = DOMAIN log \union {Len(log) + 1} /\ Len(log) + 1 \notin DOMAIN log
      BY <2>5, <2>7, <2>8, OneMore
    <3> QED
      BY <3>1 DEF Grows
  <2>11. RequestsInv'
    <3>1. \A i \in NewIn(log, log') : log'[i].req \notin Requests
      BY <2>1, <2>6, <2>10, TimesheetAssumption
    <3>2. now' \in Int /\ now <= now'
      BY <1>1, <2>7
    <3> QED
      BY <1>1, <2>10, <3>1, <3>2, AllRequestsKept
  <2>12. ASSUME NEW y \in Corrections
         PROVE  CorrectionOk(corrs[y], y, log')
    <3>1. CorrectionOk(corrs[y], y, log)
      BY <1>1 DEF CorrectionsInv
    <3>2. CASE y # c
      <4>1. \A i \in NewIn(log, log') : log'[i].req # y
        BY <2>6, <2>10, <3>2
      <4> QED
        BY <2>7, <2>10, <3>1, <4>1, OtherCorrectionKept
    <3>3. CASE y = c
      <4>1. \A i \in DOMAIN log' : log'[i].req = c => i = Len(log) + 1
        BY <1>3, <2>10
      <4> QED
        BY <2>1, <2>10, <3>1, <3>3, <4>1 DEF CorrectionOk
    <3> QED
      BY <3>2, <3>3
  <2>13. [op |-> "idle"] \in DeskStates
    BY DEF DeskStates
  <2>14. /\ desk' \in [Supervisors -> DeskStates] /\ desk'[s].op = "idle"
         /\ \A y \in Supervisors : y # s => desk'[y] = desk[y]
    BY <1>1, <2>13 DEF CorrectionsInv, Idle
  <2>15. \A y \in Supervisors : desk'[y].op # "idle" => corrs[desk'[y].corr].stage = "stored"
    BY <1>1, <2>14 DEF CorrectionsInv
  <2>16. ASSUME NEW y \in Corrections, {y} \notin beside
         PROVE  Decides(y)'
    <3>1. Decides(y)
      BY <1>1, <2>16 DEF CorrectionsInv
    <3>2. \A z \in Supervisors : DeskOn(z, y)' => z # s /\ DeskOn(z, y)
      BY <2>14 DEF DeskOn
    <3>3. \A z \in Supervisors : DeskOn(z, y)' => desk'[z] = desk[z]
      BY <2>14, <3>2
    <3>4. (\E i \in DOMAIN log' : log'[i].req = y) => corrs[y].status = "approved"
      <4>1. CASE y = c
        <5>1. DeskOn(s, c)
          BY <1>1 DEF DeskOn
        <5> QED
          BY <1>1, <1>3, <3>1, <4>1, <5>1 DEF Decides
      <4>2. CASE y # c
        <5>1. \A i \in DOMAIN log' : log'[i].req = y => i \in DOMAIN log /\ log[i].req = y
          BY <2>6, <2>10, <4>2
        <5> QED
          BY <3>1, <5>1 DEF Decides
      <4> QED
        BY <4>1, <4>2
    <3> QED
      BY <1>1, <3>1, <3>2, <3>3, <3>4 DEF Decides
  <2>17. CorrectionsInv'
    BY <1>1, <2>12, <2>14, <2>15, <2>16 DEF CorrectionsInv
  <2> QED
    BY <1>1, <2>9, <2>11, <2>17 DEF LogInv
<1> QED
  BY <1>2, <1>3

LEMMA ClockKeeps ==
  ASSUME LogInv, NEW k \in WorkKinds, NEW t \in 0 .. now, Clock(k, t)
  PROVE  LogInv'
<1> DEFINE x == Event(k, t, FALSE, "live")
<1>1. log' = Append(log, x) /\ now' = now /\ reqs' = reqs /\ corrs' = corrs /\ desk' = desk
      /\ beside \subseteq beside'
  BY DEF Clock
<1>2. LogIs(log, now) /\ VoidsOnce(log) /\ now \in Nat /\ log \in Seq(Entry)
  BY DEF LogInv, LogIs, IsLog
<1>3. x \in Entry /\ MayFollow(log, now, x) /\ ~x.void /\ x.req = "live"
  BY <1>2 DEF Event, Entry, Kinds, MayFollow, WorkKinds
<1> HIDE DEF x
<1>4. LogIs(log', now) /\ VoidsOnce(log')
  BY <1>1, <1>2, <1>3, OneMoreKeepsLog
<1>5. Grows(log, log') /\ \A i \in NewIn(log, log') : log'[i].req = "live"
  BY <1>1, <1>2, <1>3, OneMore
<1>6. RequestsInv'
  <2>1. \A i \in NewIn(log, log') : log'[i].req \notin Requests
    BY <1>5, TimesheetAssumption
  <2>2. now' \in Int /\ now <= now'
    BY <1>1, <1>2
  <2> QED
    BY <1>1, <1>5, <2>1, <2>2, AllRequestsKept
<1>7. CorrectionsInv'
  <2>1. \A i \in NewIn(log, log') : log'[i].req \notin Corrections
    BY <1>5, TimesheetAssumption
  <2> QED
    BY <1>1, <1>5, <2>1, CorrectionsKept
<1> QED
  BY <1>1, <1>4, <1>6, <1>7 DEF LogInv

LEMMA TickKeeps ==
  ASSUME LogInv, Tick
  PROVE  LogInv'
<1>1. /\ now < MaxTime /\ now' = now + 1 /\ log' = log /\ reqs' = reqs /\ corrs' = corrs
      /\ desk' = desk /\ beside' = beside
  BY DEF Tick
<1>2. LogIs(log, now) /\ VoidsOnce(log) /\ now \in 0 .. MaxTime /\ log \in Seq(Entry)
      /\ MaxTime \in Nat
  BY TimesheetAssumption DEF LogInv, LogIs, IsLog
<1>3. now' \in 0 .. MaxTime /\ now' \in Int /\ now <= now' /\ now \in Int
  BY <1>1, <1>2
<1>4. Grows(log, log') /\ NewIn(log, log') = {}
  BY <1>1, <1>2, NothingLater
<1>5. LogIs(log', now') /\ VoidsOnce(log')
  <2>1. \A i \in NewIn(log, log') : MayFollow(log, now', log'[i])
    BY <1>4
  <2> QED
    BY <1>1, <1>2, <1>3, <1>4, <2>1, LogIsGrown
<1>6. RequestsInv'
  <2>1. \A i \in NewIn(log, log') : log'[i].req \notin Requests
    BY <1>4
  <2> QED
    BY <1>1, <1>3, <1>4, <2>1, AllRequestsKept
<1>7. CorrectionsInv'
  BY <1>1, <1>4, CorrectionsKept
<1> QED
  BY <1>1, <1>3, <1>5, <1>6, <1>7 DEF LogInv

LEMMA LogInvStep ==
  ASSUME LogInv, NEW most \in Nat, TimesheetNext(Requests, Drafts, Corrections, MaxTime, most)
  PROVE  LogInv'
<1>1. CASE \E r \in Requests, d \in Days, draft \in Drafts : AdditionCheck(r, d, draft)
  BY <1>1, AdditionCheckKeeps
<1>2. CASE \E r \in Requests, d \in Days, draft \in Drafts \union {<<>>} :
             ReplacementCheck(r, d, draft)
  BY <1>2, ReplacementCheckKeeps
<1>3. CASE \E r \in Requests : RequestSave(r) \/ Cancel(r)
  BY <1>3, RequestSaveKeeps, CancelKeeps
<1>4. CASE \E r \in Requests, status \in {"approved", "rejected"} : Resolve(r, status)
  BY <1>4, ResolveKeeps
<1>5. CASE \E c \in Corrections, i \in DOMAIN log, k \in CorrectedKinds, t \in CorrectedTimes :
             CorrectionCheck(c, i, k, t)
  BY <1>5, CorrectionCheckKeeps
<1>6. CASE \E c \in Corrections : CorrectionSave(c)
  BY <1>6, CorrectionSaveKeeps
<1>7. CASE \E s \in Supervisors, c \in Corrections, status \in {"approved", "rejected"} :
             CorrectionRead(s, c, status)
  BY <1>7, CorrectionReadKeeps
<1>8. CASE \E s \in Supervisors :
             CorrectionResolve(s) \/ CorrectionApply(s) \/ CorrectionApplyFails(s)
  <2>1. ASSUME NEW s \in Supervisors, CorrectionApplyFails(s)
        PROVE  LogInv'
    BY <2>1, DeskLeftKeeps DEF CorrectionApplyFails
  <2> QED
    BY <1>8, <2>1, CorrectionResolveKeeps, CorrectionApplyKeeps
<1>9. CASE \E k \in WorkKinds, t \in 0 .. now : Len(log) < most /\ Clock(k, t)
  BY <1>9, ClockKeeps
<1>10. CASE now < MaxTime /\ Tick
  BY <1>10, TickKeeps
<1> QED
  BY <1>1, <1>2, <1>3, <1>4, <1>5, <1>6, <1>7, <1>8, <1>9, <1>10 DEF TimesheetNext

LEMMA LogInvStutter ==
  ASSUME LogInv, UNCHANGED timesheetVars
  PROVE  LogInv'
BY DEF LogInv, RequestsInv, CorrectionsInv, Decides, DeskOn, timesheetVars

\* In every reachable state the log holds what the decisions made of it, and no
\* request or correction that is not decided has left anything in it.
THEOREM LogIsInvariant == TimesheetSpec => []LogInv
<1>1. (\E start \in 0 .. MaxTime : TimesheetInit(start)) => LogInv
  BY LogInvInit
<1>2. LogInv /\ [\E most \in Nat :
                   TimesheetNext(Requests, Drafts, Corrections, MaxTime, most)]_timesheetVars
        => LogInv'
  BY LogInvStep, LogInvStutter
<1> QED
  BY <1>1, <1>2, PTL DEF TimesheetSpec

-----------------------------------------------------------------------------
(* The theorems.                                                           *)

LEMMA RestoredIsRestoredBetween ==
  ASSUME NEW e, NEW i, NEW j
  PROVE  /\ Restored(log, e, i, j) <=> RestoredBetween(e, i, j)
         /\ Moved(log, e, i) <=> MovedBack(e, i)
BY DEF Restored, RestoredBetween, Moved, MovedBack

LEMMA DecisionsVoidDays ==
  ASSUME LogInv
  PROVE  VoidsAreOfWholeDays
<1>1. ASSUME NEW i \in DOMAIN log, NEW j \in DOMAIN log, i < j, log[i].void, log[j].void,
             log[i].corrects = log[j].corrects
      PROVE  RestoredBetween(log[i].corrects, i, j) \/ MovedBack(log[i].corrects, i)
  <2>1. Restored(log, log[i].corrects, i, j) \/ Moved(log, log[i].corrects, i)
    BY <1>1 DEF LogInv, VoidsOnce
  <2> QED
    BY <2>1, RestoredIsRestoredBetween
<1>2. ASSUME NEW r \in Requests
      PROVE  VoidTargets(log, r) = IF r \in Approved THEN Range(reqs[r].targets) ELSE {}
  <2>1. RequestOk(reqs[r], r, log, now)
    BY DEF LogInv, RequestsInv
  <2>2. r \in Approved <=> reqs[r].stage = "stored" /\ reqs[r].status = "approved"
    BY DEF Approved, Stored
  <2> QED
    BY <2>1, <2>2 DEF RequestOk, VoidTargets
<1> QED
  BY <1>1, <1>2 DEF VoidsAreOfWholeDays, VoidTargets

LEMMA DecisionsCorrectOnce ==
  ASSUME LogInv
  PROVE  CorrectionsFollowDecisions
<1> SUFFICES ASSUME NEW c \in Corrections
             PROVE  LET made == {i \in DOMAIN log : log[i].req = c}
                    IN /\ Cardinality(made) <= 1
                       /\ (made # {} /\ {c} \notin beside) => corrs[c].status = "approved"
  BY DEF CorrectionsFollowDecisions
<1> DEFINE made == {i \in DOMAIN log : log[i].req = c}
<1>1. \A i, j \in made : i = j
  BY DEF LogInv, CorrectionsInv, CorrectionOk
<1>2. Cardinality(made) <= 1
  <2>1. CASE made = {}
    BY <2>1, FS_EmptySet
  <2>2. CASE made # {}
    <3>1. PICK i \in made : TRUE
      BY <2>2
    <3>2. made = {i}
      BY <1>1, <3>1
    <3> HIDE DEF made
    <3>3. Cardinality({i}) = 1
      BY FS_Singleton
    <3> QED
      BY <3>2, <3>3
  <2> QED
    BY <2>1, <2>2
<1>3. (made # {} /\ {c} \notin beside) => corrs[c].status = "approved"
  BY DEF LogInv, CorrectionsInv, Decides
<1> QED
  BY <1>2, <1>3

LEMMA DecisionsKeepVoided ==
  ASSUME LogInv
  PROVE  VoidedStaysVoided
<1>1. LogIs(log, now) /\ log \in Seq(Entry) /\ now \in 0 .. MaxTime /\ MaxTime \in Nat
      /\ IsLog(log)
  BY TimesheetAssumption DEF LogInv, LogIs, IsLog
<1>2. ASSUME NEW until \in Int, NEW moved \in BOOLEAN, moved \/ until = MaxTime
      PROVE  NoneVoided(until, moved)
  <2> SUFFICES ASSUME NEW i \in DOMAIN log, log[i].void,
                      ~RestoredBetween(log[i].corrects, i, Len(log) + 1),
                      NEW k \in DOMAIN effectiveEvents(log, until),
                      effectiveEvents(log, until)[k].id = log[i].corrects
               PROVE  moved /\ MovedBack(log[i].corrects, i)
    BY DEF NoneVoided
  <2>0. log[i] \in Entry
    BY <1>1
  <2>4. log[i].corrects \in Nat /\ log[i].at \in Nat
    BY <2>0 DEF Entry
  <2>1. Moved(log, log[i].corrects, i) /\ until + DayLen < log[i].at
    BY <1>1, VoidedAndShown, RestoredIsRestoredBetween
  <2>2. log[i].at <= now
    <3>1. log[i].at = log[log[i].corrects].at /\ log[i].corrects \in DOMAIN log
          /\ log[log[i].corrects].kind # "correction"
      <4>1. log[i].kind = "correction" /\ log[i].at = log[log[i].corrects].at
            /\ log[i].corrects > 0 /\ log[i].corrects < i
            /\ log[log[i].corrects].kind # "correction"
        BY <1>1 DEF LogIs, IsLog
      <4>2. log[i].corrects \in Nat /\ i \in 1 .. Len(log) /\ DOMAIN log = 1 .. Len(log)
            /\ Len(log) \in Nat
        BY <1>1, <2>4
      <4> DEFINE e == log[i].corrects
      <4>3. e \in DOMAIN log
        <5> HIDE DEF e
        <5>1. e > 0 /\ e < i /\ e \in Nat
          BY <4>1, <4>2 DEF e
        <5> QED
          BY <4>2, <5>1
      <4> QED
        BY <4>1, <4>3
    <3> QED
      BY <1>1, <3>1 DEF LogIs
  <2>3. until # MaxTime
    <3>1. DayLen \in Nat /\ log[i].at \in Nat
      BY <2>4, TimesheetAssumption
    <3> DEFINE a == log[i].at
    <3>2. until + DayLen < a /\ a <= now /\ a \in Nat
      BY <2>1, <2>2, <3>1
    <3> HIDE DEF a
    <3> QED
      BY <1>1, <3>1, <3>2
  <2> QED
    BY <1>2, <2>1, <2>3, RestoredIsRestoredBetween
<1>3. NoneVoided(MaxTime, FALSE)
  <2>1. MaxTime \in Int
    BY <1>1
  <2> QED
    BY <1>2, <2>1
<1>4. ASSUME NEW d \in Days
      PROVE  NoneVoided((d + 2) * DayLen, TRUE)
  <2>1. d + 2 \in Nat
    BY DEF Days
  <2>2. (d + 2) * DayLen \in Int
    BY <2>1, DayBegins
  <2> QED
    BY <1>2, <2>2
<1> QED
  BY <1>3, <1>4 DEF VoidedStaysVoided

\* The log of events changes as the decisions say, whatever is decided when.
THEOREM LogIsAsDecided == TimesheetSpec => []LogFollowsDecisions
<1>1. LogInv => LogFollowsDecisions
  BY DecisionsVoidDays, DecisionsCorrectOnce, DecisionsKeepVoided DEF LogFollowsDecisions
<1> QED
  BY <1>1, LogIsInvariant, PTL

\* What is stored has the form that the collections give it.
THEOREM TimesheetIsTyped == TimesheetSpec => []TimesheetTypes
<1>1. LogInv => TimesheetTypes
  <2> SUFFICES ASSUME LogInv
               PROVE  TimesheetTypes
    OBVIOUS
  <2>1. now \in 0 .. MaxTime /\ IsLog(log) /\ log \in Seq(Entry)
    BY DEF LogInv, LogIs, IsLog
  <2>2. ASSUME NEW i \in DOMAIN log
        PROVE  /\ log[i].kind \in WorkKinds \union {"correction"}
               /\ log[i].corrects \in 0 .. i - 1
               /\ log[i].kind = "correction" <=> log[i].corrects > 0
    <3>1. log[i] \in Entry /\ log[i].corrects < i /\ i \in Nat
          /\ (log[i].kind = "correction" <=> log[i].corrects > 0)
      BY <2>1 DEF IsLog
    <3> QED
      BY <3>1 DEF Entry
  <2>3. ASSUME NEW r \in Requests, Stored(r)
        PROVE  /\ reqs[r].status \in {"pending", "approved", "rejected", "cancelled"}
               /\ reqs[r].day \in Days
    <3>1. reqs[r] \in StoredRequests
      BY <2>3, StageOfRequest DEF Stored, LogInv, RequestsInv
    <3> QED
      BY <3>1 DEF StoredRequests
  <2>4. \A s \in Supervisors : desk[s].op \in {"idle", "resolve", "apply"}
    BY DEF LogInv, CorrectionsInv, DeskStates
  <2> QED
    BY <2>1, <2>2, <2>3, <2>4 DEF TimesheetTypes
<1> QED
  BY <1>1, LogIsInvariant, PTL

-----------------------------------------------------------------------------
(* Two readings of a log.                                                  *)

\* The events are read in order of their times, and those of the same time as
\* they were recorded.
LEMMA EventsReadInOrder ==
  ASSUME NEW l, IsLog(l), NEW until, NEW s, s = eventsRead(l, until)
  PROVE  \A j, k \in DOMAIN s : j < k =>
           s[j].at < s[k].at \/ (s[j].at = s[k].at /\ s[j].id < s[k].id)
<1> DEFINE S == RegularRead(l, until)
           all == [i \in DOMAIN l |-> AsRead(l, i)]
           w == Only(all, S)
<1>1. l \in Seq(Entry) /\ DOMAIN l = 1 .. Len(l) /\ Len(l) \in Nat
  BY DEF IsLog
<1>2. \A i \in 1 .. Len(l) : AsRead(l, i) \in Read /\ AsRead(l, i).id = i
  <2>1. \A i \in 1 .. Len(l) : i \in Nat /\ l[i] \in Entry
    BY <1>1
  <2> QED
    BY <2>1 DEF AsRead, Read, Entry, Kinds
<1>3. all \in Seq(Read) /\ Len(all) = Len(l) /\ \A i \in 1 .. Len(l) : all[i] = AsRead(l, i)
  BY <1>1, <1>2
<1>4. s = StableByTime(w)
  BY Zenon DEF eventsRead
<1> HIDE DEF all, S
<1>6. w \in Seq(Read) /\ \E e : Picks(e, w, Len(all), all, S)
  BY <1>3, OnlyKeepsOrder
<1> HIDE DEF w
<1>7. PICK e : Picks(e, w, Len(l), all, S)
  BY <1>3, <1>6
<1>8. \A k \in DOMAIN w : e[k] \in 1 .. Len(l) /\ w[k].id = e[k]
  BY <1>2, <1>3, <1>7 DEF Picks
<1>9. Timed(Read)
  BY DEF Timed, Read
<1>10. PICK p : Arranges(p, s, Len(w), w)
  BY <1>4, <1>6, <1>9, StableByTimeArranges
<1>11. DOMAIN w = 1 .. Len(w) /\ DOMAIN s = 1 .. Len(w)
  BY <1>6, <1>10 DEF Arranges
<1>12. ASSUME NEW j \in DOMAIN s, NEW k \in DOMAIN s, j < k
       PROVE  s[j].at < s[k].at \/ (s[j].at = s[k].at /\ s[j].id < s[k].id)
  <2>1. p[j] \in DOMAIN w /\ p[k] \in DOMAIN w /\ s[j] = w[p[j]] /\ s[k] = w[p[k]]
    BY <1>10, <1>11 DEF Arranges
  <2>2. s[j].at < s[k].at \/ (s[j].at = s[k].at /\ p[j] < p[k])
    BY <1>10, <1>11, <1>12 DEF Arranges
  <2>3. p[j] < p[k] => e[p[j]] < e[p[k]]
    BY <1>7, <2>1 DEF Picks
  <2> QED
    BY <1>8, <2>1, <2>2, <2>3
<1> QED
  BY <1>12

\* Of the events in t, those of which Low is true are the events of s, in the
\* same order.
Within(s, t, Low) ==
  /\ \A j \in DOMAIN s : s[j].id \in Low /\ \E k \in DOMAIN t : t[k] = s[j]
  /\ \A k \in DOMAIN t : t[k].id \in Low => \E j \in DOMAIN s : s[j] = t[k]
  /\ \A i, j \in DOMAIN s, m, n \in DOMAIN t :
       (s[i] = t[m] /\ s[j] = t[n] /\ i < j) => m < n

\* A correction of an event in Low, applied to both.
LEMMA CorrectedWithin ==
  ASSUME NEW l, NEW s, NEW t, AreReads(l, s), AreReads(l, t), NEW Low, Within(s, t, Low),
         NEW c, l[c].corrects \in Low,
         NEW v, AreReads(l, v), Applied(l, s, c, v), KeepsOrder(s, v),
         NEW w, AreReads(l, w), Applied(l, t, c, w), KeepsOrder(t, w)
  PROVE  Within(v, w, Low)
<1> DEFINE e == l[c].corrects
<1>0. AsCorrected(l, c).id = e
  BY DEF AsCorrected
<1>1. ASSUME NEW j \in DOMAIN v
      PROVE  v[j].id \in Low /\ \E k \in DOMAIN w : w[k] = v[j]
  <2>1. CASE v[j].id = e
    <3>1. ~l[c].void /\ v[j] = AsCorrected(l, c)
      BY <2>1 DEF Applied
    <3> QED
      BY <2>1, <3>1 DEF Applied
  <2>2. CASE v[j].id # e
    <3>1. PICK i \in DOMAIN s : s[i] = v[j]
      BY <2>2 DEF Applied
    <3>2. PICK k \in DOMAIN t : t[k] = s[i]
      BY DEF Within
    <3>3. v[j].id \in Low
      BY <3>1 DEF Within
    <3> QED
      BY <2>2, <3>1, <3>2, <3>3 DEF Applied
  <2> QED
    BY <2>1, <2>2
<1>2. ASSUME NEW k \in DOMAIN w, w[k].id \in Low
      PROVE  \E j \in DOMAIN v : v[j] = w[k]
  <2>1. CASE w[k].id = e
    <3>1. ~l[c].void /\ w[k] = AsCorrected(l, c)
      BY <2>1 DEF Applied
    <3> QED
      BY <3>1 DEF Applied
  <2>2. CASE w[k].id # e
    <3>1. PICK m \in DOMAIN t : t[m] = w[k]
      BY <2>2 DEF Applied
    <3>2. PICK i \in DOMAIN s : s[i] = t[m]
      BY <1>2, <3>1 DEF Within
    <3> QED
      BY <2>2, <3>1, <3>2 DEF Applied
  <2> QED
    BY <2>1, <2>2
<1>3. v \in Seq(Read) /\ w \in Seq(Read)
  BY DEF AreReads
<1>4. ASSUME NEW i \in DOMAIN v, NEW j \in DOMAIN v, NEW m \in DOMAIN w, NEW n \in DOMAIN w,
             v[i] = w[m], v[j] = w[n], i < j
      PROVE  m < n
  <2>0. i \in Int /\ j \in Int /\ m \in Int /\ n \in Int
    BY <1>3
  <2>1. v[i].id # v[j].id
    <3>1. i # j
      BY <1>4, <2>0
    <3> QED
      BY <3>1 DEF AreReads
  \* What is not the target, and the target if it was there, was in both.
  <2>2. ASSUME NEW k \in DOMAIN v, \E a \in DOMAIN s : s[a].id = v[k].id
        PROVE  \E a \in DOMAIN s, b \in DOMAIN t : s[a].id = v[k].id /\ t[b] = s[a]
    BY <2>2 DEF Within
  <2>3. ASSUME NEW k \in DOMAIN v, \A a \in DOMAIN s : s[a].id # v[k].id
        PROVE  v[k].id = e /\ \A b \in DOMAIN t : t[b].id # v[k].id
    <3>1. v[k].id = e
      BY <2>3 DEF Applied
    <3>2. ASSUME NEW b \in DOMAIN t, t[b].id = v[k].id
          PROVE  FALSE
      <4>1. t[b].id \in Low
        BY <3>1, <3>2
      <4>2. PICK a \in DOMAIN s : s[a] = t[b]
        BY <4>1 DEF Within
      <4> QED
        BY <2>3, <3>2, <4>2
    <3> QED
      BY <3>1, <3>2
  <2>4. CASE (\E a \in DOMAIN s : s[a].id = v[i].id) /\ (\E a \in DOMAIN s : s[a].id = v[j].id)
    <3>1. PICK a \in DOMAIN s, b \in DOMAIN t : s[a].id = v[i].id /\ t[b] = s[a]
      BY <2>2, <2>4
    <3>2. PICK a2 \in DOMAIN s, b2 \in DOMAIN t : s[a2].id = v[j].id /\ t[b2] = s[a2]
      BY <2>2, <2>4
    <3>3. a \in Int /\ a2 \in Int /\ a # a2
      <4>1. s \in Seq(Read)
        BY DEF AreReads
      <4> QED
        BY <2>1, <3>1, <3>2, <4>1
    <3>4. ~ (a2 < a)
      <4>1. a2 < a => j < i
        BY <3>1, <3>2 DEF KeepsOrder
      <4> QED
        BY <1>4, <2>0, <4>1
    <3>5. a < a2
      BY <3>3, <3>4
    <3>6. b < b2
      BY <3>1, <3>2, <3>5 DEF Within
    <3>7. t[b].id = w[m].id /\ t[b2].id = w[n].id
      BY <1>4, <3>1, <3>2
    <3> QED
      BY <3>6, <3>7 DEF KeepsOrder
  <2>5. CASE \A a \in DOMAIN s : s[a].id # v[i].id
    <3>1. j <= i
      BY <2>5 DEF KeepsOrder
    <3> QED
      BY <1>4, <2>0, <3>1
  <2>6. CASE \A a \in DOMAIN s : s[a].id # v[j].id
    <3>1. \A b \in DOMAIN t : t[b].id # w[n].id
      BY <1>4, <2>3, <2>6
    <3>2. m <= n
      BY <3>1 DEF KeepsOrder
    <3>3. m # n
      BY <1>4, <2>1
    <3> QED
      BY <2>0, <3>2, <3>3
  <2> QED
    BY <2>4, <2>5, <2>6
<1> QED
  BY <1>1, <1>2, <1>4 DEF Within

\* A correction of an event that is not in Low is applied to t alone.
LEMMA CorrectedBeyond ==
  ASSUME NEW l, NEW s, NEW t, AreReads(l, s), AreReads(l, t), NEW Low, Within(s, t, Low),
         NEW c, l[c].corrects \notin Low,
         NEW w, AreReads(l, w), Applied(l, t, c, w), KeepsOrder(t, w)
  PROVE  Within(s, w, Low)
<1> DEFINE e == l[c].corrects
<1>1. ASSUME NEW j \in DOMAIN s
      PROVE  s[j].id \in Low /\ \E k \in DOMAIN w : w[k] = s[j]
  <2>1. s[j].id \in Low /\ s[j].id # e
    BY DEF Within
  <2>2. PICK k \in DOMAIN t : t[k] = s[j]
    BY DEF Within
  <2> QED
    BY <2>1, <2>2 DEF Applied
<1>2. ASSUME NEW k \in DOMAIN w, w[k].id \in Low
      PROVE  \E j \in DOMAIN s : s[j] = w[k]
  <2>1. PICK m \in DOMAIN t : t[m] = w[k]
    BY <1>2 DEF Applied
  <2> QED
    BY <1>2, <2>1 DEF Within
<1>3. ASSUME NEW i \in DOMAIN s, NEW j \in DOMAIN s, NEW m \in DOMAIN w, NEW n \in DOMAIN w,
             s[i] = w[m], s[j] = w[n], i < j
      PROVE  m < n
  <2>1. PICK b \in DOMAIN t : t[b] = s[i]
    BY DEF Within
  <2>2. PICK b2 \in DOMAIN t : t[b2] = s[j]
    BY DEF Within
  <2>3. b < b2
    BY <1>3, <2>1, <2>2 DEF Within
  <2>4. t[b].id = w[m].id /\ t[b2].id = w[n].id
    BY <1>3, <2>1, <2>2
  <2> QED
    BY <2>3, <2>4 DEF KeepsOrder
<1> QED
  BY <1>1, <1>2, <1>3 DEF Within

\* No correction takes an event from one side of a time to the other.
NoneMovesAcross(l, limit) ==
  \A c \in DOMAIN l : l[c].kind = "correction" =>
    (l[c].at <= limit <=> l[l[c].corrects].at <= limit)

\* Read to a later time, the events of an earlier reading are in the same order,
\* and as corrected as they were.
LEMMA CorrectedAlike ==
  ASSUME NEW l, IsLog(l), NEW u \in Int, NEW v \in Int, u <= v,
         NoneMovesAcross(l, u + DayLen)
  PROVE  /\ Within(eventsCorrected(l, u), eventsCorrected(l, v), InQuery(l, u))
         /\ AreReads(l, eventsCorrected(l, u)) /\ AreReads(l, eventsCorrected(l, v))
<1> DEFINE Low == InQuery(l, u)
           cs == correctionsRead(l, u)
           ds == correctionsRead(l, v)
           a == Len(cs)
           b == Len(ds)
           s == eventsRead(l, u)
           t == eventsRead(l, v)
<1>1. /\ cs \in Seq(Nat)
      /\ \A k \in DOMAIN cs : cs[k] \in InQuery(l, u) /\ l[cs[k]].kind = "correction"
      /\ \A j, k \in DOMAIN cs : j < k => cs[j] < cs[k]
      /\ \A i \in InQuery(l, u) : l[i].kind = "correction" => \E k \in DOMAIN cs : cs[k] = i
  BY CorrectionsAreRead
<1>2. /\ ds \in Seq(Nat)
      /\ \A k \in DOMAIN ds : ds[k] \in InQuery(l, v) /\ l[ds[k]].kind = "correction"
      /\ \A j, k \in DOMAIN ds : j < k => ds[j] < ds[k]
      /\ \A i \in InQuery(l, v) : l[i].kind = "correction" => \E k \in DOMAIN ds : ds[k] = i
  BY CorrectionsAreRead
<1>3. PICK g : /\ CorrectionSteps(g, l, s, cs) /\ eventsCorrected(l, u) = g[a]
               /\ \A k \in 0 .. a : AreReads(l, g[k])
  BY EventsCorrectedInSteps
<1>4. PICK h : /\ CorrectionSteps(h, l, t, ds) /\ eventsCorrected(l, v) = h[b]
               /\ \A k \in 0 .. b : AreReads(l, h[k])
  BY EventsCorrectedInSteps
<1>5. /\ AreReads(l, s)
      /\ \A k \in DOMAIN s : s[k].id \in RegularRead(l, u) /\ s[k] = AsRead(l, s[k].id)
      /\ \A i \in RegularRead(l, u) : \E k \in DOMAIN s : s[k] = AsRead(l, i)
  BY EventsAreRead
<1>6. /\ AreReads(l, t)
      /\ \A k \in DOMAIN t : t[k].id \in RegularRead(l, v) /\ t[k] = AsRead(l, t[k].id)
      /\ \A i \in RegularRead(l, v) : \E k \in DOMAIN t : t[k] = AsRead(l, i)
  BY EventsAreRead
<1>7. \A j, k \in DOMAIN s : j < k =>
        s[j].at < s[k].at \/ (s[j].at = s[k].at /\ s[j].id < s[k].id)
  BY EventsReadInOrder
<1>8. \A j, k \in DOMAIN t : j < k =>
        t[j].at < t[k].at \/ (t[j].at = t[k].at /\ t[j].id < t[k].id)
  BY EventsReadInOrder
<1>9. DayLen \in Int
  BY TimesheetAssumption
<1>10. l \in Seq(Entry) /\ \A i \in DOMAIN l : i \in Int /\ l[i].at \in Int
  <2>1. l \in Seq(Entry)
    BY DEF IsLog
  <2>2. \A i \in DOMAIN l : l[i] \in Entry
    BY <2>1
  <2> QED
    BY <2>1, <2>2 DEF Entry
<1>11. /\ \A i \in Low : i \in InQuery(l, v)
       /\ RegularRead(l, u) = {i \in RegularRead(l, v) : i \in Low}
  <2>1. \A i \in DOMAIN l : l[i].at <= u + DayLen => l[i].at <= v + DayLen
    BY <1>9, <1>10
  <2> QED
    BY <2>1 DEF InQuery, RegularRead
<1>12. \A c \in DOMAIN l : l[c].kind = "correction" =>
         l[c].corrects \in DOMAIN l /\ (c \in Low <=> l[c].corrects \in Low)
  <2>1. ASSUME NEW c \in DOMAIN l, l[c].kind = "correction"
        PROVE  l[c].corrects \in DOMAIN l /\ (c \in Low <=> l[c].corrects \in Low)
    <3>1. l[c] \in Entry /\ l[c].corrects > 0 /\ l[c].corrects < c
      BY <1>10, <2>1 DEF IsLog
    <3>2. l[c].corrects \in Nat
      BY <3>1 DEF Entry
    <3>3. l[c].corrects \in DOMAIN l
      BY <1>10, <3>1, <3>2
    <3> QED
      BY <2>1, <3>3 DEF NoneMovesAcross, InQuery
  <2> QED
    BY <2>1
<1>13. /\ \A k \in DOMAIN cs : cs[k] \in DOMAIN l
       /\ \A k \in DOMAIN ds : ds[k] \in DOMAIN l
  BY <1>1, <1>2 DEF InQuery
<1> HIDE DEF cs, ds, s, t, Low
<1>14. a \in Nat /\ b \in Nat /\ DOMAIN cs = 1 .. a /\ DOMAIN ds = 1 .. b
  BY <1>1, <1>2
<1> HIDE DEF a, b
\* The first n of cs are those of the first m of ds that are in Low.
<1> DEFINE Same(n, m) == \A j \in 1 .. a : j <= n <=> \E k \in 1 .. m : ds[k] = cs[j]
           Good == {m \in 0 .. b : \E n \in 0 .. a : Same(n, m) /\ Within(g[n], h[m], Low)}
<1>15. Within(s, t, Low)
  <2>1. ASSUME NEW j \in DOMAIN s
        PROVE  s[j].id \in Low /\ \E k \in DOMAIN t : t[k] = s[j]
    BY <1>5, <1>6, <1>11
  <2>2. ASSUME NEW k \in DOMAIN t, t[k].id \in Low
        PROVE  \E j \in DOMAIN s : s[j] = t[k]
    <3>1. t[k].id \in RegularRead(l, u) /\ t[k] = AsRead(l, t[k].id)
      BY <1>6, <1>11, <2>2
    <3> QED
      BY <1>5, <3>1
  <2>3. ASSUME NEW i \in DOMAIN s, NEW j \in DOMAIN s, NEW m \in DOMAIN t, NEW n \in DOMAIN t,
               s[i] = t[m], s[j] = t[n], i < j
        PROVE  m < n
    <3>1. s \in Seq(Read) /\ t \in Seq(Read)
      BY <1>5, <1>6 DEF AreReads
    <3>2. t[m] \in Read /\ t[n] \in Read /\ m \in Int /\ n \in Int
      BY <3>1
    <3>3. t[m].at \in Int /\ t[m].id \in Int /\ t[n].at \in Int /\ t[n].id \in Int
      BY <3>2 DEF Read
    <3>4. t[m].at < t[n].at \/ (t[m].at = t[n].at /\ t[m].id < t[n].id)
      BY <1>7, <2>3
    <3>5. n < m => t[n].at < t[m].at \/ (t[n].at = t[m].at /\ t[n].id < t[m].id)
      BY <1>8
    <3>6. n # m
      BY <3>3, <3>4
    <3> QED
      BY <3>2, <3>3, <3>4, <3>5, <3>6
  <2> QED
    BY <2>1, <2>2, <2>3 DEF Within
<1>16. 0 \in Good
  <2>1. g[0] = s /\ h[0] = t
    BY <1>3, <1>4 DEF CorrectionSteps
  <2>2. Same(0, 0)
    BY <1>14
  <2> QED
    BY <1>14, <1>15, <2>1, <2>2
<1>17. ASSUME NEW m \in 0 .. b - 1, m \in Good
       PROVE  m + 1 \in Good
  <2>1. m \in Nat /\ m + 1 \in 1 .. b /\ (m + 1) - 1 = m /\ m \in 0 .. b /\ m + 1 \in 0 .. b
    BY <1>14
  <2>2. PICK n \in 0 .. a : Same(n, m) /\ Within(g[n], h[m], Low)
    BY <1>17
  <2>3. n \in Nat /\ n <= a
    BY <1>14
  <2> DEFINE c == ds[m + 1]
  <2>4. c \in DOMAIN l /\ l[c].kind = "correction"
    BY <1>2, <1>13, <1>14, <2>1
  <2>5. h[m + 1] = ApplyCorrection(l, h[m], c)
    BY <1>4, <2>1 DEF CorrectionSteps, b
  <2>6. AreReads(l, h[m]) /\ AreReads(l, h[m + 1])
    BY <1>4, <2>1
  <2>7. Applied(l, h[m], c, h[m + 1]) /\ KeepsOrder(h[m], h[m + 1])
    BY <2>4, <2>5, <2>6, CorrectionApplied
  <2>8. \A k : k \in 1 .. m + 1 <=> (k \in 1 .. m \/ k = m + 1)
    BY <2>1
  <2>9. c = ds[m + 1]
    OBVIOUS
  <2> HIDE DEF c, Good
  <2>10. CASE c \in Low
    <3>1. PICK j \in 1 .. a : cs[j] = c
      BY <1>1, <1>14, <2>4, <2>10 DEF Low
    <3>2. \A k \in 1 .. m : ds[k] < c
      <4>1. \A k \in 1 .. m : k \in DOMAIN ds /\ m + 1 \in DOMAIN ds /\ k < m + 1
        BY <1>14, <2>1
      <4> QED
        BY <1>2, <2>9, <4>1
    <3>3. c \in Int /\ \A k \in 1 .. b : ds[k] \in Int
      BY <1>10, <1>13, <1>14, <2>4
    <3>4. ~ (j <= n)
      <4>1. \A k \in 1 .. m : k \in 1 .. b
        BY <1>14, <2>1
      <4>2. \A k \in 1 .. m : ds[k] # cs[j]
        BY <3>1, <3>2, <3>3, <4>1
      <4> QED
        BY <2>2, <4>2
    <3>5. \A i \in 1 .. a : i < j => i <= n
      <4>1. ASSUME NEW i \in 1 .. a, i < j
            PROVE  i <= n
        <5>1. cs[i] < c /\ cs[i] \in Low /\ l[cs[i]].kind = "correction"
          BY <1>1, <1>14, <3>1, <4>1 DEF Low
        <5>2. PICK k \in 1 .. b : ds[k] = cs[i]
          BY <1>2, <1>11, <1>14, <5>1
        <5>3. k < m + 1
          <6>1. k # m + 1
            BY <2>9, <3>3, <5>1, <5>2
          <6>2. m + 1 < k => ds[m + 1] < ds[k]
            BY <1>2, <1>14, <2>1
          <6>3. ~ (m + 1 < k)
            BY <2>9, <3>3, <5>1, <5>2, <6>2
          <6> QED
            BY <2>1, <6>1, <6>3
        <5>4. k \in 1 .. m
          BY <2>1, <5>3
        <5> QED
          BY <2>2, <5>2, <5>4
      <4> QED
        BY <4>1
    <3>6. j = n + 1
      <4>1. j > n
        BY <2>3, <3>4
      <4>2. j > n + 1 => FALSE
        <5>1. j > n + 1 => (n + 1 \in 1 .. a /\ n + 1 < j)
          BY <1>14, <2>3
        <5> QED
          BY <2>3, <3>5, <5>1
      <4> QED
        BY <2>3, <4>1, <4>2
    <3>7. n + 1 \in 0 .. a /\ n + 1 \in 1 .. a /\ (n + 1) - 1 = n /\ n \in 0 .. a
      BY <1>14, <2>3, <3>6
    <3>8. g[n + 1] = ApplyCorrection(l, g[n], c)
      BY <1>3, <3>1, <3>6, <3>7 DEF CorrectionSteps, a
    <3>9. AreReads(l, g[n]) /\ AreReads(l, g[n + 1])
      BY <1>3, <3>7
    <3>10. Applied(l, g[n], c, g[n + 1]) /\ KeepsOrder(g[n], g[n + 1])
      BY <2>4, <3>8, <3>9, CorrectionApplied
    <3>11. l[c].corrects \in Low
      BY <1>12, <2>4, <2>10
    <3>12. Within(g[n + 1], h[m + 1], Low)
      BY <2>2, <2>6, <2>7, <3>9, <3>10, <3>11, CorrectedWithin
    <3>13. Same(n + 1, m + 1)
      <4>1. ASSUME NEW i \in 1 .. a
            PROVE  i <= n + 1 <=> \E k \in 1 .. m + 1 : ds[k] = cs[i]
        <5>1. i <= n + 1 <=> (i <= n \/ i = n + 1)
          BY <2>3
        <5>2. i <= n <=> \E k \in 1 .. m : ds[k] = cs[i]
          BY <2>2
        <5>3. i = n + 1 <=> ds[m + 1] = cs[i]
          <6>1. i # j => cs[i] # cs[j]
            <7>1. (i < j => cs[i] < cs[j]) /\ (j < i => cs[j] < cs[i])
              BY <1>1, <1>14
            <7>2. cs[i] \in Int /\ cs[j] \in Int
              BY <1>10, <1>13, <1>14
            <7> QED
              BY <7>1, <7>2
          <6> QED
            BY <2>9, <3>1, <3>6, <6>1
        <5> QED
          BY <2>8, <5>1, <5>2, <5>3
      <4> QED
        BY <4>1
    <3> QED
      BY <2>1, <3>7, <3>12, <3>13 DEF Good
  <2>11. CASE c \notin Low
    <3>1. l[c].corrects \notin Low
      BY <1>12, <2>4, <2>11
    <3>2. AreReads(l, g[n])
      BY <1>3
    <3>3. Within(g[n], h[m + 1], Low)
      BY <2>2, <2>6, <2>7, <3>1, <3>2, CorrectedBeyond
    <3>4. Same(n, m + 1)
      <4>1. ASSUME NEW i \in 1 .. a
            PROVE  i <= n <=> \E k \in 1 .. m + 1 : ds[k] = cs[i]
        <5>1. cs[i] # ds[m + 1]
          BY <1>1, <1>14, <2>9, <2>11 DEF Low
        <5>2. i <= n <=> \E k \in 1 .. m : ds[k] = cs[i]
          BY <2>2
        <5> QED
          BY <2>8, <5>1, <5>2
      <4> QED
        BY <4>1
    <3> QED
      BY <2>1, <2>2, <3>3, <3>4 DEF Good
  <2> QED
    BY <2>10, <2>11
<1> HIDE DEF Good
<1>18. b \in Good
  BY <1>14, <1>16, <1>17, UpTo
<1>19. PICK n \in 0 .. a : Same(n, b) /\ Within(g[n], h[b], Low)
  BY <1>18 DEF Good
<1>20. n = a
  <2>1. CASE a = 0
    BY <1>14, <2>1
  <2>2. CASE a # 0
    <3>1. a \in 1 .. a
      BY <1>14, <2>2
    <3>2. cs[a] \in InQuery(l, v) /\ l[cs[a]].kind = "correction"
      BY <1>1, <1>11, <1>14, <3>1 DEF Low
    <3>3. \E k \in 1 .. b : ds[k] = cs[a]
      BY <1>2, <1>14, <3>2
    <3>4. a <= n
      BY <1>19, <3>1, <3>3
    <3> QED
      BY <1>14, <3>4
  <2> QED
    BY <2>1, <2>2
<1>21. AreReads(l, g[a]) /\ AreReads(l, h[b])
  BY <1>3, <1>4, <1>14
<1>22. Within(eventsCorrected(l, u), eventsCorrected(l, v), Low)
  BY <1>3, <1>4, <1>19, <1>20 DEF a, b
<1> QED
  BY <1>3, <1>4, <1>21, <1>22 DEF Low, a, b

\* The first a of v and the first n of w, which are different, are the same in
\* the same order.
Alike(v, w, a, n) ==
  /\ \A k \in 1 .. a : \E j \in 1 .. n : v[k] = w[j]
  /\ \A j \in 1 .. n : \E k \in 1 .. a : v[k] = w[j]
  /\ \A k, m \in 1 .. a, i, j \in 1 .. n : (v[k] = w[i] /\ v[m] = w[j] /\ k < m) => i < j
  /\ \A i, j \in 1 .. n : w[i] = w[j] => i = j

\* Then they are as many, in the same places.
LEMMA SameOrder ==
  ASSUME NEW v, NEW w, NEW a \in Nat, NEW n \in Nat, Alike(v, w, a, n)
  PROVE  a = n /\ \A k \in 1 .. a : v[k] = w[k]
<1>0. /\ \A k \in 1 .. a : \E j \in 1 .. n : v[k] = w[j]
      /\ \A j \in 1 .. n : \E k \in 1 .. a : v[k] = w[j]
      /\ \A k, m \in 1 .. a, i, j \in 1 .. n : (v[k] = w[i] /\ v[m] = w[j] /\ k < m) => i < j
      /\ \A i, j \in 1 .. n : w[i] = w[j] => i = j
  BY DEF Alike
<1> DEFINE Bad == {k \in 1 .. a : k \notin 1 .. n \/ v[k] # w[k]}
<1>1. Bad = {}
  <2> SUFFICES ASSUME Bad # {} PROVE FALSE
    OBVIOUS
  <2>1. Bad \in SUBSET Nat
    OBVIOUS
  <2>2. PICK k \in Bad : \A j \in Bad : k <= j
    <3> HIDE DEF Bad
    <3> QED
      BY <2>1, LeastNatural
  <2>3. k \in 1 .. a /\ (k \notin 1 .. n \/ v[k] # w[k])
    OBVIOUS
  <2>15. \A j \in 1 .. a : j \notin Bad => j \in 1 .. n /\ v[j] = w[j]
    OBVIOUS
  <2> HIDE DEF Bad
  <2>4. \A j \in 1 .. k - 1 : j \in 1 .. a /\ j \in 1 .. n /\ v[j] = w[j]
    <3>1. \A j \in 1 .. k - 1 : j \in 1 .. a /\ ~ (k <= j)
      BY <2>3
    <3>2. \A j \in 1 .. k - 1 : j \notin Bad
      BY <2>2, <3>1
    <3> QED
      BY <2>15, <3>1, <3>2
  <2>5. PICK i \in 1 .. n : v[k] = w[i]
    BY <1>0, <2>3
  <2>6. ~ (i < k)
    <3> SUFFICES ASSUME i < k PROVE FALSE
      OBVIOUS
    <3>1. i \in 1 .. k - 1
      BY <2>3
    <3>2. i \in 1 .. a /\ v[i] = w[i]
      BY <2>4, <3>1
    <3>3. i < i
      BY <1>0, <2>3, <2>5, <3>2
    <3> QED
      BY <3>3
  <2>7. k \in 1 .. n /\ i # k
    <3>1. k <= i
      BY <2>3, <2>5, <2>6
    <3>2. k \in 1 .. n
      BY <2>3, <2>5, <3>1
    <3>3. i # k
      BY <2>3, <2>5, <3>2
    <3> QED
      BY <3>2, <3>3
  <2>8. k < i
    BY <2>3, <2>6, <2>7
  <2>9. PICK m \in 1 .. a : v[m] = w[k]
    BY <1>0, <2>7
  <2>10. m # k
    BY <2>3, <2>7, <2>9
  <2>11. ~ (k < m)
    <3> SUFFICES ASSUME k < m PROVE FALSE
      OBVIOUS
    <3>1. i < k
      BY <1>0, <2>3, <2>5, <2>7, <2>9
    <3> QED
      BY <2>6, <3>1
  <2>12. m \in 1 .. k - 1
    BY <2>3, <2>10, <2>11
  <2>13. m \in 1 .. n /\ v[m] = w[m]
    BY <2>4, <2>12
  <2>14. m = k
    BY <1>0, <2>7, <2>9, <2>13
  <2> QED
    BY <2>10, <2>14
<1>2. \A k \in 1 .. a : k \in 1 .. n /\ v[k] = w[k]
  BY <1>1
<1>3. a <= n
  BY <1>2
<1>4. n <= a
  <2> SUFFICES ASSUME a < n PROVE FALSE
    OBVIOUS
  <2>1. n \in 1 .. n
    OBVIOUS
  <2>2. PICK k \in 1 .. a : v[k] = w[n]
    BY <1>0, <2>1
  <2>3. k \in 1 .. n /\ w[k] = w[n]
    BY <1>2, <2>2
  <2>4. k = n
    BY <1>0, <2>1, <2>3
  <2> QED
    BY <2>4
<1> QED
  BY <1>2, <1>3, <1>4

\* Sequences of the same times are put in order alike.
LEMMA SameArrangement ==
  ASSUME NEW m \in Nat, NEW s, NEW t, NEW v, NEW w, NEW p, NEW q,
         Arranges(p, v, m, s), Arranges(q, w, m, t),
         \A i \in 1 .. m : s[i].at \in Int /\ t[i].at = s[i].at
  PROVE  \A k \in 1 .. m : p[k] = q[k] /\ p[k] \in 1 .. m /\ v[k] = s[p[k]] /\ w[k] = t[p[k]]
<1>1. /\ \A k \in 1 .. m : p[k] \in 1 .. m /\ v[k] = s[p[k]]
      /\ \A i \in 1 .. m : \E k \in 1 .. m : p[k] = i
  BY DEF Arranges
<1>2. /\ \A k \in 1 .. m : q[k] \in 1 .. m /\ w[k] = t[q[k]]
      /\ \A i \in 1 .. m : \E k \in 1 .. m : q[k] = i
  BY DEF Arranges
<1>3. ASSUME NEW j \in 1 .. m, NEW k \in 1 .. m, j < k
      PROVE  s[p[j]].at < s[p[k]].at \/ (s[p[j]].at = s[p[k]].at /\ p[j] < p[k])
  <2>1. v[j].at < v[k].at \/ (v[j].at = v[k].at /\ p[j] < p[k])
    BY <1>3 DEF Arranges
  <2> QED
    BY <1>1, <2>1
<1>4. ASSUME NEW j \in 1 .. m, NEW k \in 1 .. m, j < k
      PROVE  s[q[j]].at < s[q[k]].at \/ (s[q[j]].at = s[q[k]].at /\ q[j] < q[k])
  <2>1. w[j].at < w[k].at \/ (w[j].at = w[k].at /\ q[j] < q[k])
    BY <1>4 DEF Arranges
  <2>2. t[q[j]].at = s[q[j]].at /\ t[q[k]].at = s[q[k]].at
    BY <1>2
  <2> QED
    BY <1>2, <2>1, <2>2
<1>5. ASSUME NEW i \in 1 .. m, NEW j \in 1 .. m, i < j
      PROVE  q[i] # q[j]
  <2>1. s[q[i]].at < s[q[j]].at \/ q[i] < q[j]
    BY <1>4, <1>5
  <2>2. q[i] \in 1 .. m /\ s[q[i]].at \in Int
    BY <1>2
  <2> QED
    BY <2>1, <2>2
<1>6. \A i, j \in 1 .. m : q[i] = q[j] => i = j
  <2>1. ASSUME NEW i \in 1 .. m, NEW j \in 1 .. m, q[i] = q[j]
        PROVE  i = j
    <3>1. ~ (i < j) /\ ~ (j < i)
      BY <1>5, <2>1
    <3> QED
      BY <3>1
  <2> QED
    BY <2>1
<1>7. ASSUME NEW k \in 1 .. m, NEW l \in 1 .. m, NEW i \in 1 .. m, NEW j \in 1 .. m,
             p[k] = q[i], p[l] = q[j], k < l
      PROVE  i < j
  <2> DEFINE a == p[k]
             b == p[l]
  <2>1. a \in 1 .. m /\ b \in 1 .. m /\ a = q[i] /\ b = q[j]
    BY <1>1, <1>7
  <2>2. s[a].at \in Int /\ s[b].at \in Int
    BY <2>1
  <2>3. s[a].at < s[b].at \/ (s[a].at = s[b].at /\ a < b)
    BY <1>3, <1>7
  <2>4. j < i => s[b].at < s[a].at \/ (s[b].at = s[a].at /\ b < a)
    BY <1>4, <2>1
  <2>5. i = j => a = b
    BY <2>1
  <2> HIDE DEF a, b
  <2>6. ~ (j < i)
    BY <2>1, <2>2, <2>3, <2>4
  <2>7. i # j
    BY <2>1, <2>2, <2>3, <2>5
  <2> QED
    BY <2>6, <2>7
<1>8. Alike(p, q, m, m)
  <2>1. \A k \in 1 .. m : \E j \in 1 .. m : p[k] = q[j]
    BY <1>1, <1>2
  <2>2. \A j \in 1 .. m : \E k \in 1 .. m : p[k] = q[j]
    BY <1>1, <1>2
  <2>3. \A k, l \in 1 .. m, i, j \in 1 .. m : (p[k] = q[i] /\ p[l] = q[j] /\ k < l) => i < j
    BY <1>7
  <2> QED
    BY <1>6, <2>1, <2>2, <2>3 DEF Alike
<1>9. \A k \in 1 .. m : p[k] = q[k]
  BY <1>8, SameOrder
<1> QED
  BY <1>1, <1>2, <1>9

\* v is where w begins, and what follows it is later than the limit.
BeginsWith(w, v, limit) ==
  /\ Len(v) \in 0 .. Len(w)
  /\ \A k \in 1 .. Len(v) : v[k] = w[k]
  /\ \A k \in Len(v) + 1 .. Len(w) : w[k].at > limit

\* A log that is read to a later time begins as it did, unless a correction moved
\* an event across the time up to which it was read.
LEMMA ReadFurther ==
  ASSUME NEW l, IsLog(l), NEW u \in Int, NEW v \in Int, u <= v,
         NoneMovesAcross(l, u + DayLen)
  PROVE  BeginsWith(effectiveEvents(l, v), effectiveEvents(l, u), u + DayLen)
<1> DEFINE Low == InQuery(l, u)
           s == eventsCorrected(l, u)
           t == eventsCorrected(l, v)
           x == effectiveEvents(l, u)
           y == effectiveEvents(l, v)
           limit == u + DayLen
<1>1. Within(s, t, Low) /\ AreReads(l, s) /\ AreReads(l, t)
  BY CorrectedAlike
<1>2. x = StableByTime(s) /\ y = StableByTime(t)
  BY DEF effectiveEvents
<1>3. AreEffective(l, u, x) /\ AreEffective(l, v, y)
  BY EffectiveEvents
<1>4. l \in Seq(Entry) /\ \A i \in DOMAIN l : i \in Int /\ l[i].at \in Int
  <2>1. l \in Seq(Entry)
    BY DEF IsLog
  <2>2. \A i \in DOMAIN l : l[i] \in Entry
    BY <2>1
  <2> QED
    BY <2>1, <2>2 DEF Entry
<1>5. ASSUME NEW k \in DOMAIN y
      PROVE  y[k].at <= limit <=> y[k].id \in Low
  <2>1. y[k].id \in DOMAIN l
    BY <1>3 DEF AreEffective, AreReads
  <2>2. CASE y[k] = AsRead(l, y[k].id)
    <3>1. y[k].at = l[y[k].id].at
      BY <2>2 DEF AsRead
    <3> QED
      BY <2>1, <3>1 DEF InQuery
  <2>3. CASE \E c \in InQuery(l, v) : Deciding(l, v, c) /\ ~l[c].void /\ y[k] = AsCorrected(l, c)
    <3>1. PICK c \in InQuery(l, v) : Deciding(l, v, c) /\ y[k] = AsCorrected(l, c)
      BY <2>3
    <3>2. c \in DOMAIN l /\ l[c].kind = "correction"
      BY <3>1 DEF InQuery, Deciding
    <3>3. y[k].at = l[c].at /\ y[k].id = l[c].corrects
      BY <3>1 DEF AsCorrected
    <3>4. l[c].at <= limit <=> l[l[c].corrects].at <= limit
      BY <3>2 DEF NoneMovesAcross
    <3> QED
      BY <2>1, <3>3, <3>4 DEF InQuery
  <2> QED
    BY <1>3, <2>2, <2>3 DEF AreEffective
<1> HIDE DEF Low, s, t, x, y
<1>6. /\ s \in Seq(Read) /\ DOMAIN s = 1 .. Len(s) /\ Len(s) \in Nat
      /\ t \in Seq(Read) /\ DOMAIN t = 1 .. Len(t) /\ Len(t) \in Nat
  BY <1>1 DEF AreReads
<1>7. Timed(Read)
  BY DEF Timed, Read
<1>8. PICK p : Arranges(p, x, Len(s), s)
  BY <1>2, <1>6, <1>7, StableByTimeArranges
<1>9. PICK q : Arranges(q, y, Len(t), t)
  BY <1>2, <1>6, <1>7, StableByTimeArranges
<1>10. x \in Seq(Read) /\ y \in Seq(Read)
  BY <1>2, <1>6, <1>7, StableByTimeArranges
<1> DEFINE a == Len(s)
           b == Len(t)
<1>11. DOMAIN x = 1 .. a /\ DOMAIN y = 1 .. b /\ Len(x) = a /\ Len(y) = b
  BY <1>6, <1>8, <1>9, <1>10 DEF Arranges
<1>12. /\ \A k \in 1 .. a : p[k] \in 1 .. a /\ x[k] = s[p[k]]
       /\ \A k \in 1 .. b : q[k] \in 1 .. b /\ y[k] = t[q[k]]
       /\ \A i \in 1 .. a : \E k \in 1 .. a : p[k] = i
       /\ \A i \in 1 .. b : \E k \in 1 .. b : q[k] = i
       /\ \A j, k \in 1 .. a : j < k => x[j].at < x[k].at \/ (x[j].at = x[k].at /\ p[j] < p[k])
       /\ \A j, k \in 1 .. b : j < k => y[j].at < y[k].at \/ (y[j].at = y[k].at /\ q[j] < q[k])
  BY <1>8, <1>9 DEF Arranges
<1>13. a \in Nat /\ b \in Nat /\ DOMAIN s = 1 .. a /\ DOMAIN t = 1 .. b
  BY <1>6
<1> HIDE DEF a, b
<1>14. /\ \A k \in 1 .. b : y[k].at \in Int
       /\ \A k \in 1 .. a : x[k].at \in Int
  <2>1. \A k \in 1 .. b : y[k] \in Read
    BY <1>10, <1>11
  <2>2. \A k \in 1 .. a : x[k] \in Read
    BY <1>10, <1>11
  <2> QED
    BY <2>1, <2>2 DEF Read
<1>15. limit \in Int
  BY TimesheetAssumption
<1> HIDE DEF limit
\* The events of y up to the limit come first.
<1> DEFINE D == {k \in 1 .. b : y[k].at <= limit}
           n == Cardinality(D)
<1>16. D = 1 .. n /\ n \in 0 .. b
  <2>1. \A k \in D : \A j \in 1 .. k : j \in D
    <3>1. ASSUME NEW k \in D, NEW j \in 1 .. k
          PROVE  j \in D
      <4>1. j \in 1 .. b /\ (j = k \/ j < k)
        BY <1>13
      <4>2. y[j].at <= y[k].at
        BY <1>12, <1>14, <4>1
      <4> QED
        BY <1>14, <1>15, <4>1, <4>2
    <3> QED
      BY <3>1
  <2>2. D \in SUBSET (1 .. b)
    OBVIOUS
  <2> HIDE DEF D
  <2> QED
    BY <1>13, <2>1, <2>2, FirstOnes
<1>17. \A k \in 1 .. b : k \in 1 .. n <=> y[k].id \in Low
  <2>1. \A k \in 1 .. b : k \in D <=> y[k].at <= limit
    OBVIOUS
  <2> HIDE DEF D, n
  <2> QED
    BY <1>5, <1>11, <1>16, <2>1
<1>18. \A k \in n + 1 .. b : y[k].at > limit
  <2>1. \A k \in 1 .. b : k \in D <=> y[k].at <= limit
    OBVIOUS
  <2> HIDE DEF D, n
  <2>2. \A k \in n + 1 .. b : k \in 1 .. b /\ k \notin 1 .. n
    BY <1>13, <1>16
  <2> QED
    BY <1>14, <1>15, <1>16, <2>1, <2>2
<1>19. n \in Nat /\ n <= b /\ \A k \in 1 .. n : k \in 1 .. b
  <2> HIDE DEF D, n
  <2> QED
    BY <1>13, <1>16
<1> HIDE DEF D, n
<1>20. ASSUME NEW k \in 1 .. a
       PROVE  \E j \in 1 .. n : x[k] = y[j]
  <2>1. p[k] \in DOMAIN s /\ x[k] = s[p[k]]
    BY <1>12, <1>13
  <2>2. PICK m \in DOMAIN t : t[m] = s[p[k]] /\ s[p[k]].id \in Low
    BY <1>1, <2>1 DEF Within
  <2>3. PICK j \in 1 .. b : q[j] = m
    BY <1>12, <1>13
  <2>4. y[j] = x[k] /\ y[j].id \in Low
    BY <1>12, <2>1, <2>2, <2>3
  <2> QED
    BY <1>17, <2>4
<1>21. ASSUME NEW j \in 1 .. n
       PROVE  \E k \in 1 .. a : x[k] = y[j]
  <2>1. j \in 1 .. b /\ y[j].id \in Low
    BY <1>17, <1>19
  <2>2. q[j] \in DOMAIN t /\ y[j] = t[q[j]]
    BY <1>12, <1>13, <2>1
  <2>3. PICK i \in DOMAIN s : s[i] = t[q[j]]
    BY <1>1, <2>1, <2>2 DEF Within
  <2>4. PICK k \in 1 .. a : p[k] = i
    BY <1>12, <1>13
  <2>5. x[k] = y[j]
    BY <1>12, <2>2, <2>3, <2>4
  <2> QED
    BY <2>5
<1>22. ASSUME NEW i \in 1 .. n, NEW j \in 1 .. n, y[i] = y[j]
       PROVE  i = j
  <2>1. i \in DOMAIN y /\ j \in DOMAIN y
    BY <1>11, <1>19
  <2> QED
    BY <1>3, <1>22, <2>1 DEF AreEffective, AreReads
<1>23. ASSUME NEW k \in 1 .. a, NEW m \in 1 .. a, NEW i \in 1 .. n, NEW j \in 1 .. n,
              x[k] = y[i], x[m] = y[j], k < m
       PROVE  i < j
  <2>1. i \in 1 .. b /\ j \in 1 .. b /\ i \in Int /\ j \in Int
    BY <1>19
  <2>2. y[i].at < y[j].at \/ (y[i].at = y[j].at /\ p[k] < p[m])
    BY <1>12, <1>23
  <2>3. p[k] < p[m] => q[i] < q[j]
    <3>1. p[k] \in DOMAIN s /\ p[m] \in DOMAIN s /\ x[k] = s[p[k]] /\ x[m] = s[p[m]]
      BY <1>12, <1>13
    <3>2. q[i] \in DOMAIN t /\ q[j] \in DOMAIN t /\ y[i] = t[q[i]] /\ y[j] = t[q[j]]
      BY <1>12, <1>13, <2>1
    <3>3. s[p[k]] = t[q[i]] /\ s[p[m]] = t[q[j]]
      BY <1>23, <3>1, <3>2
    <3> QED
      BY <1>1, <3>1, <3>2, <3>3 DEF Within
  <2>4. y[i].at \in Int /\ y[j].at \in Int /\ q[i] \in Int /\ q[j] \in Int
    BY <1>12, <1>14, <2>1
  <2>5. j < i => y[j].at < y[i].at \/ (y[j].at = y[i].at /\ q[j] < q[i])
    BY <1>12, <2>1
  <2>6. i # j
    BY <2>2, <2>3, <2>4
  <2> QED
    BY <2>1, <2>2, <2>3, <2>4, <2>5, <2>6
<1>24. a = n /\ \A k \in 1 .. a : x[k] = y[k]
  <2>1. \A k \in 1 .. a : \E j \in 1 .. n : x[k] = y[j]
    BY <1>20
  <2>2. \A j \in 1 .. n : \E k \in 1 .. a : x[k] = y[j]
    BY <1>21
  <2>3. \A k, m \in 1 .. a, i, j \in 1 .. n : (x[k] = y[i] /\ x[m] = y[j] /\ k < m) => i < j
    BY <1>23
  <2>4. \A i, j \in 1 .. n : y[i] = y[j] => i = j
    BY <1>22
  <2>5. Alike(x, y, a, n)
    BY <2>1, <2>2, <2>3, <2>4 DEF Alike
  <2> QED
    BY <1>13, <1>19, <2>5, SameOrder
<1>25. BeginsWith(y, x, limit)
  BY <1>11, <1>13, <1>16, <1>18, <1>19, <1>24 DEF BeginsWith
<1> QED
  BY <1>25 DEF x, y, limit

-----------------------------------------------------------------------------
(* Spans.                                                                  *)

Span == [start : Int, end : Int]
Spanning == [active : Int, spans : Seq(Span)]

SpanSteps(h, events) ==
  /\ h \in [0 .. Len(events) -> Spanning]
  /\ h[0] = [active |-> -1, spans |-> <<>>]
  /\ \A k \in 1 .. Len(events) : h[k] = spanStep(h[k - 1], events[k])

\* What an event makes of the spans before it.
LEMMA EventSpans ==
  ASSUME NEW s \in Spanning, NEW e \in Read
  PROVE  LET t == spanStep(s, e)
         IN /\ t \in Spanning
            /\ \/ t.active \in {e.at, s.active} /\ t.spans = s.spans
               \/ /\ s.active >= 0 /\ t.active = -1
                  /\ t.spans = Append(s.spans, [start |-> s.active, end |-> e.at])
<1>1. e.at \in Int /\ s.active \in Int /\ s.spans \in Seq(Span)
  BY DEF Read, Spanning
<1> DEFINE one == [active |-> e.at, spans |-> s.spans]
           new == [start |-> s.active, end |-> e.at]
           other == [active |-> -1, spans |-> Append(s.spans, new)]
<1>2. one \in Spanning /\ one.active = e.at /\ one.spans = s.spans
  BY <1>1 DEF Spanning
<1>3. new \in Span
  BY <1>1 DEF Span
<1>4. other \in Spanning /\ other.active = -1 /\ other.spans = Append(s.spans, new)
  <2> HIDE DEF new
  <2> QED
    BY <1>1, <1>3 DEF Spanning
<1> HIDE DEF one, new, other
<1>5. spanStep(s, e) = one \/ spanStep(s, e) = s \/ (s.active >= 0 /\ spanStep(s, e) = other)
  <2>1. spanStep(s, e) = IF e.kind = "clock_in" \/ (e.kind = "break_end" /\ s.active < 0)
                         THEN one
                         ELSE IF e.kind = "break_end" \/ (e.kind = "break_start" /\ e.paid)
                                   \/ s.active < 0
                              THEN s ELSE other
    BY DEF spanStep, one, other, new
  <2> QED
    BY <1>1, <2>1
<1> QED
  BY <1>2, <1>4, <1>5 DEF new

LEMMA SpansInSteps ==
  ASSUME NEW events \in Seq(Read)
  PROVE  \E h : SpanSteps(h, events) /\ spansSeen(events) = h[Len(events)]
<1> DEFINE base == [active |-> -1, spans |-> <<>>]
           n == Len(events)
           T == Spanning
           op(s, e) == spanStep(s, e)
           step == [p \in (1 .. n) \X T |-> op(p[2], events[p[1]])]
           Fold(g) == g = [s \in SUBSET DOMAIN events |->
                             IF s = {} THEN base
                             ELSE op(g[s \ {Max(s)}], events[Max(s)])]
           iter == CHOOSE g : Fold(g)
           value == iter[1 .. n]
<1>1. n \in Nat /\ DOMAIN events = 1 .. n
  OBVIOUS
<1>2. spansSeen(events) = value
  <2>1. spansSeen(events) = iter[DOMAIN events]
    BY DEF spansSeen, FoldLeft, MapThenFoldSet
  <2> QED
    BY <1>1, <2>1
<1>3. base \in T
  BY DEF Spanning
<1>4. ASSUME NEW s \in T, NEW k \in 1 .. n
      PROVE  op(s, events[k]) \in T
  <2>1. events[k] \in Read
    BY <1>1
  <2> QED
    BY <2>1, EventSpans
<1> HIDE DEF base, T
<1>5. step \in [(1 .. n) \X T -> T]
  <2> HIDE DEF op
  <2> QED
    BY <1>4
<1>6. \A k \in 1 .. n, s \in T : step[<<k, s>>] = op(s, events[k])
  OBVIOUS
<1> HIDE DEF step, n, op
<1>7. PICK g : FoldTable(g, n, T, base, step)
  BY <1>1, <1>3, <1>5, FoldIsDefined
<1>8. Fold(g)
  <2>1. ASSUME NEW s \in SUBSET (1 .. n)
        PROVE  g[s] = IF s = {} THEN base ELSE op(g[s \ {Max(s)}], events[Max(s)])
    <3>1. s # {} => Max(s) \in 1 .. n /\ s \ {Max(s)} \in SUBSET (1 .. n)
      BY <1>1, MaxOfIndexes
    <3> QED
      BY <1>6, <1>7, <3>1 DEF FoldTable
  <2> QED
    BY <1>1, <1>7, <2>1 DEF FoldTable
<1>9. Fold(iter)
  <2> HIDE DEF Fold
  <2> QED
    BY <1>8
<1> HIDE DEF iter
<1>10. iter[{}] = base
  BY <1>9
<1>11. FoldRun(iter, n, T, base, step)
  BY <1>1, <1>6, <1>9, <1>10, MaxOfIndexes DEF FoldRun
<1> HIDE DEF value
<1>12. value = iter[1 .. n]
  BY DEF value
<1>13. PICK h : FoldSteps(h, n, T, base, step, value)
  BY <1>1, <1>3, <1>5, <1>11, <1>12, FoldAdvances
<1>14. h \in [0 .. n -> T] /\ h[0] = base /\ h[n] = value
  BY <1>13 DEF FoldSteps
<1>15. ASSUME NEW k \in 1 .. n
       PROVE  h[k] = op(h[k - 1], events[k])
  <2>1. h[k - 1] \in T
    BY <1>1, <1>14
  <2> QED
    BY <1>6, <1>13, <2>1 DEF FoldSteps
<1>16. SpanSteps(h, events)
  BY <1>14, <1>15 DEF SpanSteps, T, base, op, n
<1> QED
  BY <1>2, <1>14, <1>16 DEF n

\* t begins with the spans of s, and the others begin at the limit or later.
SpansBeyond(t, s, limit) ==
  /\ t \in Seq(Span) /\ s \in Seq(Span)
  /\ Len(s) <= Len(t)
  /\ \A i \in 1 .. Len(s) : t[i] = s[i]
  /\ \A i \in Len(s) + 1 .. Len(t) : t[i].start >= limit

LEMMA OneSpanBeyond ==
  ASSUME NEW t, NEW s, NEW limit \in Int, SpansBeyond(t, s, limit),
         NEW start \in Int, NEW end \in Int, start >= limit
  PROVE  SpansBeyond(Append(t, [start |-> start, end |-> end]), s, limit)
<1> DEFINE new == [start |-> start, end |-> end]
           w == Append(t, new)
<1>1. new \in Span /\ new.start = start
  BY DEF Span
<1> HIDE DEF new
<1>2. /\ t \in Seq(Span) /\ s \in Seq(Span) /\ Len(s) <= Len(t)
      /\ Len(t) \in Nat /\ Len(s) \in Nat
  BY DEF SpansBeyond
<1>3. /\ w \in Seq(Span) /\ Len(w) = Len(t) + 1
      /\ \A i \in 1 .. Len(t) : w[i] = t[i]
      /\ w[Len(t) + 1] = new
  BY <1>1, <1>2
<1> HIDE DEF w
<1>4. \A i \in 1 .. Len(s) : w[i] = s[i]
  BY <1>2, <1>3 DEF SpansBeyond
<1>5. ASSUME NEW i \in Len(s) + 1 .. Len(w)
      PROVE  w[i].start >= limit
  <2>1. i = Len(t) + 1 \/ (i \in 1 .. Len(t) /\ i \in Len(s) + 1 .. Len(t))
    BY <1>2, <1>3
  <2> QED
    BY <1>1, <1>3, <2>1 DEF SpansBeyond
<1>6. SpansBeyond(w, s, limit)
  BY <1>2, <1>3, <1>4, <1>5 DEF SpansBeyond
<1> QED
  BY <1>6 DEF w, new

\* A log that is read further has the spans it had, when none was open before
\* the limit, and others that begin after it.
LEMMA SpansReadFurther ==
  ASSUME NEW x \in Seq(Read), NEW y \in Seq(Read), NEW far \in Int, NEW limit \in Int,
         limit <= far, BeginsWith(y, x, far), spansSeen(x).active \notin 0 .. limit - 1
  PROVE  /\ spansSeen(x) \in Spanning /\ spansSeen(y) \in Spanning
         /\ SpansBeyond(spansSeen(y).spans, spansSeen(x).spans, limit)
         /\ spansSeen(y).active \notin 0 .. limit - 1
<1>1. PICK h : SpanSteps(h, x) /\ spansSeen(x) = h[Len(x)]
  BY SpansInSteps
<1>2. PICK g : SpanSteps(g, y) /\ spansSeen(y) = g[Len(y)]
  BY SpansInSteps
<1> DEFINE a == Len(x)
           b == Len(y)
           s == h[a]
<1>3. a \in Nat /\ b \in Nat /\ a <= b
  BY DEF BeginsWith
<1>4. /\ \A k \in 1 .. a : x[k] \in Read /\ y[k] = x[k]
      /\ \A k \in a + 1 .. b : y[k] \in Read /\ y[k].at > far
  BY <1>3 DEF BeginsWith
<1>5. /\ \A k \in 0 .. a : h[k] \in Spanning
      /\ \A k \in 0 .. b : g[k] \in Spanning
      /\ h[0] = g[0]
      /\ \A k \in 1 .. a : h[k] = spanStep(h[k - 1], x[k])
      /\ \A k \in 1 .. b : g[k] = spanStep(g[k - 1], y[k])
  BY <1>1, <1>2 DEF SpanSteps
<1> HIDE DEF a, b
<1> DEFINE Same == {k \in 0 .. a : g[k] = h[k]}
<1>6. a \in Same
  <2>1. 0 \in Same
    BY <1>3, <1>5
  <2>2. ASSUME NEW m \in 0 .. a - 1, m \in Same
        PROVE  m + 1 \in Same
    <3>1. /\ m + 1 \in 1 .. a /\ m + 1 \in 1 .. b /\ m + 1 \in 0 .. a /\ (m + 1) - 1 = m
      BY <1>3
    <3>2. g[m] = h[m]
      BY <2>2
    <3>3. y[m + 1] = x[m + 1]
      BY <1>4, <3>1
    <3>4. h[m + 1] = spanStep(h[m], x[m + 1]) /\ g[m + 1] = spanStep(g[m], y[m + 1])
      BY <1>5, <3>1
    <3>5. g[m + 1] = h[m + 1]
      BY <3>2, <3>3, <3>4
    <3> QED
      BY <3>1, <3>5
  <2> HIDE DEF Same
  <2> QED
    BY <1>3, <2>1, <2>2, UpTo
<1>7. g[a] = s
  BY <1>6
<1>8. s \in Spanning /\ s.active \notin 0 .. limit - 1
  BY <1>1, <1>3, <1>5 DEF a
<1> HIDE DEF Same, s
<1> DEFINE Good(k) == /\ SpansBeyond(g[a + k].spans, s.spans, limit)
                      /\ g[a + k].active \notin 0 .. limit - 1
           Further == {k \in 0 .. b - a : Good(k)}
<1>9. 0 \in Further
  <2>1. s.spans \in Seq(Span) /\ Len(s.spans) \in Nat
    BY <1>8 DEF Spanning
  <2>2. SpansBeyond(s.spans, s.spans, limit)
    BY <2>1 DEF SpansBeyond
  <2>3. a + 0 = a /\ 0 \in 0 .. b - a
    BY <1>3
  <2> QED
    BY <1>7, <1>8, <2>2, <2>3
<1>10. ASSUME NEW m \in 0 .. (b - a) - 1, m \in Further
       PROVE  m + 1 \in Further
  <2> DEFINE k == a + m
             t == g[k]
             e == y[k + 1]
             u == g[k + 1]
  <2>1. /\ m + 1 \in 0 .. b - a /\ k \in 0 .. b /\ k + 1 \in 0 .. b /\ k + 1 \in 1 .. b
        /\ k + 1 \in a + 1 .. b /\ (k + 1) - 1 = k /\ a + (m + 1) = k + 1
    BY <1>3
  <2>2. SpansBeyond(t.spans, s.spans, limit) /\ t.active \notin 0 .. limit - 1
    BY <1>10
  <2>3. e \in Read /\ e.at > far
    BY <1>4, <2>1
  <2>4. t \in Spanning /\ u = spanStep(t, e)
    BY <1>5, <2>1
  <2> HIDE DEF k, t, e, u
  <2>5. e.at \in Int /\ t.active \in Int
    BY <2>3, <2>4 DEF Read, Spanning
  <2>6. \/ u.active \in {e.at, t.active} /\ u.spans = t.spans
        \/ /\ t.active >= 0 /\ u.active = -1
           /\ u.spans = Append(t.spans, [start |-> t.active, end |-> e.at])
    BY <2>3, <2>4, EventSpans
  <2>7. SpansBeyond(u.spans, s.spans, limit) /\ u.active \notin 0 .. limit - 1
    <3>1. CASE u.active \in {e.at, t.active} /\ u.spans = t.spans
      BY <2>2, <2>3, <2>5, <3>1
    <3>2. CASE /\ t.active >= 0 /\ u.active = -1
               /\ u.spans = Append(t.spans, [start |-> t.active, end |-> e.at])
      <4>1. t.active >= limit
        BY <2>2, <2>5, <3>2
      <4>2. SpansBeyond(u.spans, s.spans, limit)
        BY <2>2, <2>5, <3>2, <4>1, OneSpanBeyond
      <4> QED
        BY <3>2, <4>2
    <3> QED
      BY <2>6, <3>1, <3>2
  <2>8. Good(m + 1)
    BY <2>1, <2>7 DEF u
  <2> QED
    BY <2>1, <2>8
<1> HIDE DEF Good
<1>11. b - a \in Further
  <2>1. b - a \in Nat
    BY <1>3
  <2> HIDE DEF Further
  <2> QED
    BY <1>9, <1>10, <2>1, UpTo
<1>12. Good(b - a) /\ a + (b - a) = b
  BY <1>3, <1>11
<1>13. SpansBeyond(g[b].spans, s.spans, limit) /\ g[b].active \notin 0 .. limit - 1
  BY <1>12 DEF Good
<1>14. h[a] \in Spanning /\ g[b] \in Spanning
  BY <1>3, <1>5
<1> QED
  BY <1>1, <1>2, <1>13, <1>14 DEF a, b, s

\* So have the spans of work, when an open one is counted to the limit.
LEMMA WorkSpansBeyond ==
  ASSUME NEW events, spansSeen(events) \in Spanning, NEW limit \in Int, NEW s,
         SpansBeyond(spansSeen(events).spans, s, limit),
         spansSeen(events).active \notin 0 .. limit - 1
  PROVE  SpansBeyond(workSpans(events, limit), s, limit)
<1> DEFINE last == spansSeen(events)
           until == IF limit > last.active THEN limit ELSE last.active
<1>1. last.active \in Int
  BY DEF Spanning
<1>2. workSpans(events, limit) =
        IF last.active < 0 THEN last.spans
        ELSE Append(last.spans, [start |-> last.active, end |-> until])
  BY DEF workSpans
<1>3. until \in Int
  BY <1>1
<1> HIDE DEF until, last
<1>4. SpansBeyond(last.spans, s, limit) /\ last.active \notin 0 .. limit - 1
  BY DEF last
<1>5. CASE last.active < 0
  BY <1>2, <1>4, <1>5
<1>6. CASE ~ (last.active < 0)
  <2>1. last.active >= limit
    BY <1>1, <1>4, <1>6
  <2>2. SpansBeyond(Append(last.spans, [start |-> last.active, end |-> until]), s, limit)
    BY <1>1, <1>3, <1>4, <2>1, OneSpanBeyond
  <2> QED
    BY <1>2, <1>6, <2>2
<1> QED
  BY <1>5, <1>6

-----------------------------------------------------------------------------
(* Anomalous days.                                                         *)

Following == [state : {"off", "work", "break"}, last : Int, dates : SUBSET Int]

FollowingSteps(h, events) ==
  /\ h \in [0 .. Len(events) -> Following]
  /\ h[0] = [state |-> "off", last |-> 0, dates |-> {}]
  /\ \A k \in 1 .. Len(events) : h[k] = anomalyStep(h[k - 1], events[k])

\* What an event adds to the days before it.
LEMMA EventFollows ==
  ASSUME NEW s \in Following, NEW e \in Read
  PROVE  LET t == anomalyStep(s, e)
         IN /\ t \in Following /\ t.last = DayOf(e.at)
            /\ t.dates = s.dates \/ t.dates = s.dates \union {DayOf(e.at)}
<1> DEFINE day == DayOf(e.at)
           more == IF s.state = expectedState(e.kind) THEN s.dates ELSE s.dates \union {day}
           t == [state |-> nextState(e.kind), last |-> day, dates |-> more]
<1>1. day \in Int
  BY TimesheetAssumption DEF DayOf, Read
<1>2. s.dates \in SUBSET Int
  BY DEF Following
<1>3. nextState(e.kind) \in {"off", "work", "break"}
  BY DEF nextState
<1>4. anomalyStep(s, e) = t
  BY DEF anomalyStep
<1> HIDE DEF day
<1>5. more \in SUBSET Int /\ (more = s.dates \/ more = s.dates \union {day})
  BY <1>1, <1>2
<1> HIDE DEF more
<1>6. t \in Following /\ t.last = day /\ t.dates = more
  BY <1>1, <1>3, <1>5 DEF Following
<1> QED
  BY <1>4, <1>5, <1>6 DEF day

LEMMA AnomaliesInSteps ==
  ASSUME NEW events \in Seq(Read)
  PROVE  \E h : FollowingSteps(h, events) /\ anomaliesSeen(events) = h[Len(events)]
<1> DEFINE base == [state |-> "off", last |-> 0, dates |-> {}]
           n == Len(events)
           T == Following
           op(s, e) == anomalyStep(s, e)
           step == [p \in (1 .. n) \X T |-> op(p[2], events[p[1]])]
           Fold(g) == g = [s \in SUBSET DOMAIN events |->
                             IF s = {} THEN base
                             ELSE op(g[s \ {Max(s)}], events[Max(s)])]
           iter == CHOOSE g : Fold(g)
           value == iter[1 .. n]
<1>1. n \in Nat /\ DOMAIN events = 1 .. n
  OBVIOUS
<1>2. anomaliesSeen(events) = value
  <2>1. anomaliesSeen(events) = iter[DOMAIN events]
    BY DEF anomaliesSeen, FoldLeft, MapThenFoldSet
  <2> QED
    BY <1>1, <2>1
<1>3. base \in T
  BY DEF Following
<1>4. ASSUME NEW s \in T, NEW k \in 1 .. n
      PROVE  op(s, events[k]) \in T
  <2>1. events[k] \in Read
    BY <1>1
  <2> QED
    BY <2>1, EventFollows
<1> HIDE DEF base, T
<1>5. step \in [(1 .. n) \X T -> T]
  <2> HIDE DEF op
  <2> QED
    BY <1>4
<1>6. \A k \in 1 .. n, s \in T : step[<<k, s>>] = op(s, events[k])
  OBVIOUS
<1> HIDE DEF step, n, op
<1>7. PICK g : FoldTable(g, n, T, base, step)
  BY <1>1, <1>3, <1>5, FoldIsDefined
<1>8. Fold(g)
  <2>1. ASSUME NEW s \in SUBSET (1 .. n)
        PROVE  g[s] = IF s = {} THEN base ELSE op(g[s \ {Max(s)}], events[Max(s)])
    <3>1. s # {} => Max(s) \in 1 .. n /\ s \ {Max(s)} \in SUBSET (1 .. n)
      BY <1>1, MaxOfIndexes
    <3> QED
      BY <1>6, <1>7, <3>1 DEF FoldTable
  <2> QED
    BY <1>1, <1>7, <2>1 DEF FoldTable
<1>9. Fold(iter)
  <2> HIDE DEF Fold
  <2> QED
    BY <1>8
<1> HIDE DEF iter
<1>10. iter[{}] = base
  BY <1>9
<1>11. FoldRun(iter, n, T, base, step)
  BY <1>1, <1>6, <1>9, <1>10, MaxOfIndexes DEF FoldRun
<1> HIDE DEF value
<1>12. value = iter[1 .. n]
  BY DEF value
<1>13. PICK h : FoldSteps(h, n, T, base, step, value)
  BY <1>1, <1>3, <1>5, <1>11, <1>12, FoldAdvances
<1>14. h \in [0 .. n -> T] /\ h[0] = base /\ h[n] = value
  BY <1>13 DEF FoldSteps
<1>15. ASSUME NEW k \in 1 .. n
       PROVE  h[k] = op(h[k - 1], events[k])
  <2>1. h[k - 1] \in T
    BY <1>1, <1>14
  <2> QED
    BY <1>6, <1>13, <2>1 DEF FoldSteps
<1>16. FollowingSteps(h, events)
  BY <1>14, <1>15 DEF FollowingSteps, T, base, op, n
<1> QED
  BY <1>2, <1>14, <1>16 DEF n

\* A log that is read further adds no anomaly on a day that is over by then.
LEMMA AnomaliesReadFurther ==
  ASSUME NEW x \in Seq(Read), NEW y \in Seq(Read), NEW far \in Int, BeginsWith(y, x, far),
         NEW d \in Int, \A t \in Int : t > far => DayOf(t) > d,
         d \notin sequenceAnomalyDates(x)
  PROVE  d \notin sequenceAnomalyDates(y)
<1>1. PICK h : FollowingSteps(h, x) /\ anomaliesSeen(x) = h[Len(x)]
  BY AnomaliesInSteps
<1>2. PICK g : FollowingSteps(g, y) /\ anomaliesSeen(y) = g[Len(y)]
  BY AnomaliesInSteps
<1> DEFINE a == Len(x)
           b == Len(y)
<1>3. a \in Nat /\ b \in Nat /\ a <= b
  BY DEF BeginsWith
<1>4. /\ \A k \in 1 .. a : x[k] \in Read /\ y[k] = x[k]
      /\ \A k \in a + 1 .. b : y[k] \in Read /\ y[k].at > far
  BY <1>3 DEF BeginsWith
<1>5. /\ \A k \in 0 .. a : h[k] \in Following
      /\ \A k \in 0 .. b : g[k] \in Following
      /\ h[0] = g[0]
      /\ \A k \in 1 .. a : h[k] = anomalyStep(h[k - 1], x[k])
      /\ \A k \in 1 .. b : g[k] = anomalyStep(g[k - 1], y[k])
  BY <1>1, <1>2 DEF FollowingSteps
<1>6. /\ d \notin h[a].dates /\ (h[a].state # "off" => h[a].last # d)
  BY <1>1 DEF sequenceAnomalyDates
<1> HIDE DEF a, b
<1> DEFINE Same == {k \in 0 .. a : g[k] = h[k]}
<1>7. a \in Same
  <2>1. 0 \in Same
    BY <1>3, <1>5
  <2>2. ASSUME NEW m \in 0 .. a - 1, m \in Same
        PROVE  m + 1 \in Same
    <3>1. /\ m + 1 \in 1 .. a /\ m + 1 \in 1 .. b /\ m + 1 \in 0 .. a /\ (m + 1) - 1 = m
      BY <1>3
    <3>2. g[m] = h[m]
      BY <2>2
    <3>3. y[m + 1] = x[m + 1]
      BY <1>4, <3>1
    <3>4. h[m + 1] = anomalyStep(h[m], x[m + 1]) /\ g[m + 1] = anomalyStep(g[m], y[m + 1])
      BY <1>5, <3>1
    <3>5. g[m + 1] = h[m + 1]
      BY <3>2, <3>3, <3>4
    <3> QED
      BY <3>1, <3>5
  <2> HIDE DEF Same
  <2> QED
    BY <1>3, <2>1, <2>2, UpTo
<1>8. d \notin g[a].dates /\ (g[a].state # "off" => g[a].last # d)
  BY <1>6, <1>7
<1> HIDE DEF Same
<1> DEFINE Good(k) == d \notin g[a + k].dates /\ (g[a + k].state # "off" => g[a + k].last # d)
           Further == {k \in 0 .. b - a : Good(k)}
<1>9. 0 \in Further
  <2>1. a + 0 = a /\ 0 \in 0 .. b - a
    BY <1>3
  <2> QED
    BY <1>8, <2>1
<1>10. ASSUME NEW m \in 0 .. (b - a) - 1, m \in Further
       PROVE  m + 1 \in Further
  <2> DEFINE k == a + m
             t == g[k]
             e == y[k + 1]
             u == g[k + 1]
  <2>1. /\ m + 1 \in 0 .. b - a /\ k \in 0 .. b /\ k + 1 \in 0 .. b /\ k + 1 \in 1 .. b
        /\ k + 1 \in a + 1 .. b /\ (k + 1) - 1 = k /\ a + (m + 1) = k + 1
    BY <1>3
  <2>2. d \notin t.dates
    BY <1>10
  <2>3. e \in Read /\ e.at > far
    BY <1>4, <2>1
  <2>4. t \in Following /\ u = anomalyStep(t, e)
    BY <1>5, <2>1
  <2> HIDE DEF k, t, e, u
  <2>5. DayOf(e.at) # d
    <3>1. e.at \in Int
      BY <2>3 DEF Read
    <3>2. DayOf(e.at) > d
      BY <2>3, <3>1
    <3> QED
      BY <3>2
  <2>6. u.last = DayOf(e.at) /\ (u.dates = t.dates \/ u.dates = t.dates \union {DayOf(e.at)})
    BY <2>3, <2>4, EventFollows
  <2>7. d \notin u.dates /\ u.last # d
    BY <2>2, <2>5, <2>6
  <2>8. Good(m + 1)
    BY <2>1, <2>7 DEF u
  <2> QED
    BY <2>1, <2>8
<1> HIDE DEF Good
<1>11. b - a \in Further
  <2>1. b - a \in Nat
    BY <1>3
  <2> HIDE DEF Further
  <2> QED
    BY <1>9, <1>10, <2>1, UpTo
<1>12. Good(b - a) /\ a + (b - a) = b
  BY <1>3, <1>11
<1>13. d \notin g[b].dates /\ (g[b].state # "off" => g[b].last # d)
  BY <1>12 DEF Good
<1> QED
  BY <1>2, <1>13 DEF sequenceAnomalyDates, b

-----------------------------------------------------------------------------
(* Sums of time.                                                           *)

Lasting(T) == \A x \in T : x.start \in Int /\ x.end \in Int

TimeSteps(h, s) ==
  /\ h \in [0 .. Len(s) -> Int]
  /\ h[0] = 0
  /\ \A k \in 1 .. Len(s) : h[k] = h[k - 1] + s[k].end - s[k].start

LEMMA TimeInSteps ==
  ASSUME NEW U, Lasting(U), NEW spans \in Seq(U)
  PROVE  \E h : TimeSteps(h, spans) /\ TimeIn(spans) = h[Len(spans)]
<1> DEFINE base == 0
           n == Len(spans)
           T == Int
           op(s, e) == s + e.end - e.start
           step == [p \in (1 .. n) \X T |-> op(p[2], spans[p[1]])]
           Fold(g) == g = [s \in SUBSET DOMAIN spans |->
                             IF s = {} THEN base
                             ELSE op(g[s \ {Max(s)}], spans[Max(s)])]
           iter == CHOOSE g : Fold(g)
           value == iter[1 .. n]
<1>1. n \in Nat /\ DOMAIN spans = 1 .. n
  OBVIOUS
<1>2. TimeIn(spans) = value
  <2>1. TimeIn(spans) = iter[DOMAIN spans]
    BY DEF TimeIn, FoldLeft, MapThenFoldSet
  <2> QED
    BY <1>1, <2>1
<1>3. base \in T
  OBVIOUS
<1>4. ASSUME NEW s \in T, NEW k \in 1 .. n
      PROVE  op(s, spans[k]) \in T
  <2>1. spans[k] \in U
    BY <1>1
  <2>2. spans[k].end \in Int /\ spans[k].start \in Int
    BY <2>1 DEF Lasting
  <2> QED
    BY <2>2
<1> HIDE DEF base, T
<1>5. step \in [(1 .. n) \X T -> T]
  <2> HIDE DEF op
  <2> QED
    BY <1>4
<1>6. \A k \in 1 .. n, s \in T : step[<<k, s>>] = op(s, spans[k])
  OBVIOUS
<1> HIDE DEF step, n, op
<1>7. PICK g : FoldTable(g, n, T, base, step)
  BY <1>1, <1>3, <1>5, FoldIsDefined
<1>8. Fold(g)
  <2>1. ASSUME NEW s \in SUBSET (1 .. n)
        PROVE  g[s] = IF s = {} THEN base ELSE op(g[s \ {Max(s)}], spans[Max(s)])
    <3>1. s # {} => Max(s) \in 1 .. n /\ s \ {Max(s)} \in SUBSET (1 .. n)
      BY <1>1, MaxOfIndexes
    <3> QED
      BY <1>6, <1>7, <3>1 DEF FoldTable
  <2> QED
    BY <1>1, <1>7, <2>1 DEF FoldTable
<1>9. Fold(iter)
  <2> HIDE DEF Fold
  <2> QED
    BY <1>8
<1> HIDE DEF iter
<1>10. iter[{}] = base
  BY <1>9
<1>11. FoldRun(iter, n, T, base, step)
  BY <1>1, <1>6, <1>9, <1>10, MaxOfIndexes DEF FoldRun
<1> HIDE DEF value
<1>12. value = iter[1 .. n]
  BY DEF value
<1>13. PICK h : FoldSteps(h, n, T, base, step, value)
  BY <1>1, <1>3, <1>5, <1>11, <1>12, FoldAdvances
<1>14. h \in [0 .. n -> T] /\ h[0] = base /\ h[n] = value
  BY <1>13 DEF FoldSteps
<1>15. ASSUME NEW k \in 1 .. n
       PROVE  h[k] = op(h[k - 1], spans[k])
  <2>1. h[k - 1] \in T
    BY <1>1, <1>14
  <2> QED
    BY <1>6, <1>13, <2>1 DEF FoldSteps
<1>16. TimeSteps(h, spans)
  BY <1>14, <1>15 DEF TimeSteps, T, base, op, n
<1> QED
  BY <1>2, <1>14, <1>16 DEF n

\* One more.
LEMMA TimeInOneMore ==
  ASSUME NEW U, Lasting(U), NEW s \in Seq(U), NEW x \in U
  PROVE  TimeIn(s) \in Int /\ TimeIn(Append(s, x)) = TimeIn(s) + x.end - x.start
<1> DEFINE w == Append(s, x)
           n == Len(s)
<1>1. n \in Nat /\ w \in Seq(U) /\ Len(w) = n + 1 /\ w[n + 1] = x /\ \A k \in 1 .. n : w[k] = s[k]
  OBVIOUS
<1>2. PICK h : TimeSteps(h, s) /\ TimeIn(s) = h[n]
  BY TimeInSteps
<1> HIDE DEF w
<1>3. PICK g : TimeSteps(g, w) /\ TimeIn(w) = g[n + 1]
  BY <1>1, TimeInSteps
<1>4. /\ h \in [0 .. n -> Int] /\ h[0] = 0
      /\ \A k \in 1 .. n : h[k] = h[k - 1] + s[k].end - s[k].start
  BY <1>2 DEF TimeSteps
<1>5. /\ g \in [0 .. n + 1 -> Int] /\ g[0] = 0
      /\ \A k \in 1 .. n + 1 : g[k] = g[k - 1] + w[k].end - w[k].start
  BY <1>1, <1>3 DEF TimeSteps
<1> HIDE DEF n
<1> DEFINE Same == {k \in 0 .. n : g[k] = h[k]}
<1>6. n \in Same
  <2>1. 0 \in Same
    BY <1>1, <1>4, <1>5
  <2>2. ASSUME NEW m \in 0 .. n - 1, m \in Same
        PROVE  m + 1 \in Same
    <3>1. /\ m + 1 \in 1 .. n /\ m + 1 \in 1 .. n + 1 /\ m + 1 \in 0 .. n /\ (m + 1) - 1 = m
      BY <1>1
    <3>2. g[m] = h[m]
      BY <2>2
    <3>3. w[m + 1] = s[m + 1]
      BY <1>1, <3>1
    <3>4. h[m + 1] = h[m] + s[m + 1].end - s[m + 1].start
      BY <1>4, <3>1
    <3>5. g[m + 1] = g[m] + w[m + 1].end - w[m + 1].start
      BY <1>5, <3>1
    <3>6. g[m + 1] = h[m + 1]
      BY <3>2, <3>3, <3>4, <3>5
    <3> QED
      BY <3>1, <3>6
  <2> HIDE DEF Same
  <2> QED
    BY <1>1, <2>1, <2>2, UpTo
<1>7. g[n] = h[n] /\ h[n] \in Int
  BY <1>1, <1>4, <1>6
<1>8. n + 1 \in 1 .. n + 1 /\ (n + 1) - 1 = n
  BY <1>1
<1>9. g[n + 1] = g[n] + w[n + 1].end - w[n + 1].start
  BY <1>5, <1>8
<1> QED
  BY <1>1, <1>2, <1>3, <1>7, <1>9 DEF w, n

LEMMA TimeInNothing == TimeIn(<<>>) = 0
<1> DEFINE U == [start : Int, end : Int]
<1>1. Lasting(U) /\ <<>> \in Seq(U) /\ Len(<<>>) = 0
  BY DEF Lasting
<1> HIDE DEF U
<1>2. PICK h : TimeSteps(h, <<>>) /\ TimeIn(<<>>) = h[Len(<<>>)]
  BY <1>1, TimeInSteps
<1> QED
  BY <1>1, <1>2 DEF TimeSteps
=============================================================================
