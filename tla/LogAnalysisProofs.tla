------------------------ MODULE LogAnalysisProofs -----------------------
(***************************************************************************)
(* Proofs about the analysis of logs: what becomes of the values that the  *)
(* analyzers find (TimeLines), and of the lines that a watcher hands to    *)
(* them (LogWatcher).                                                      *)
(*                                                                         *)
(* TimeLines, for any names, values, times, kinds of accumulation, orders  *)
(* of the analyzers and thresholds: the lines stay of one length whatever  *)
(* is done to them (Shape).  A split leaves room for the next points       *)
(* (LevelsLow and Room), keeps the order of the times and covers every     *)
(* value that it removes.  What is stored at the last point is what the    *)
(* values of its time amount to (StoredInv), because a new time forgets    *)
(* the names that had a value.                                             *)
(*                                                                         *)
(* LogWatcher, for any number of logs with any lines: the logs are opened  *)
(* in the order of their runs and the times of the changes go with them    *)
(* (OrderInv, StartsInv), no line is handled after the first one that is   *)
(* past the start of the next run (PastInv), and the time that makes the   *)
(* watcher leave a log is from that log (WatchTimeInv).                    *)
(***************************************************************************)
EXTENDS TimeLines, LogWatcher, WellFoundedInduction, SequenceTheorems, TLAPS
-------------------------------------------------------------------------
(* Lemmas about numbers, sets of them, and sums *)

(* A set of natural numbers that is not empty has a first one.             *)
LEMMA MinOf ==
    ASSUME NEW S \in SUBSET Nat, S # {}
    PROVE  Min(S) \in S /\ \A y \in S : Min(S) <= y
<1> DEFINE R == {ss \in Nat \X Nat : ss[1] < ss[2]}
<1>1. IsWellFoundedOn(R, Nat)
  BY NatLessThanWellFounded DEF OpToRel
<1>2. PICK x \in S : \A y \in S : ~ (<<y, x>> \in R)
  <2> HIDE DEF R
  <2> QED
    BY <1>1, WFMin
<1>3. ASSUME NEW y \in S
      PROVE  x <= y
  <2>1. <<y, x>> \in Nat \X Nat /\ <<y, x>>[1] = y /\ <<y, x>>[2] = x
    OBVIOUS
  <2>2. ~ (y < x)
    BY <1>2, <2>1
  <2> QED
    BY <2>2
<1> QED
  BY <1>3 DEF Min

(* Induction over a set of natural numbers: it is all of them if 0 is in it*)
(* and with every number the next one.                                     *)
LEMMA AllOf ==
    ASSUME NEW S \in SUBSET Nat, 0 \in S, \A n \in S : n + 1 \in S
    PROVE  S = Nat
<1> SUFFICES ASSUME Nat \ S # {}
             PROVE  FALSE
  OBVIOUS
<1>1. PICK m \in Nat \ S : \A y \in Nat \ S : m <= y
  BY MinOf
<1>2. m - 1 \in Nat /\ m - 1 \in S
  BY <1>1
<1> QED
  BY <1>1, <1>2

(* The greatest number of a set is the one that no other exceeds ...       *)
LEMMA MaxIs ==
    ASSUME NEW S \in SUBSET Int, NEW m \in S, \A y \in S : m >= y
    PROVE  Max(S) = m
<1>1. Max(S) \in S /\ \A y \in S : Max(S) >= y
  BY DEF Max
<1>2. Max(S) \in Int /\ m \in Int /\ Max(S) >= m /\ m >= Max(S)
  BY <1>1
<1> QED
  BY <1>2

(* ... and the least the one that exceeds no other.                        *)
LEMMA MinIs ==
    ASSUME NEW S \in SUBSET Int, NEW m \in S, \A y \in S : m <= y
    PROVE  Min(S) = m
<1>1. Min(S) \in S /\ \A y \in S : Min(S) <= y
  BY DEF Min
<1>2. Min(S) \in Int /\ m \in Int /\ Min(S) >= m /\ m >= Min(S)
  BY <1>1
<1> QED
  BY <1>2

(* The equation that the sum over a set of places of s obeys. FoldLeft is  *)
(* defined by a function that solves it; that there is one is what         *)
(* SumsExist shows.                                                        *)
Sums(s, n, f) ==
    f = [S \in SUBSET (1..n) |-> IF S = {} THEN 0 ELSE f[S \ {Max(S)}] + s[Max(S)]]

(* By induction over k there is a solution for the sets of places up to k. *)
LEMMA SumsExist ==
    ASSUME NEW s, NEW n \in Nat
    PROVE  \E f : Sums(s, n, f)
<1> DEFINE N == {k \in Nat : \E f : Sums(s, k, f)}
<1>1. 0 \in N
  <2> DEFINE f == [S \in SUBSET (1..0) |-> 0]
  <2>1. SUBSET (1..0) = {{}}
    OBVIOUS
  <2>2. Sums(s, 0, f)
    BY <2>1 DEF Sums
  <2> QED
    BY <2>2
<1>2. ASSUME NEW k \in N
      PROVE  k + 1 \in N
  <2>1. PICK f : Sums(s, k, f)
    OBVIOUS
  <2> DEFINE m == k + 1
             g == [S \in SUBSET (1..m) |-> IF m \in S THEN f[S \ {m}] + s[m] ELSE f[S]]
  <2>2. ASSUME NEW S \in SUBSET (1..m)
        PROVE  g[S] = IF S = {} THEN 0 ELSE g[S \ {Max(S)}] + s[Max(S)]
    <3>1. CASE m \in S
      <4>1. Max(S) = m
        BY <3>1, MaxIs
      <4>2. S \ {m} \in SUBSET (1..m) /\ m \notin S \ {m} /\ S # {}
        BY <3>1
      <4>3. g[S \ {m}] = f[S \ {m}] /\ g[S] = f[S \ {m}] + s[m]
        BY <3>1, <4>2
      <4> HIDE DEF m, g
      <4> QED
        BY <4>1, <4>2, <4>3
    <3>2. CASE m \notin S
      <4>1. S \in SUBSET (1..k)
        BY <3>2
      <4>2. f[S] = IF S = {} THEN 0 ELSE f[S \ {Max(S)}] + s[Max(S)]
        BY <2>1, <4>1 DEF Sums
      <4>3. g[S] = f[S]
        BY <3>2
      <4>4. S \ {Max(S)} \in SUBSET (1..m) /\ m \notin S \ {Max(S)}
        BY <3>2
      <4>5. g[S \ {Max(S)}] = f[S \ {Max(S)}]
        BY <4>4
      <4> HIDE DEF g
      <4> QED
        BY <4>2, <4>3, <4>5
    <3> QED
      BY <3>1, <3>2
  <2>3. Sums(s, m, g)
    <3>1. DOMAIN g = SUBSET (1..m) /\ g = [S \in SUBSET (1..m) |-> g[S]]
      OBVIOUS
    <3> HIDE DEF g
    <3> QED
      BY <2>2, <3>1 DEF Sums
  <2>4. k \in Nat
    OBVIOUS
  <2> HIDE DEF g
  <2> QED
    BY <2>3, <2>4
<1> HIDE DEF N
<1>3. N = Nat
  BY <1>1, <1>2, AllOf DEF N
<1> QED
  BY <1>3 DEF N

(* The sum of the values of a list is that solution at all places.         *)
LEMMA SumIs ==
    ASSUME NEW s \in Seq(Int)
    PROVE  \E f : Sums(s, Len(s), f) /\ FoldLeft(+, 0, s) = f[1..Len(s)]
<1> DEFINE f == CHOOSE f : Sums(s, Len(s), f)
<1>1. Sums(s, Len(s), f)
  <2>1. Len(s) \in Nat
    OBVIOUS
  <2>2. \E g : Sums(s, Len(s), g)
    BY <2>1, SumsExist
  <2> QED
    BY <2>2
<1>2. DOMAIN s = 1..Len(s)
  OBVIOUS
<1>3. f = CHOOSE iter : iter = [S \in SUBSET (1..Len(s)) |-> IF S = {} THEN 0 ELSE iter[S \ {Max(S)}] + s[Max(S)]]
  BY DEF Sums
<1>4. FoldLeft(+, 0, s) = f[DOMAIN s]
  BY <1>2, <1>3 DEF FoldLeft, MapThenFoldSet
<1> QED
  BY <1>1, <1>2, <1>4

(* The sum of the first k is the sum of those before and the k-th.         *)
LEMMA SumsStep ==
    ASSUME NEW s, NEW n \in Nat, NEW f, Sums(s, n, f)
    PROVE  /\ f[1..0] = 0
           /\ \A k \in 1..n : f[1..k] = f[1..(k - 1)] + s[k]
<1>1. \A S \in SUBSET (1..n) : f[S] = IF S = {} THEN 0 ELSE f[S \ {Max(S)}] + s[Max(S)]
  BY DEF Sums
<1>2. 1..0 = {} /\ {} \in SUBSET (1..n)
  OBVIOUS
<1>3. ASSUME NEW k \in 1..n
      PROVE  f[1..k] = f[1..(k - 1)] + s[k]
  <2>1. 1..k \in SUBSET (1..n) /\ 1..k # {} /\ k \in 1..k
    OBVIOUS
  <2>2. Max(1..k) = k
    <3>1. 1..k \in SUBSET Int /\ \A y \in 1..k : k >= y
      OBVIOUS
    <3> QED
      BY <2>1, <3>1, MaxIs
  <2>3. (1..k) \ {k} = 1..(k - 1)
    OBVIOUS
  <2> QED
    BY <1>1, <2>1, <2>2, <2>3
<1> QED
  BY <1>1, <1>2, <1>3

(* One more value adds to the sum of a list (the sums and the averages of  *)
(* setValue): by induction over the places that the two lists share.       *)
LEMMA SumAppend ==
    ASSUME NEW s \in Seq(Int), NEW x \in Int
    PROVE  /\ FoldLeft(+, 0, s) \in Int
           /\ FoldLeft(+, 0, Append(s, x)) = FoldLeft(+, 0, s) + x
<1> DEFINE n == Len(s)
           t == Append(s, x)
<1>1. n \in Nat /\ t \in Seq(Int) /\ Len(t) = n + 1 /\ t[n + 1] = x
      /\ \A k \in 1..n : t[k] = s[k] /\ s[k] \in Int
  OBVIOUS
<1>2. PICK f : Sums(s, n, f) /\ FoldLeft(+, 0, s) = f[1..n]
  BY SumIs
<1>3. PICK g : Sums(t, n + 1, g) /\ FoldLeft(+, 0, t) = g[1..(n + 1)]
  BY <1>1, SumIs
<1> HIDE DEF n, t
<1>4. /\ f[1..0] = 0
      /\ \A k \in 1..n : f[1..k] = f[1..(k - 1)] + s[k]
  <2>1. Sums(s, n, f) /\ n \in Nat
    BY <1>1, <1>2
  <2> QED
    BY <2>1, SumsStep
<1>5. /\ g[1..0] = 0
      /\ \A k \in 1..(n + 1) : g[1..k] = g[1..(k - 1)] + t[k]
  <2>1. Sums(t, n + 1, g)
    BY <1>3
  <2>2. n + 1 \in Nat
    BY <1>1
  <2> QED
    BY <2>1, <2>2, SumsStep
<1> DEFINE N == {k \in Nat : k <= n => f[1..k] = g[1..k] /\ f[1..k] \in Int}
<1>6. 0 \in N
  BY <1>4, <1>5
<1>7. ASSUME NEW k \in N
      PROVE  k + 1 \in N
  <2> SUFFICES ASSUME k + 1 <= n
               PROVE  f[1..(k + 1)] = g[1..(k + 1)] /\ f[1..(k + 1)] \in Int
    OBVIOUS
  <2>1. k + 1 \in 1..n /\ k + 1 \in 1..(n + 1) /\ (k + 1) - 1 = k /\ k <= n
    BY <1>1
  <2>2. f[1..(k + 1)] = f[1..k] + s[k + 1] /\ g[1..(k + 1)] = g[1..k] + t[k + 1]
    BY <1>4, <1>5, <2>1
  <2>3. t[k + 1] = s[k + 1] /\ s[k + 1] \in Int
    BY <1>1, <2>1
  <2>4. f[1..k] = g[1..k] /\ f[1..k] \in Int
    BY <2>1
  <2> QED
    BY <2>2, <2>3, <2>4
<1>8. n \in N
  <2> HIDE DEF N
  <2>1. N \in SUBSET Nat
    BY DEF N
  <2> QED
    BY <1>1, <1>6, <1>7, <2>1, AllOf
<1>9. g[1..(n + 1)] = g[1..n] + x
  <2>1. n + 1 \in 1..(n + 1) /\ (n + 1) - 1 = n
    BY <1>1
  <2> QED
    BY <1>1, <1>5, <2>1
<1>10. f[1..n] = g[1..n] /\ f[1..n] \in Int
  BY <1>8
<1> QED
  BY <1>2, <1>3, <1>9, <1>10 DEF t, n

(* The sum of no values.                                                   *)
LEMMA SumEmpty == FoldLeft(+, 0, <<>>) = 0
<1>1. <<>> \in Seq(Int) /\ Len(<<>>) = 0
  OBVIOUS
<1>2. PICK f : Sums(<<>>, 0, f) /\ FoldLeft(+, 0, <<>>) = f[1..0]
  BY <1>1, SumIs
<1> QED
  BY <1>2, SumsStep
-------------------------------------------------------------------------
(* Lemmas about collections and their points *)

(* A record with the fields of a collection.                               *)
IsCollection(r) == \E known, had \in SUBSET setup.names : r \in Collection(known, had)

(* What every collection is, at any time: all of its lines have one value  *)
(* for each of its times. Splits and values that come on demand must not   *)
(* break this.                                                             *)
Shape(r) ==
    /\ IsCollection(r)
    /\ DOMAIN r.occured \subseteq r.valid
    /\ \A n \in DOMAIN r.values : Len(r.values[n]) = Len(r.times)
    /\ Len(r.splitLevels) <= Len(r.times)

(* The types of the fields of a collection, one by one.                    *)
LEMMA Fields ==
    ASSUME NEW r, IsCollection(r)
    PROVE  /\ r.cTime \in Int /\ r.addTimeOnDemand \in BOOLEAN /\ r.times \in Seq(Int)
           /\ DOMAIN r.values \subseteq setup.names /\ DOMAIN r.occured \subseteq setup.names
           /\ r.values \in [DOMAIN r.values -> Seq(Int)] /\ r.valid \subseteq DOMAIN r.values
           /\ r.occured \in [DOMAIN r.occured -> Nat]
           /\ r.splitLevels \in Seq(Nat) /\ r.failed \in BOOLEAN /\ r.aligned \in BOOLEAN
<1>1. PICK known, had \in SUBSET setup.names : r \in Collection(known, had)
  BY DEF IsCollection
<1> QED
  BY <1>1 DEF Collection

(* The fields that an operation on the points leaves as they are.          *)
SameNames(r, q) ==
    /\ q.cTime = r.cTime /\ q.addTimeOnDemand = r.addTimeOnDemand
    /\ q.valid = r.valid /\ q.occured = r.occured
    /\ DOMAIN q.values = DOMAIN r.values

(* One more point for all lines: the value by which a line is extended is a*)
(* number, and the points before stay.                                     *)
LEMMA ExtendLines ==
    ASSUME NEW r, Shape(r)
    PROVE  /\ Shape(Extend(r)) /\ SameNames(r, Extend(r))
           /\ Extend(r).times = Append(r.times, r.cTime)
           /\ \A n \in DOMAIN r.values : \A i \in 1..Len(r.times) :
                 Extend(r).values[n][i] = r.values[n][i]
           /\ Extend(r).splitLevels = r.splitLevels /\ Extend(r).failed = r.failed
           /\ Extend(r).aligned = r.aligned
<1>1. PICK known, had \in SUBSET setup.names : r \in Collection(known, had)
  BY DEF Shape, IsCollection
<1>2. DOMAIN r.values = known
  BY <1>1 DEF Collection
<1> DEFINE d(n) == IF setup.extendCopy /\ r.values[n] # <<>> THEN Last(r.values[n]) ELSE defaultValue
           V == [n \in known |-> Append(r.values[n], d(n))]
<1>3. Extend(r) = [r EXCEPT !.times = Append(r.times, r.cTime), !.values = V]
  BY <1>2 DEF Extend
<1>4. ASSUME NEW n \in known
      PROVE  d(n) \in Int
  BY <1>1 DEF Collection, Last, defaultValue
<1>5. /\ V \in [known -> Seq(Int)]
      /\ \A n \in known : /\ Len(V[n]) = Len(r.values[n]) + 1
                          /\ \A i \in 1..Len(r.values[n]) : V[n][i] = r.values[n][i]
  <2>1. ASSUME NEW n \in known
        PROVE  /\ V[n] \in Seq(Int) /\ Len(V[n]) = Len(r.values[n]) + 1
               /\ \A i \in 1..Len(r.values[n]) : V[n][i] = r.values[n][i]
    <3>1. r.values[n] \in Seq(Int)
      BY <1>1 DEF Collection
    <3>2. V[n] = Append(r.values[n], d(n))
      OBVIOUS
    <3> HIDE DEF V, d
    <3> QED
      BY <1>4, <3>1, <3>2, AppendProperties
  <2>2. DOMAIN V = known /\ V = [n \in known |-> V[n]]
    OBVIOUS
  <2> HIDE DEF V
  <2> QED
    BY <2>1, <2>2
<1>6. /\ Append(r.times, r.cTime) \in Seq(Int)
      /\ Len(Append(r.times, r.cTime)) = Len(r.times) + 1
  BY <1>1 DEF Collection
<1> HIDE DEF V, d
<1>7. Extend(r) \in Collection(known, had)
  BY <1>1, <1>3, <1>5, <1>6 DEF Collection
<1>8. /\ Extend(r).times = Append(r.times, r.cTime) /\ Extend(r).values = V
      /\ Extend(r).cTime = r.cTime /\ Extend(r).addTimeOnDemand = r.addTimeOnDemand
      /\ Extend(r).valid = r.valid /\ Extend(r).occured = r.occured
      /\ Extend(r).splitLevels = r.splitLevels /\ Extend(r).failed = r.failed
      /\ Extend(r).aligned = r.aligned
  BY <1>1, <1>3 DEF Collection
<1>9. /\ DOMAIN r.occured \subseteq r.valid
      /\ \A n \in known : Len(r.values[n]) = Len(r.times)
      /\ Len(r.splitLevels) <= Len(r.times) /\ Len(r.splitLevels) \in Nat /\ Len(r.times) \in Nat
  BY <1>1, <1>2 DEF Shape, Collection
<1>10. Shape(Extend(r))
  <2>1. IsCollection(Extend(r))
    BY <1>7 DEF IsCollection
  <2>2. DOMAIN V = known
    BY <1>5
  <2> QED
    <3>1. DOMAIN Extend(r).occured \subseteq Extend(r).valid
      BY <1>8, <1>9
    <3>2. ASSUME NEW n \in DOMAIN Extend(r).values
          PROVE  Len(Extend(r).values[n]) = Len(Extend(r).times)
      <4>1. n \in known /\ Extend(r).values[n] = V[n]
        BY <1>8, <2>2
      <4> QED
        BY <1>5, <1>6, <1>8, <1>9, <4>1
    <3>3. Len(Extend(r).splitLevels) <= Len(Extend(r).times)
      BY <1>6, <1>8, <1>9
    <3> QED
      BY <2>1, <3>1, <3>2, <3>3 DEF Shape
<1> QED
  BY <1>2, <1>5, <1>8, <1>9, <1>10 DEF SameNames

(* list.index: the place of the first of the values that are x.            *)
LEMMA FirstIndexIs ==
    ASSUME NEW s \in Seq(Int), NEW x, \E i \in DOMAIN s : s[i] = x
    PROVE  /\ FirstIndex(s, x) \in 0..(Len(s) - 1) /\ s[FirstIndex(s, x) + 1] = x
           /\ \A i \in 1..FirstIndex(s, x) : s[i] # x
<1> DEFINE I == {i \in DOMAIN s : s[i] = x}
<1>1. I \in SUBSET Nat /\ I # {} /\ I \subseteq 1..Len(s)
  OBVIOUS
<1>2. Min(I) \in I /\ \A y \in I : Min(I) <= y
  BY <1>1, MinOf
<1>3. FirstIndex(s, x) = Min(I) - 1
  BY DEF FirstIndex
<1>4. FirstIndex(s, x) + 1 = Min(I) /\ FirstIndex(s, x) \in 0..(Len(s) - 1)
  BY <1>1, <1>2, <1>3
<1>5. s[Min(I)] = x
  BY <1>2
<1>6. ASSUME NEW i \in 1..FirstIndex(s, x)
      PROVE  s[i] # x
  <2>1. i \in 1..Len(s) /\ i \in DOMAIN s /\ ~(Min(I) <= i)
    BY <1>1, <1>2, <1>4
  <2> QED
    BY <1>2, <2>1
<1> QED
  BY <1>4, <1>5, <1>6

(* There is a level for each time; those that are new have none yet.       *)
LEMMA LevelsAre ==
    ASSUME NEW r, Shape(r)
    PROVE  /\ Levels(r) \in Seq(Nat) /\ Len(Levels(r)) = Len(r.times)
           /\ \A i \in 1..Len(r.splitLevels) : Levels(r)[i] = r.splitLevels[i]
           /\ \A i \in (Len(r.splitLevels) + 1)..Len(r.times) : Levels(r)[i] = 0
<1>1. /\ r.splitLevels \in Seq(Nat) /\ Len(r.splitLevels) <= Len(r.times)
      /\ Len(r.splitLevels) \in Nat /\ Len(r.times) \in Nat
  BY Fields DEF Shape
<1> DEFINE m == Len(r.times) - Len(r.splitLevels)
           z == [i \in 1..m |-> 0]
<1>2. m \in Nat /\ z \in Seq(Nat) /\ Len(z) = m /\ \A i \in 1..m : z[i] = 0
  <2>1. m \in Nat
    BY <1>1
  <2> HIDE DEF m
  <2> QED
    BY <2>1
<1>3. Levels(r) = r.splitLevels \o z
  BY DEF Levels
<1> HIDE DEF z
<1>4. /\ Levels(r) \in Seq(Nat) /\ Len(Levels(r)) = Len(r.splitLevels) + m
      /\ \A i \in 1..(Len(r.splitLevels) + m) :
            Levels(r)[i] = IF i <= Len(r.splitLevels) THEN r.splitLevels[i]
                           ELSE z[i - Len(r.splitLevels)]
  BY <1>1, <1>2, <1>3, ConcatProperties
<1>5. Len(r.splitLevels) + m = Len(r.times)
  BY <1>1
<1>6. ASSUME NEW i \in (Len(r.splitLevels) + 1)..Len(r.times)
      PROVE  Levels(r)[i] = 0
  <2>1. i \in 1..(Len(r.splitLevels) + m) /\ ~(i <= Len(r.splitLevels))
        /\ i - Len(r.splitLevels) \in 1..m
    BY <1>1
  <2> QED
    BY <1>2, <1>4, <2>1
<1>7. ASSUME NEW i \in 1..Len(r.splitLevels)
      PROVE  Levels(r)[i] = r.splitLevels[i]
  <2>1. i \in 1..(Len(r.splitLevels) + m) /\ i <= Len(r.splitLevels)
    BY <1>1, <1>2
  <2> QED
    BY <1>4, <2>1
<1>8. Levels(r) \in Seq(Nat) /\ Len(Levels(r)) = Len(r.times)
  <2> HIDE DEF m
  <2> QED
    BY <1>4, <1>5
<1> QED
  BY <1>6, <1>7, <1>8
-------------------------------------------------------------------------
(* Lemmas about a split: its places *)

(* Windows of four points that cover the places from one on up to another  *)
(* end at most three places later.                                         *)
LEMMA WindowsCover ==
    ASSUME NEW till \in Nat, NEW from \in 0..till
    PROVE  LET w == (till - from + 3) \div 4
               e == from + 4 * w
           IN  /\ w \in Nat /\ e \in Nat /\ till <= e /\ e <= till + 3
               /\ (e \div 4) * 4 \in 0..e
               /\ from % 4 = 0 => (e \div 4) * 4 = e
<1> DEFINE w == (till - from + 3) \div 4
           e == from + 4 * w
<1>1. w \in Nat /\ 4 * w <= till - from + 3 /\ till - from <= 4 * w
  OBVIOUS
<1>2. e = from + 4 * w
  OBVIOUS
<1> HIDE DEF w, e
<1>3. e \in Nat /\ till <= e /\ e <= till + 3
  BY <1>1, <1>2
<1>4. (e \div 4) * 4 \in 0..e
  BY <1>3
<1>5. ASSUME from % 4 = 0
      PROVE  (e \div 4) * 4 = e
  <2>1. PICK q \in Int : from = 4 * q
    <3>1. from = 4 * (from \div 4) /\ from \div 4 \in Int
      BY <1>5
    <3> QED
      BY <3>1
  <2>2. e = 4 * (q + w) /\ q + w \in Int
    BY <1>1, <1>2, <2>1
  <2>3. e \div 4 = q + w
    BY <2>2
  <2> QED
    BY <2>2, <2>3
<1> QED
  BY <1>1, <1>3, <1>4, <1>5 DEF w, e

(* Where a split begins and ends. The last point has no level yet when a   *)
(* collection is split, so that the end is in the first three quarters and *)
(* the beginning in the first half of that.                                *)
LEMMA SplitPlaces ==
    ASSUME NEW r, Shape(r), Len(r.splitLevels) < Len(r.times)
    PROVE  /\ SplitTill(r) \in 0..(Len(r.times) - 1)
           /\ SplitFrom(r) \in 0..SplitTill(r) /\ 2 * SplitFrom(r) <= SplitTill(r)
           /\ (SplitTill(r) > 0 => 2 * SplitFrom(r) < SplitTill(r))
           /\ Windows(r) \in Nat /\ SplitEnd(r) = SplitFrom(r) + 4 * Windows(r)
           /\ SplitTill(r) <= SplitEnd(r) /\ SplitEnd(r) <= SplitTill(r) + 3
           /\ FirstUnsplit(r) \in 0..SplitEnd(r)
           /\ SplitFrom(r) % 4 = 0 => FirstUnsplit(r) = SplitEnd(r)
<1> DEFINE n == Len(r.times)
           L == Levels(r)
<1>1. /\ n \in Nat /\ n > 0 /\ L \in Seq(Nat) /\ L \in Seq(Int) /\ Len(L) = n /\ L[n] = 0
      /\ DOMAIN L = 1..n /\ \A i \in 1..n : L[i] \in Nat
  <2>1. n \in Nat /\ Len(r.splitLevels) \in Nat
    BY Fields DEF Shape
  <2>2. n \in (Len(r.splitLevels) + 1)..n
    BY <2>1
  <2> QED
    BY <2>1, <2>2, LevelsAre
<1> HIDE DEF n, L
<1>2. SplitTill(r) \in 0..(n - 1)
  <2>1. SplitTill(r) = IF L[(3 * n) \div 4 + 1] # 0 THEN FirstIndex(L, 0) ELSE (3 * n) \div 4
    BY DEF SplitTill, n, L
  <2>2. (3 * n) \div 4 \in 0..(n - 1)
    BY <1>1
  <2>3. FirstIndex(L, 0) \in 0..(n - 1)
    <3>1. \E i \in DOMAIN L : L[i] = 0
      BY <1>1
    <3> QED
      BY <1>1, <3>1, FirstIndexIs
  <2> QED
    BY <2>1, <2>2, <2>3
<1>3. /\ SplitFrom(r) \in 0..SplitTill(r) /\ 2 * SplitFrom(r) <= SplitTill(r)
      /\ SplitTill(r) > 0 => 2 * SplitFrom(r) < SplitTill(r)
  <2> DEFINE early == {l \in 0..(L[1] - 1) :
                         /\ \E i \in DOMAIN L : L[i] = l
                         /\ 2 * FirstIndex(L, l) < SplitTill(r)}
  <2>1. SplitFrom(r) = IF early = {} THEN 0 ELSE FirstIndex(L, Min(early))
    BY DEF SplitFrom, L
  <2>2. CASE early = {}
    BY <1>2, <2>1, <2>2
  <2>3. CASE early # {}
    <3>1. early \in SUBSET Nat
      BY <1>1
    <3>2. Min(early) \in early
      BY <2>3, <3>1, MinOf
    <3>3. 2 * FirstIndex(L, Min(early)) < SplitTill(r)
          /\ \E i \in DOMAIN L : L[i] = Min(early)
      BY <3>2
    <3> HIDE DEF early
    <3>4. FirstIndex(L, Min(early)) \in 0..(n - 1)
      BY <1>1, <3>3, FirstIndexIs
    <3> QED
      BY <1>1, <1>2, <2>1, <2>3, <3>3, <3>4
  <2> QED
    BY <2>2, <2>3
<1>4. Windows(r) = (SplitTill(r) - SplitFrom(r) + 3) \div 4
  BY <1>1, <1>2, <1>3 DEF Windows, window
<1>5. SplitEnd(r) = SplitFrom(r) + 4 * Windows(r)
  BY DEF SplitEnd, window
<1>6. FirstUnsplit(r) = (SplitEnd(r) \div 4) * 4
  BY DEF FirstUnsplit, window
<1>7. /\ Windows(r) \in Nat /\ SplitTill(r) <= SplitEnd(r) /\ SplitEnd(r) <= SplitTill(r) + 3
      /\ FirstUnsplit(r) \in 0..SplitEnd(r)
      /\ SplitFrom(r) % 4 = 0 => FirstUnsplit(r) = SplitEnd(r)
  <2>1. SplitTill(r) \in Nat
    BY <1>1, <1>2
  <2> DEFINE till == SplitTill(r)
             from == SplitFrom(r)
             w == (till - from + 3) \div 4
             e == from + 4 * w
  <2>2. till \in Nat /\ from \in 0..till
    BY <1>3, <2>1
  <2> HIDE DEF till, from
  <2>3. /\ w \in Nat /\ e \in Nat /\ till <= e /\ e <= till + 3
        /\ (e \div 4) * 4 \in 0..e
        /\ from % 4 = 0 => (e \div 4) * 4 = e
    BY <2>2, WindowsCover
  <2>4. Windows(r) = w /\ SplitEnd(r) = e /\ FirstUnsplit(r) = (e \div 4) * 4
    BY <1>4, <1>5, <1>6 DEF till, from
  <2> HIDE DEF w, e
  <2> QED
    BY <2>3, <2>4 DEF till, from
<1> QED
  BY <1>2, <1>3, <1>5, <1>7 DEF n

(* What is condensed, place by place: the points before the windows, two of*)
(* every window, and the points from firstUnsplit on.                      *)
LEMMA CondenseIs ==
    ASSUME NEW r, NEW S, NEW s \in Seq(S), NEW pairs,
           SplitFrom(r) \in Nat, Windows(r) \in Nat, FirstUnsplit(r) \in 0..Len(s),
           SplitFrom(r) <= Len(s),
           \A i \in 1..Windows(r) : pairs[i][1] \in S /\ pairs[i][2] \in S
    PROVE  LET from == SplitFrom(r)
               mid == SplitFrom(r) + 2 * Windows(r)
               rest == Len(s) - FirstUnsplit(r)
           IN  /\ Condense(r, s, pairs) \in Seq(S)
               /\ Len(Condense(r, s, pairs)) = mid + rest
               /\ \A i \in 1..from : Condense(r, s, pairs)[i] = s[i]
               /\ \A i \in 1..Windows(r) :
                     /\ Condense(r, s, pairs)[from + 2 * i - 1] = pairs[i][1]
                     /\ Condense(r, s, pairs)[from + 2 * i] = pairs[i][2]
               /\ \A i \in 1..rest : Condense(r, s, pairs)[mid + i] = s[FirstUnsplit(r) + i]
<1> DEFINE from == SplitFrom(r)
           w == Windows(r)
           u == FirstUnsplit(r)
           n == Len(s)
           a == SubSeq(s, 1, from)
           b == [j \in 1..(2 * w) |-> pairs[(j + 1) \div 2][IF j % 2 = 1 THEN 1 ELSE 2]]
           c == SubSeq(s, u + 1, n)
           t == Condense(r, s, pairs)
<1>1. t = (a \o b) \o c
  BY DEF Condense
<1>2. n \in Nat /\ from \in Nat /\ from <= n /\ w \in Nat /\ u \in 0..n
      /\ \A i \in 1..n : s[i] \in S
  OBVIOUS
<1>3. /\ a \in Seq(S) /\ Len(a) = from
      /\ \A i \in 1..from : a[i] = s[i]
  <2> HIDE DEF from, n
  <2>1. \A i \in 1..from : s[i] \in S
    BY <1>2
  <2>2. a \in Seq(S) /\ Len(a) = (IF 1 <= from THEN from - 1 + 1 ELSE 0)
        /\ \A i \in 1..(from - 1 + 1) : a[i] = s[1 + i - 1]
    BY <1>2, <2>1, SubSeqProperties
  <2> QED
    BY <1>2, <2>2
<1>4. /\ c \in Seq(S) /\ Len(c) = n - u
      /\ \A i \in 1..(n - u) : c[i] = s[u + i]
  <2> HIDE DEF u, n
  <2>1. \A i \in (u + 1)..n : s[i] \in S
    BY <1>2
  <2>2. c \in Seq(S) /\ Len(c) = (IF u + 1 <= n THEN n - (u + 1) + 1 ELSE 0)
        /\ \A i \in 1..(n - (u + 1) + 1) : c[i] = s[(u + 1) + i - 1]
    <3>1. u + 1 \in Int /\ n \in Int
      BY <1>2
    <3> QED
      BY <2>1, <3>1, SubSeqProperties
  <2>3. \A i \in 1..(n - u) : (u + 1) + i - 1 = u + i
    BY <1>2
  <2> QED
    BY <1>2, <2>2, <2>3
<1>5. /\ b \in Seq(S) /\ Len(b) = 2 * w
      /\ \A i \in 1..w : b[2 * i - 1] = pairs[i][1] /\ b[2 * i] = pairs[i][2]
  <2>1. ASSUME NEW j \in 1..(2 * w)
        PROVE  b[j] \in S
    <3>1. (j + 1) \div 2 \in 1..w
      BY <1>2
    <3> QED
      BY <3>1
  <2>2. 2 * w \in Nat
    BY <1>2
  <2>3. DOMAIN b = 1..(2 * w) /\ b = [j \in 1..(2 * w) |-> b[j]]
    OBVIOUS
  <2>4. ASSUME NEW i \in 1..w
        PROVE  b[2 * i - 1] = pairs[i][1] /\ b[2 * i] = pairs[i][2]
    <3>1. 2 * i - 1 \in 1..(2 * w) /\ 2 * i \in 1..(2 * w)
      BY <1>2
    <3>2. ((2 * i - 1) + 1) \div 2 = i
      BY <1>2
    <3>3. (2 * i + 1) \div 2 = i
      BY <1>2
    <3>4. (2 * i - 1) % 2 = 1 /\ (2 * i) % 2 = 0
      BY <1>2
    <3> QED
      BY <3>1, <3>2, <3>3, <3>4
  <2> HIDE DEF b
  <2>5. b \in Seq(S)
    BY <2>1, <2>2, <2>3, IsASeq
  <2>6. Len(b) = 2 * w
    BY <2>2, <2>3, <2>5
  <2> QED
    BY <2>4, <2>5, <2>6
<1> HIDE DEF a, b, c, t, from, w, u, n
<1>6. /\ a \o b \in Seq(S) /\ Len(a \o b) = from + 2 * w
      /\ \A i \in 1..(from + 2 * w) : (a \o b)[i] = IF i <= from THEN a[i] ELSE b[i - from]
  <2>1. a \in Seq(S) /\ b \in Seq(S) /\ Len(a) = from /\ Len(b) = 2 * w
    BY <1>3, <1>5
  <2>2. /\ a \o b \in Seq(S) /\ Len(a \o b) = Len(a) + Len(b)
        /\ \A i \in 1..(Len(a) + Len(b)) : (a \o b)[i] = IF i <= Len(a) THEN a[i] ELSE b[i - Len(a)]
    BY <2>1, ConcatProperties
  <2> QED
    BY <2>1, <2>2
<1>7. /\ t \in Seq(S) /\ Len(t) = from + 2 * w + (n - u)
      /\ \A i \in 1..(from + 2 * w + (n - u)) :
            t[i] = IF i <= from + 2 * w THEN (a \o b)[i] ELSE c[i - (from + 2 * w)]
  <2>1. c \in Seq(S) /\ Len(c) = n - u
    BY <1>4
  <2> DEFINE m == a \o b
  <2>2. m \in Seq(S) /\ Len(m) = from + 2 * w
    BY <1>6
  <2>3. t = m \o c
    BY <1>1
  <2> HIDE DEF m
  <2>4. /\ t \in Seq(S) /\ Len(t) = Len(m) + Len(c)
        /\ \A i \in 1..(Len(m) + Len(c)) : t[i] = IF i <= Len(m) THEN m[i] ELSE c[i - Len(m)]
    BY <2>1, <2>2, <2>3, ConcatProperties
  <2> QED
    BY <2>1, <2>2, <2>4 DEF m
<1>8. \A i \in 1..from : t[i] = s[i]
  <2> TAKE i \in 1..from
  <2>1. i \in 1..(from + 2 * w) /\ i \in 1..(from + 2 * w + (n - u)) /\ i <= from
        /\ i <= from + 2 * w
    BY <1>2
  <2> QED
    BY <1>3, <1>6, <1>7, <2>1
<1>9. ASSUME NEW i \in 1..w
      PROVE  t[from + 2 * i - 1] = pairs[i][1] /\ t[from + 2 * i] = pairs[i][2]
  <2>1. ASSUME NEW k \in 1..(2 * w)
        PROVE  t[from + k] = b[k]
    <3>1. from + k \in 1..(from + 2 * w) /\ from + k \in 1..(from + 2 * w + (n - u))
          /\ ~(from + k <= from) /\ from + k <= from + 2 * w /\ (from + k) - from = k
      BY <1>2
    <3> QED
      BY <1>6, <1>7, <3>1
  <2>2. 2 * i - 1 \in 1..(2 * w) /\ 2 * i \in 1..(2 * w)
        /\ from + (2 * i - 1) = from + 2 * i - 1
    BY <1>2
  <2> QED
    BY <1>5, <2>1, <2>2
<1>10. ASSUME NEW i \in 1..(n - u)
       PROVE  t[from + 2 * w + i] = s[u + i]
  <2>1. from + 2 * w + i \in 1..(from + 2 * w + (n - u)) /\ ~(from + 2 * w + i <= from + 2 * w)
        /\ (from + 2 * w + i) - (from + 2 * w) = i
    BY <1>2
  <2> QED
    BY <1>4, <1>7, <2>1
<1> QED
  BY <1>7, <1>8, <1>9, <1>10 DEF t, from, w, u, n

(* The split does not go beyond the last point.                            *)
Places(r) ==
    /\ SplitFrom(r) \in Nat /\ Windows(r) \in Nat
    /\ SplitEnd(r) = SplitFrom(r) + 4 * Windows(r)
    /\ FirstUnsplit(r) \in 0..SplitEnd(r)
    /\ SplitEnd(r) \in 0..Len(r.times)
-------------------------------------------------------------------------
(* Lemmas about a split: its windows *)

(* The four points of a window.                                            *)
LEMMA WindowIs ==
    ASSUME NEW r, NEW S, NEW s \in Seq(S), Len(s) = Len(r.times), Places(r),
           NEW i \in 1..Windows(r)
    PROVE  LET at == SplitFrom(r) + 4 * (i - 1)
           IN  /\ Window(r, s, i) \in Seq(S) /\ Len(Window(r, s, i)) = 4
               /\ \A k \in 1..4 : /\ at + k \in 1..Len(s)
                                  /\ Window(r, s, i)[k] = s[at + k]
<1> DEFINE at == SplitFrom(r) + 4 * (i - 1)
<1>1. Window(r, s, i) = SubSeq(s, at + 1, at + 4)
  BY DEF Window, window
<1>2. at \in Nat /\ at + 4 <= Len(s) /\ Len(s) \in Nat
  <2> DEFINE f == SplitFrom(r)
             w == Windows(r)
             n == Len(s)
  <2>1. f \in Nat /\ w \in Nat /\ f + 4 * w <= n /\ n \in Nat /\ i \in 1..w
    BY DEF Places
  <2>2. at = f + 4 * (i - 1)
    OBVIOUS
  <2> HIDE DEF f, w, n, at
  <2> QED
    BY <2>1, <2>2 DEF n
<1> HIDE DEF at
<1>3. \A j \in (at + 1)..(at + 4) : s[j] \in S
  BY <1>2
<1>4. /\ SubSeq(s, at + 1, at + 4) \in Seq(S)
      /\ Len(SubSeq(s, at + 1, at + 4)) = IF at + 1 <= at + 4 THEN (at + 4) - (at + 1) + 1 ELSE 0
      /\ \A j \in 1..((at + 4) - (at + 1) + 1) : SubSeq(s, at + 1, at + 4)[j] = s[(at + 1) + j - 1]
  <2>1. at + 1 \in Int /\ at + 4 \in Int
    BY <1>2
  <2> QED
    BY <1>3, <2>1, SubSeqProperties
<1>5. /\ (at + 4) - (at + 1) + 1 = 4 /\ at + 1 <= at + 4
      /\ \A k \in 1..4 : (at + 1) + k - 1 = at + k /\ at + k \in 1..Len(s)
  BY <1>2
<1> QED
  BY <1>1, <1>4, <1>5 DEF at

(* The values of a list are numbers.                                       *)
LEMMA RangeIs ==
    ASSUME NEW s \in Seq(Int), s # <<>>
    PROVE  /\ ToSet(s) = {s[i] : i \in 1..Len(s)} /\ ToSet(s) \in SUBSET Int /\ ToSet(s) # {}
<1>1. DOMAIN s = 1..Len(s) /\ Len(s) \in Nat /\ Len(s) # 0
  BY EmptySeq
<1>2. \A i \in 1..Len(s) : s[i] \in Int
  OBVIOUS
<1>3. ToSet(s) = {s[i] : i \in 1..Len(s)}
  BY <1>1 DEF ToSet
<1>4. 1 \in 1..Len(s)
  BY <1>1
<1>5. s[1] \in ToSet(s)
  BY <1>3, <1>4
<1> QED
  BY <1>2, <1>3, <1>5

(* The least and the greatest of the values of a list.                     *)
LEMMA LeastAndGreatest ==
    ASSUME NEW s \in Seq(Int), s # <<>>
    PROVE  /\ Min(ToSet(s)) \in ToSet(s) /\ \A i \in 1..Len(s) : Min(ToSet(s)) <= s[i]
           /\ Max(ToSet(s)) \in ToSet(s) /\ \A i \in 1..Len(s) : Max(ToSet(s)) >= s[i]
<1>1. Len(s) \in Nat /\ Len(s) > 0 /\ \A i \in 1..Len(s) : s[i] \in Int
  OBVIOUS
<1> DEFINE n == Len(s)
           Bounded(k) == \E a, b \in 1..n : \A i \in 1..k : s[a] <= s[i] /\ s[i] <= s[b]
           N == {k \in Nat : k <= n => Bounded(k)}
<1>2. 0 \in N
  BY <1>1
<1>3. ASSUME NEW k \in N
      PROVE  k + 1 \in N
  <2> SUFFICES ASSUME k + 1 <= n
               PROVE  Bounded(k + 1)
    BY <1>3
  <2>1. k \in Nat /\ k <= n /\ k + 1 \in 1..n
    BY <1>1, <1>3
  <2>2. PICK a, b \in 1..n : \A i \in 1..k : s[a] <= s[i] /\ s[i] <= s[b]
    BY <1>3, <2>1
  <2> HIDE DEF N
  <2>5. s[k + 1] \in Int /\ s[a] \in Int /\ s[b] \in Int
    BY <1>1, <2>1
  <2>6. PICK c \in 1..n : s[c] <= s[a] /\ s[c] <= s[k + 1] /\ s[c] \in Int
    <3>1. CASE s[k + 1] <= s[a]
      BY <2>1, <2>5, <3>1
    <3>2. CASE s[a] <= s[k + 1]
      BY <2>1, <2>5, <3>2
    <3> QED
      BY <2>5, <3>1, <3>2
  <2>7. PICK d \in 1..n : s[b] <= s[d] /\ s[k + 1] <= s[d] /\ s[d] \in Int
    <3>1. CASE s[k + 1] <= s[b]
      BY <2>1, <2>5, <3>1
    <3>2. CASE s[b] <= s[k + 1]
      BY <2>1, <2>5, <3>2
    <3> QED
      BY <2>5, <3>1, <3>2
  <2>4. ASSUME NEW i \in 1..(k + 1)
        PROVE  s[c] <= s[i] /\ s[i] <= s[d]
    <3>1. i \in 1..k \/ i = k + 1
      BY <2>1
    <3>2. s[i] \in Int
      <4>1. i \in 1..n
        BY <1>1, <2>1
      <4> QED
        BY <1>1, <4>1
    <3>3. CASE i = k + 1
      BY <2>6, <2>7, <3>3
    <3>4. CASE i \in 1..k
      <4>1. s[a] <= s[i] /\ s[i] <= s[b]
        BY <2>2, <3>4
      <4>2. s[c] <= s[i]
        BY <2>5, <2>6, <3>2, <4>1
      <4>3. s[i] <= s[d]
        BY <2>5, <2>7, <3>2, <4>1
      <4> QED
        BY <4>2, <4>3
    <3> QED
      BY <3>1, <3>3, <3>4
  <2> QED
    BY <2>4
<1>4. n \in N
  <2>1. N \in SUBSET Nat /\ n \in Nat
    BY <1>1
  <2> HIDE DEF N
  <2> QED
    BY <1>2, <1>3, <2>1, AllOf
<1>5. PICK a, b \in 1..n : \A i \in 1..n : s[a] <= s[i] /\ s[i] <= s[b]
  BY <1>1, <1>4
<1> HIDE DEF N, n
<1>6. ToSet(s) = {s[i] : i \in 1..n} /\ ToSet(s) \in SUBSET Int
  BY RangeIs DEF n
<1>7. s[a] \in ToSet(s) /\ s[b] \in ToSet(s)
      /\ \A y \in ToSet(s) : s[a] <= y /\ s[b] >= y
  <2>1. \A i \in 1..n : s[i] \in Int
    BY <1>1 DEF n
  <2>2. s[a] \in Int /\ s[b] \in Int
    BY <1>5, <2>1
  <2>3. \A i \in 1..n : s[b] >= s[i]
    BY <1>5, <2>1, <2>2
  <2> QED
    BY <1>5, <1>6, <2>3
<1>8. Min(ToSet(s)) = s[a] /\ Max(ToSet(s)) = s[b]
  BY <1>6, <1>7, MinIs, MaxIs
<1> QED
  BY <1>5, <1>6, <1>7, <1>8 DEF n

(* Of two values of s one is not above x and the other is not below.       *)
Covered(x, s) == \E i, j \in DOMAIN s : s[i] <= x /\ x <= s[j]

(* The two values that stay of a window cover all four of it.              *)
LEMMA ExtremesAre ==
    ASSUME NEW w \in Seq(Int), Len(w) = 4
    PROVE  /\ Extremes(w)[1] \in Int /\ Extremes(w)[2] \in Int
           /\ \A k \in 1..4 : /\ Extremes(w)[1] <= w[k] \/ Extremes(w)[2] <= w[k]
                              /\ Extremes(w)[1] >= w[k] \/ Extremes(w)[2] >= w[k]
<1>1. w # <<>>
  <2> SUFFICES ASSUME w = <<>>
               PROVE  FALSE
    OBVIOUS
  <2>1. Len(<<>>) = 0
    OBVIOUS
  <2>2. Len(<<>>) = 4
    OBVIOUS
  <2> QED
    BY <2>1, <2>2
<1> DEFINE lo == Min(ToSet(w))
           hi == Max(ToSet(w))
<1>2. lo \in Int /\ hi \in Int /\ \A k \in 1..4 : lo <= w[k] /\ hi >= w[k]
  BY <1>1, RangeIs, LeastAndGreatest
<1>3. Extremes(w) = <<lo, hi>> \/ Extremes(w) = <<hi, lo>>
  BY DEF Extremes
<1> HIDE DEF lo, hi
<1> QED
  BY <1>2, <1>3

(* The two times that stay of a window: two thirds of the way lead to a    *)
(* place between its ends.                                                 *)
LEMMA TwoTimesAre ==
    ASSUME NEW w \in Seq(Int), Len(w) = 4
    PROVE  /\ TwoTimes(w)[1] = w[1] /\ w[1] \in Int /\ w[4] \in Int /\ TwoTimes(w)[2] \in Int
           /\ w[1] <= w[4] => w[1] <= TwoTimes(w)[2] /\ TwoTimes(w)[2] <= w[4]
           /\ w[4] <= w[1] => w[4] <= TwoTimes(w)[2] /\ TwoTimes(w)[2] <= w[1]
<1> DEFINE a == w[1]
           b == w[4]
           c == ((b - a) * 2) \div 3
<1>1. a \in Int /\ b \in Int
  <2>1. 1 \in 1..Len(w) /\ 4 \in 1..Len(w)
    OBVIOUS
  <2> QED
    BY <2>1, ElementOfSeq
<1>2. TwoTimes(w) = <<a, a + c>>
  BY DEF TwoTimes, window
<1>3. /\ c \in Int
      /\ a <= b => 0 <= c /\ c <= b - a
      /\ b <= a => c <= 0 /\ b - a <= c
  <2> HIDE DEF a, b
  <2> QED
    BY <1>1
<1> HIDE DEF a, b, c
<1>4. TwoTimes(w)[1] = a /\ TwoTimes(w)[2] = a + c
  BY <1>2
<1> QED
  BY <1>1, <1>3, <1>4 DEF a, b

(* The two levels that stay of a window.                                   *)
LEMMA TwoLevelsAre ==
    ASSUME NEW w \in Seq(Nat), Len(w) = 4
    PROVE  TwoLevels(w)[1] \in Nat /\ TwoLevels(w)[2] \in Nat
<1>1. w[1] \in Nat /\ w[4] \in Nat
  <2>1. 1 \in 1..Len(w) /\ 4 \in 1..Len(w)
    OBVIOUS
  <2> QED
    BY <2>1, ElementOfSeq
<1> QED
  BY <1>1 DEF TwoLevels, window
-------------------------------------------------------------------------
(* Lemmas about a split: what is left *)

(* The number of points that are left by a split.                          *)
LeftOver(r) == SplitFrom(r) + 2 * Windows(r) + (Len(r.times) - FirstUnsplit(r))

(* A split that does not raise is one of places that exist.                *)
LEMMA PlacesAre ==
    ASSUME NEW r, Shape(r), Len(r.splitLevels) < Len(r.times), ~SplitRaises(r)
    PROVE  Places(r) /\ LeftOver(r) \in Nat
<1>1. Len(r.times) \in Nat
  BY Fields DEF Shape
<1>2. /\ SplitFrom(r) \in 0..SplitTill(r) /\ SplitTill(r) \in 0..(Len(r.times) - 1)
      /\ Windows(r) \in Nat /\ SplitEnd(r) = SplitFrom(r) + 4 * Windows(r)
      /\ FirstUnsplit(r) \in 0..SplitEnd(r)
  BY SplitPlaces
<1>3. SplitEnd(r) <= Len(r.times)
  BY <1>1, <1>2 DEF SplitRaises
<1> DEFINE f == SplitFrom(r)
           w == Windows(r)
           u == FirstUnsplit(r)
           n == Len(r.times)
<1>4. f \in Nat /\ w \in Nat /\ u \in Nat /\ n \in Nat /\ f + 4 * w <= n /\ u <= f + 4 * w
  BY <1>1, <1>2, <1>3
<1>5. LeftOver(r) = f + 2 * w + (n - u) /\ SplitEnd(r) = f + 4 * w
  BY <1>2 DEF LeftOver
<1>6. u \in 0..(f + 4 * w)
  BY <1>4
<1> HIDE DEF f, w, u, n
<1>7. f + 2 * w + (n - u) \in Nat /\ f + 4 * w \in 0..n
  BY <1>4
<1> QED
  BY <1>4, <1>5, <1>6, <1>7 DEF Places, f, w, u, n

(* CondenseIs for a list with one entry for each time.                     *)
LEMMA CondenseAt ==
    ASSUME NEW r, Places(r), LeftOver(r) \in Nat, NEW S, NEW s \in Seq(S), Len(s) = Len(r.times),
           NEW pairs, \A i \in 1..Windows(r) : pairs[i][1] \in S /\ pairs[i][2] \in S
    PROVE  LET from == SplitFrom(r)
               mid == SplitFrom(r) + 2 * Windows(r)
               rest == Len(s) - FirstUnsplit(r)
           IN  /\ Condense(r, s, pairs) \in Seq(S)
               /\ Len(Condense(r, s, pairs)) = LeftOver(r)
               /\ \A i \in 1..from : Condense(r, s, pairs)[i] = s[i]
               /\ \A i \in 1..Windows(r) :
                     /\ Condense(r, s, pairs)[from + 2 * i - 1] = pairs[i][1]
                     /\ Condense(r, s, pairs)[from + 2 * i] = pairs[i][2]
               /\ \A i \in 1..rest : Condense(r, s, pairs)[mid + i] = s[FirstUnsplit(r) + i]
<1>1. SplitFrom(r) \in Nat /\ Windows(r) \in Nat /\ Len(s) \in Nat
  BY DEF Places
<1>2. FirstUnsplit(r) \in 0..SplitEnd(r) /\ SplitEnd(r) \in 0..Len(s)
      /\ SplitEnd(r) = SplitFrom(r) + 4 * Windows(r)
  BY DEF Places
<1>3. FirstUnsplit(r) \in 0..Len(s) /\ SplitFrom(r) <= Len(s)
  BY <1>1, <1>2
<1>4. LeftOver(r) = SplitFrom(r) + 2 * Windows(r) + (Len(s) - FirstUnsplit(r))
  BY DEF LeftOver
<1>8. LET from == SplitFrom(r)
          mid == SplitFrom(r) + 2 * Windows(r)
          rest == Len(s) - FirstUnsplit(r)
      IN  /\ Condense(r, s, pairs) \in Seq(S)
          /\ Len(Condense(r, s, pairs)) = mid + rest
          /\ \A i \in 1..from : Condense(r, s, pairs)[i] = s[i]
          /\ \A i \in 1..Windows(r) :
                /\ Condense(r, s, pairs)[from + 2 * i - 1] = pairs[i][1]
                /\ Condense(r, s, pairs)[from + 2 * i] = pairs[i][2]
          /\ \A i \in 1..rest : Condense(r, s, pairs)[mid + i] = s[FirstUnsplit(r) + i]
  <2>2. SplitFrom(r) <= Len(s)
    BY <1>3
  <2>3. FirstUnsplit(r) \in 0..Len(s)
    BY <1>3
  <2>4. SplitFrom(r) \in Nat /\ Windows(r) \in Nat
    BY <1>1
  <2> QED
    BY <2>2, <2>3, <2>4, CondenseIs, SMTT(60)
<1> DEFINE from == SplitFrom(r)
           mid == SplitFrom(r) + 2 * Windows(r)
           rest == Len(s) - FirstUnsplit(r)
           t == Condense(r, s, pairs)
<1>5. /\ t \in Seq(S)
      /\ Len(t) = mid + rest
      /\ \A i \in 1..from : t[i] = s[i]
      /\ \A i \in 1..Windows(r) :
            t[from + 2 * i - 1] = pairs[i][1] /\ t[from + 2 * i] = pairs[i][2]
      /\ \A i \in 1..rest : t[mid + i] = s[FirstUnsplit(r) + i]
  BY <1>8
<1> HIDE DEF t
<1>6. LeftOver(r) = mid + rest
  BY <1>4
<1> HIDE DEF from, mid, rest
<1>7. Len(t) = LeftOver(r)
  BY <1>5, <1>6
<1> QED
  BY <1>5, <1>7 DEF t, from, mid, rest

(* A split: times, levels and all lines are condensed alike, and stay of   *)
(* one length.                                                             *)
LEMMA SplitLines ==
    ASSUME NEW r, Shape(r), Len(r.splitLevels) < Len(r.times), MustSplit(r), ~SplitRaises(r)
    PROVE  /\ Shape(Split(r)) /\ SameNames(r, Split(r))
           /\ Split(r).times = CondenseTimes(r) /\ Split(r).splitLevels = CondenseLevels(r)
           /\ \A n \in DOMAIN r.values : Split(r).values[n] = CondenseValues(r, r.values[n])
           /\ Split(r).failed = r.failed
           /\ Split(r).aligned = (r.aligned /\ SplitFrom(r) % 4 = 0)
           /\ Len(CondenseTimes(r)) = LeftOver(r) /\ Len(CondenseLevels(r)) = LeftOver(r)
<1>1. Places(r) /\ LeftOver(r) \in Nat
  BY PlacesAre
<1>2. PICK known, had \in SUBSET setup.names : r \in Collection(known, had)
  BY DEF Shape, IsCollection
<1>3. r.times \in Seq(Int) /\ Len(r.times) \in Nat /\ DOMAIN r.values = known
      /\ \A n \in known : r.values[n] \in Seq(Int) /\ Len(r.values[n]) = Len(r.times)
  BY <1>2 DEF Shape, Collection
<1>4. Levels(r) \in Seq(Nat) /\ Len(Levels(r)) = Len(r.times)
  BY LevelsAre
<1>5. CondenseTimes(r) \in Seq(Int) /\ Len(CondenseTimes(r)) = LeftOver(r)
  <2> DEFINE pairs == [i \in 1..Windows(r) |-> TwoTimes(Window(r, r.times, i))]
  <2>1. \A i \in 1..Windows(r) : pairs[i][1] \in Int /\ pairs[i][2] \in Int
    <3> TAKE i \in 1..Windows(r)
    <3>1. Window(r, r.times, i) \in Seq(Int) /\ Len(Window(r, r.times, i)) = 4
      BY <1>1, <1>3, WindowIs
    <3> QED
      BY <3>1, TwoTimesAre
  <2>2. CondenseTimes(r) = Condense(r, r.times, pairs)
    BY DEF CondenseTimes
  <2> HIDE DEF pairs
  <2> QED
    BY <1>1, <1>3, <2>1, <2>2, CondenseAt
<1>6. CondenseLevels(r) \in Seq(Nat) /\ Len(CondenseLevels(r)) = LeftOver(r)
  <2> DEFINE pairs == [i \in 1..Windows(r) |-> TwoLevels(Window(r, Levels(r), i))]
  <2>1. \A i \in 1..Windows(r) : pairs[i][1] \in Nat /\ pairs[i][2] \in Nat
    <3> TAKE i \in 1..Windows(r)
    <3>1. Window(r, Levels(r), i) \in Seq(Nat) /\ Len(Window(r, Levels(r), i)) = 4
      BY <1>1, <1>4, WindowIs
    <3> QED
      BY <3>1, TwoLevelsAre
  <2>2. CondenseLevels(r) = Condense(r, Levels(r), pairs)
    BY DEF CondenseLevels
  <2> HIDE DEF pairs
  <2> QED
    BY <1>1, <1>4, <2>1, <2>2, CondenseAt
<1>7. ASSUME NEW n \in known
      PROVE  /\ CondenseValues(r, r.values[n]) \in Seq(Int)
             /\ Len(CondenseValues(r, r.values[n])) = LeftOver(r)
  <2> DEFINE s == r.values[n]
             pairs == [i \in 1..Windows(r) |-> Extremes(Window(r, s, i))]
  <2>0. s \in Seq(Int) /\ Len(s) = Len(r.times)
    BY <1>3
  <2> HIDE DEF s
  <2>1. \A i \in 1..Windows(r) : pairs[i][1] \in Int /\ pairs[i][2] \in Int
    <3> TAKE i \in 1..Windows(r)
    <3>1. Window(r, s, i) \in Seq(Int) /\ Len(Window(r, s, i)) = 4
      BY <1>1, <2>0, WindowIs
    <3> QED
      BY <3>1, ExtremesAre
  <2>2. CondenseValues(r, s) = Condense(r, s, pairs)
    BY DEF CondenseValues
  <2> HIDE DEF pairs
  <2>3. CondenseValues(r, s) \in Seq(Int) /\ Len(CondenseValues(r, s)) = LeftOver(r)
    BY <1>1, <2>0, <2>1, <2>2, CondenseAt
  <2> QED
    BY <2>3 DEF s
<1> DEFINE V == [n \in known |-> CondenseValues(r, r.values[n])]
           al == r.aligned /\ SplitFrom(r) % 4 = 0
           q == [r EXCEPT !.times = CondenseTimes(r), !.splitLevels = CondenseLevels(r),
                          !.values = V, !.aligned = al]
<1>8. Split(r) = q
  BY <1>3 DEF Split, window
<1>9. V \in [known -> Seq(Int)] /\ al \in BOOLEAN
  BY <1>7
<1> HIDE DEF V, al
<1>10. q \in Collection(known, had)
  BY <1>2, <1>5, <1>6, <1>9 DEF Collection
<1>11. /\ q.times = CondenseTimes(r) /\ q.splitLevels = CondenseLevels(r) /\ q.values = V
       /\ q.aligned = al /\ q.failed = r.failed /\ q.cTime = r.cTime
       /\ q.addTimeOnDemand = r.addTimeOnDemand /\ q.valid = r.valid /\ q.occured = r.occured
  BY <1>2 DEF Collection
<1> HIDE DEF q
<1>12. DOMAIN V = known /\ \A n \in known : V[n] = CondenseValues(r, r.values[n])
  BY DEF V
<1>13. Shape(q)
  <2>1. IsCollection(q)
    BY <1>10 DEF IsCollection
  <2>2. DOMAIN q.occured \subseteq q.valid
    BY <1>11 DEF Shape
  <2>3. \A n \in DOMAIN q.values : Len(q.values[n]) = Len(q.times)
    BY <1>5, <1>7, <1>11, <1>12
  <2>4. Len(q.splitLevels) <= Len(q.times)
    BY <1>1, <1>5, <1>6, <1>11
  <2> QED
    BY <2>1, <2>2, <2>3, <2>4 DEF Shape
<1> QED
  BY <1>3, <1>5, <1>6, <1>8, <1>11, <1>12, <1>13 DEF SameNames, al

(* The other two cases: nothing is condensed, because there are too few    *)
(* points or because the exception of the split leaves them as they are.   *)
LEMMA SplitNot ==
    ASSUME NEW r, Shape(r), ~MustSplit(r) \/ SplitRaises(r)
    PROVE  /\ Shape(Split(r)) /\ SameNames(r, Split(r))
           /\ Split(r).times = r.times /\ Split(r).splitLevels = r.splitLevels
           /\ Split(r).values = r.values /\ Split(r).aligned = r.aligned
           /\ Split(r).failed = (r.failed \/ MustSplit(r))
<1>1. PICK known, had \in SUBSET setup.names : r \in Collection(known, had)
  BY DEF Shape, IsCollection
<1>2. CASE ~MustSplit(r)
  <2>1. Split(r) = r /\ r.failed \in BOOLEAN
    BY <1>1, <1>2 DEF Split, Collection
  <2> QED
    BY <1>2, <2>1 DEF SameNames
<1>3. CASE MustSplit(r)
  <2> DEFINE q == [r EXCEPT !.failed = TRUE]
  <2>1. Split(r) = q
    BY <1>3 DEF Split
  <2>2. q \in Collection(known, had)
    BY <1>1 DEF Collection
  <2>3. /\ q.times = r.times /\ q.splitLevels = r.splitLevels /\ q.values = r.values
        /\ q.aligned = r.aligned /\ q.failed = TRUE /\ q.cTime = r.cTime
        /\ q.addTimeOnDemand = r.addTimeOnDemand /\ q.valid = r.valid /\ q.occured = r.occured
    BY <1>1 DEF Collection
  <2> HIDE DEF q
  <2>4. Shape(q)
    BY <2>2, <2>3 DEF Shape, IsCollection
  <2> QED
    BY <1>3, <2>1, <2>3, <2>4 DEF SameNames
<1> QED
  BY <1>2, <1>3

(* A split does not make times that are later than the last one.           *)
LEMMA SplitBounds ==
    ASSUME NEW r, Shape(r), Len(r.splitLevels) < Len(r.times), NEW m \in Nat, r.times \in Seq(0..m)
    PROVE  Split(r).times \in Seq(0..m)
<1>1. CASE ~MustSplit(r) \/ SplitRaises(r)
  BY <1>1, SplitNot
<1>2. CASE MustSplit(r) /\ ~SplitRaises(r)
  <2> DEFINE pairs == [i \in 1..Windows(r) |-> TwoTimes(Window(r, r.times, i))]
  <2>1. Places(r) /\ LeftOver(r) \in Nat
    BY <1>2, PlacesAre
  <2>2. \A i \in 1..Windows(r) : pairs[i][1] \in 0..m /\ pairs[i][2] \in 0..m
    <3> TAKE i \in 1..Windows(r)
    <3> DEFINE w == Window(r, r.times, i)
    <3>1. w \in Seq(0..m) /\ Len(w) = 4
      BY <2>1, WindowIs
    <3>2. w \in Seq(Int) /\ w[1] \in 0..m /\ w[4] \in 0..m
      <4> HIDE DEF w
      <4>1. 1 \in 1..Len(w) /\ 4 \in 1..Len(w)
        BY <3>1
      <4>2. \A k \in 1..Len(w) : w[k] \in 0..m
        BY <3>1, ElementOfSeq
      <4>3. DOMAIN w = 1..Len(w) /\ Len(w) \in Nat /\ w = [k \in 1..Len(w) |-> w[k]]
        BY <3>1
      <4>4. w \in Seq(Int)
        BY <4>2, <4>3, IsASeq
      <4> QED
        BY <4>1, <4>2, <4>4
    <3>3. pairs[i] = TwoTimes(w)
      OBVIOUS
    <3> HIDE DEF w, pairs
    <3>4. TwoTimes(w)[1] \in 0..m /\ TwoTimes(w)[2] \in 0..m
      <4>1. /\ TwoTimes(w)[1] = w[1] /\ TwoTimes(w)[2] \in Int
            /\ w[1] <= w[4] => w[1] <= TwoTimes(w)[2] /\ TwoTimes(w)[2] <= w[4]
            /\ w[4] <= w[1] => w[4] <= TwoTimes(w)[2] /\ TwoTimes(w)[2] <= w[1]
        BY <3>1, <3>2, TwoTimesAre
      <4> QED
        BY <3>2, <4>1
    <3> QED
      BY <3>3, <3>4
  <2>3. CondenseTimes(r) = Condense(r, r.times, pairs)
    BY DEF CondenseTimes
  <2> HIDE DEF pairs
  <2> DEFINE S == 0..m
  <2>5. r.times \in Seq(S) /\ \A i \in 1..Windows(r) : pairs[i][1] \in S /\ pairs[i][2] \in S
    BY <2>2
  <2> HIDE DEF S
  <2>4. CondenseTimes(r) \in Seq(S)
    BY <2>1, <2>3, <2>5, CondenseAt
  <2> QED
    BY <1>2, <2>4, SplitLines DEF S
<1> QED
  BY <1>1, <1>2
-------------------------------------------------------------------------
(* Lemmas about a split: extremes and times *)

(* No extreme value is lost by a split, wherever it began: each of the     *)
(* values is covered by the values that stay.                              *)
LEMMA SplitCovers ==
    ASSUME NEW r, Places(r), LeftOver(r) \in Nat,
           NEW s \in Seq(Int), Len(s) = Len(r.times), NEW k \in 1..Len(s)
    PROVE  Covered(s[k], CondenseValues(r, s))
<1> DEFINE pairs == [i \in 1..Windows(r) |-> Extremes(Window(r, s, i))]
           t == CondenseValues(r, s)
           from == SplitFrom(r)
           W == Windows(r)
           u == FirstUnsplit(r)
           n == Len(s)
           e == SplitEnd(r)
           m == LeftOver(r)
<1>1. /\ from \in Nat /\ W \in Nat /\ n \in Nat /\ e = from + 4 * W /\ u \in 0..e /\ e \in 0..n
      /\ m = from + 2 * W + (n - u) /\ m \in Nat
  BY DEF Places, LeftOver
<1>2. \A i \in 1..W : /\ Extremes(Window(r, s, i))[1] \in Int /\ Extremes(Window(r, s, i))[2] \in Int
                      /\ \A j \in 1..4 :
                           /\ s[from + 4 * (i - 1) + j] \in Int
                           /\ Extremes(Window(r, s, i))[1] <= s[from + 4 * (i - 1) + j]
                              \/ Extremes(Window(r, s, i))[2] <= s[from + 4 * (i - 1) + j]
                           /\ Extremes(Window(r, s, i))[1] >= s[from + 4 * (i - 1) + j]
                              \/ Extremes(Window(r, s, i))[2] >= s[from + 4 * (i - 1) + j]
  <2> TAKE i \in 1..W
  <2> DEFINE w == Window(r, s, i)
             at == from + 4 * (i - 1)
  <2>1. w \in Seq(Int) /\ Len(w) = 4 /\ \A j \in 1..4 : w[j] = s[at + j] /\ at + j \in 1..Len(s)
    BY WindowIs, SMTT(60)
  <2> HIDE DEF w, at
  <2>2. /\ Extremes(w)[1] \in Int /\ Extremes(w)[2] \in Int
        /\ \A j \in 1..4 : /\ Extremes(w)[1] <= w[j] \/ Extremes(w)[2] <= w[j]
                           /\ Extremes(w)[1] >= w[j] \/ Extremes(w)[2] >= w[j]
    BY <2>1, ExtremesAre
  <2>3. \A j \in 1..4 : s[at + j] \in Int
    BY <2>1, ElementOfSeq
  <2> QED
    BY <2>1, <2>2, <2>3 DEF w, at
<1>3. \A i \in 1..W : pairs[i] = Extremes(Window(r, s, i))
  OBVIOUS
<1>4. t = Condense(r, s, pairs)
  BY DEF CondenseValues
<1> HIDE DEF pairs, t
<1>5. /\ t \in Seq(Int) /\ Len(t) = m
      /\ \A i \in 1..from : t[i] = s[i]
      /\ \A i \in 1..W : t[from + 2 * i - 1] = pairs[i][1] /\ t[from + 2 * i] = pairs[i][2]
      /\ \A i \in 1..(n - u) : t[from + 2 * W + i] = s[u + i]
  <2>1. \A i \in 1..W : pairs[i][1] \in Int /\ pairs[i][2] \in Int
    BY <1>2, <1>3
  <2> QED
    BY <1>4, <2>1, CondenseAt
<1> HIDE DEF from, W, u, n, e, m
<1>6. DOMAIN t = 1..m
  BY <1>5
<1>7. s[k] \in Int /\ k \in 1..n
  BY ElementOfSeq DEF n
<1>8. CASE k <= from
  <2>1. k \in 1..from /\ k \in 1..m
    BY <1>1, <1>7, <1>8
  <2>2. t[k] = s[k]
    BY <1>5, <2>1
  <2> QED
    BY <1>6, <1>7, <2>1, <2>2 DEF Covered, t
<1>9. CASE k > from /\ k <= e
  <2> DEFINE i == (k - from - 1) \div 4 + 1
             j == k - (from + 4 * (i - 1))
  <2>1. i \in 1..W /\ j \in 1..4 /\ from + 4 * (i - 1) + j = k
    <3>1. k - from - 1 \in 0..(4 * W - 1)
      BY <1>1, <1>7, <1>9
    <3> DEFINE d == k - from - 1
    <3>2. d \in Nat /\ d <= 4 * W - 1 /\ k = from + d + 1
      BY <1>1, <1>7, <3>1
    <3> HIDE DEF d
    <3>3. d \div 4 \in Nat /\ 4 * (d \div 4) <= d /\ d <= 4 * (d \div 4) + 3
      BY <3>2
    <3>4. i = d \div 4 + 1
      BY DEF d
    <3> HIDE DEF i
    <3> QED
      BY <1>1, <3>2, <3>3, <3>4
  <2> HIDE DEF i, j
  <2>2. from + 2 * i - 1 \in 1..m /\ from + 2 * i \in 1..m
    BY <1>1, <2>1
  <2> DEFINE a == t[from + 2 * i - 1]
             b == t[from + 2 * i]
  <2>3. a = Extremes(Window(r, s, i))[1] /\ b = Extremes(Window(r, s, i))[2]
    BY <1>3, <1>5, <2>1
  <2>4. a \in Int /\ b \in Int /\ (a <= s[k] \/ b <= s[k]) /\ (a >= s[k] \/ b >= s[k])
    BY <1>2, <2>1, <2>3
  <2>5. (\E x \in 1..m : t[x] <= s[k]) /\ (\E x \in 1..m : s[k] <= t[x])
    BY <1>7, <2>2, <2>4
  <2> QED
    BY <1>6, <2>5 DEF Covered, t
<1>10. CASE k > e
  <2>1. k - u \in 1..(n - u) /\ from + 2 * W + (k - u) \in 1..m /\ u + (k - u) = k
    BY <1>1, <1>7, <1>10
  <2>2. t[from + 2 * W + (k - u)] = s[k]
    BY <1>5, <2>1
  <2> QED
    BY <1>6, <1>7, <2>1, <2>2 DEF Covered, t
<1> QED
  BY <1>1, <1>7, <1>8, <1>9, <1>10

(* Ascending, for any two places.                                          *)
Sorted(s) == \A i, j \in 1..Len(s) : i <= j => s[i] <= s[j]

(* Ascending from each place to the next is ascending.                     *)
LEMMA SortedIs ==
    ASSUME NEW s \in Seq(Int), Ascending(s)
    PROVE  Sorted(s)
<1> DEFINE n == Len(s)
           Upto(k) == \A i \in 1..k : s[i] <= s[k]
           N == {k \in Nat : k \in 1..n => Upto(k)}
<1>1. n \in Nat /\ \A i \in 1..n : s[i] \in Int
  OBVIOUS
<1>2. 0 \in N
  OBVIOUS
<1>3. ASSUME NEW k \in N
      PROVE  k + 1 \in N
  <2> SUFFICES ASSUME k + 1 \in 1..n
               PROVE  Upto(k + 1)
    BY <1>3
  <2>1. k \in Nat /\ (k \in 1..n => Upto(k))
    BY <1>3
  <2> HIDE DEF N
  <2>2. ASSUME NEW i \in 1..(k + 1)
        PROVE  s[i] <= s[k + 1]
    <3>1. CASE i = k + 1
      BY <1>1, <3>1
    <3>2. CASE i \in 1..k
      <4>1. k \in 1..n /\ k \in 1..(n - 1) /\ i \in 1..n
        BY <1>1, <2>1, <3>2
      <4>2. s[i] <= s[k] /\ s[k] <= s[k + 1]
        BY <2>1, <3>2, <4>1 DEF Ascending
      <4>3. s[i] \in Int /\ s[k] \in Int /\ s[k + 1] \in Int
        BY <1>1, <4>1
      <4> QED
        BY <4>2, <4>3
    <3> QED
      BY <2>1, <3>1, <3>2
  <2> QED
    BY <2>2
<1>4. N = Nat
  <2>1. N \in SUBSET Nat
    OBVIOUS
  <2> HIDE DEF N
  <2> QED
    BY <1>2, <1>3, <2>1, AllOf
<1>5. ASSUME NEW i \in 1..n, NEW j \in 1..n, i <= j
      PROVE  s[i] <= s[j]
  <2>1. j \in Nat /\ j \in N
    BY <1>4
  <2>2. Upto(j)
    BY <2>1
  <2>3. i \in 1..j
    BY <1>5
  <2> QED
    BY <2>2, <2>3
<1> QED
  BY <1>5 DEF Sorted

(* Condensed times ascend if no point is condensed and kept as well, and   *)
(* the last time stays the last.                                           *)
LEMMA SplitAscends ==
    ASSUME NEW r, Places(r), LeftOver(r) \in Nat, r.times \in Seq(Int), Sorted(r.times),
           FirstUnsplit(r) = SplitEnd(r), SplitEnd(r) < Len(r.times)
    PROVE  /\ Sorted(CondenseTimes(r))
           /\ CondenseTimes(r)[LeftOver(r)] = r.times[Len(r.times)]
           /\ LeftOver(r) = Len(r.times) - 2 * Windows(r)
<1> DEFINE s == r.times
           pairs == [i \in 1..Windows(r) |-> TwoTimes(Window(r, s, i))]
           t == CondenseTimes(r)
           from == SplitFrom(r)
           W == Windows(r)
           e == SplitEnd(r)
           n == Len(s)
           m == LeftOver(r)
<1>1. /\ from \in Nat /\ W \in Nat /\ n \in Nat /\ e = from + 4 * W /\ e \in 0..n /\ e < n
      /\ m = from + 2 * W + (n - e) /\ m \in Nat
  BY DEF Places, LeftOver
<1>2. \A i \in 1..W : LET x == TwoTimes(Window(r, s, i))
                          at == from + 4 * (i - 1)
                      IN  /\ x[1] \in Int /\ x[2] \in Int
                          /\ at + 1 \in 1..n /\ at + 4 \in 1..n
                          /\ x[1] = s[at + 1] /\ x[1] <= x[2] /\ x[2] <= s[at + 4]
  <2> TAKE i \in 1..W
  <2> DEFINE w == Window(r, s, i)
             at == from + 4 * (i - 1)
  <2>1. w \in Seq(Int) /\ Len(w) = 4 /\ \A j \in 1..4 : w[j] = s[at + j] /\ at + j \in 1..n
    BY WindowIs, SMTT(60)
  <2> HIDE DEF w
  <2>2. at + 1 <= at + 4 /\ at \in Int
    <3>1. i \in Int /\ from \in Int
      BY <1>1
    <3> QED
      BY <3>1
  <2> HIDE DEF at
  <2>3. w[1] <= w[4]
    <3>1. w[1] = s[at + 1] /\ at + 1 \in 1..n /\ w[4] = s[at + 4] /\ at + 4 \in 1..n
      BY <2>1
    <3> QED
      BY <2>2, <3>1 DEF Sorted
  <2>4. /\ TwoTimes(w)[1] = w[1] /\ w[1] \in Int /\ TwoTimes(w)[2] \in Int
        /\ w[1] <= TwoTimes(w)[2] /\ TwoTimes(w)[2] <= w[4]
    BY <2>1, <2>3, TwoTimesAre
  <2> QED
    BY <2>1, <2>4 DEF w, at
<1>3. \A i \in 1..W : pairs[i] = TwoTimes(Window(r, s, i))
  OBVIOUS
<1>4. t = Condense(r, s, pairs)
  BY DEF CondenseTimes
<1> HIDE DEF pairs, t
<1>5. /\ t \in Seq(Int) /\ Len(t) = m
      /\ \A i \in 1..from : t[i] = s[i]
      /\ \A i \in 1..W : t[from + 2 * i - 1] = pairs[i][1] /\ t[from + 2 * i] = pairs[i][2]
      /\ \A i \in 1..(n - e) : t[from + 2 * W + i] = s[e + i]
  <2>1. \A i \in 1..W : pairs[i][1] \in Int /\ pairs[i][2] \in Int
    BY <1>2, <1>3
  <2> QED
    BY <1>4, <2>1, CondenseAt
<1>6. \A i, j \in 1..n : i <= j => s[i] <= s[j]
  BY DEF Sorted
<1>7. \A i \in 1..n : s[i] \in Int
  BY ElementOfSeq
<1> HIDE DEF s, from, W, e, n, m
(* Every window lies between its first and its last time. *)
<1>8. \A i \in 1..W :
         /\ t[from + 2 * i - 1] = s[from + 4 * i - 3] /\ from + 4 * i - 3 \in 1..n
         /\ t[from + 2 * i - 1] \in Int /\ t[from + 2 * i] \in Int
         /\ t[from + 2 * i - 1] <= t[from + 2 * i]
         /\ t[from + 2 * i] <= s[from + 4 * i] /\ from + 4 * i \in 1..n
  <2> TAKE i \in 1..W
  <2>1. from + 4 * (i - 1) + 1 = from + 4 * i - 3 /\ from + 4 * (i - 1) + 4 = from + 4 * i
    BY <1>1
  <2> QED
    <3> DEFINE x == TwoTimes(Window(r, s, i))
    <3>1. /\ x[1] \in Int /\ x[2] \in Int
          /\ from + 4 * i - 3 \in 1..n /\ from + 4 * i \in 1..n
          /\ x[1] = s[from + 4 * i - 3] /\ x[1] <= x[2] /\ x[2] <= s[from + 4 * i]
      BY <1>2, <2>1
    <3>2. t[from + 2 * i - 1] = x[1] /\ t[from + 2 * i] = x[2]
      BY <1>3, <1>5
    <3> HIDE DEF x
    <3> QED
      BY <3>1, <3>2
<1>9. ASSUME NEW k \in 1..(m - 1)
      PROVE  t[k] <= t[k + 1]
  <2>1. CASE k < from
    <3>1. k \in 1..from /\ k + 1 \in 1..from /\ k \in 1..n /\ k + 1 \in 1..n /\ k <= k + 1
      BY <1>1, <2>1
    <3> QED
      BY <1>5, <1>6, <3>1
  <2>2. CASE k = from /\ W > 0
    <3>1. 1 \in 1..W /\ from + 2 * 1 - 1 = k + 1 /\ from + 4 * 1 - 3 = k + 1 /\ k \in 1..from
      BY <1>1, <2>2
    <3>2. t[k + 1] = s[k + 1] /\ t[k] = s[k]
      BY <1>5, <1>8, <3>1
    <3>3. k \in 1..n /\ k + 1 \in 1..n /\ k <= k + 1
      BY <1>1, <2>2
    <3> QED
      BY <1>6, <3>2, <3>3
  <2>3. CASE k > from /\ k < from + 2 * W
    <3>1. PICK i \in 1..W : k = from + 2 * i - 1 \/ k = from + 2 * i
      <4> DEFINE d == k - from
                 i == (d + 1) \div 2
      <4>1. d \in 1..(2 * W - 1) /\ k = from + d
        BY <1>1, <2>3
      <4> HIDE DEF d
      <4>2. d = 2 * i - 1 \/ d = 2 * i
        BY <1>1, <4>1
      <4>3. i \in 1..W
        BY <1>1, <4>1
      <4> HIDE DEF i
      <4> QED
        BY <1>1, <4>1, <4>2, <4>3
    <3>2. CASE k = from + 2 * i - 1
      <4>1. k + 1 = from + 2 * i
        BY <1>1, <3>2
      <4> QED
        BY <1>8, <3>2, <4>1
    <3>3. CASE k = from + 2 * i
      <4>1. i + 1 \in 1..W /\ k + 1 = from + 2 * (i + 1) - 1
            /\ from + 4 * i <= from + 4 * (i + 1) - 3
        BY <1>1, <2>3, <3>3
      <4>2. /\ t[k + 1] = s[from + 4 * (i + 1) - 3] /\ from + 4 * (i + 1) - 3 \in 1..n
            /\ t[k] <= s[from + 4 * i] /\ from + 4 * i \in 1..n /\ t[k] \in Int
        BY <1>8, <3>3, <4>1
      <4>3. s[from + 4 * i] <= s[from + 4 * (i + 1) - 3]
        BY <1>6, <4>1, <4>2
      <4>4. s[from + 4 * i] \in Int /\ s[from + 4 * (i + 1) - 3] \in Int
        BY <1>7, <4>2
      <4> QED
        BY <4>2, <4>3, <4>4
    <3> QED
      BY <3>1, <3>2, <3>3
  <2>4. CASE k = from + 2 * W /\ W > 0
    <3>1. W \in 1..W /\ 1 \in 1..(n - e) /\ from + 4 * W = e /\ e + 1 \in 1..n /\ e <= e + 1
      BY <1>1, <2>4
    <3>2. t[k] <= s[e] /\ e \in 1..n /\ t[k] \in Int
      BY <1>8, <2>4, <3>1
    <3>3. t[k + 1] = s[e + 1]
      BY <1>5, <2>4, <3>1
    <3>4. s[e] <= s[e + 1] /\ s[e] \in Int /\ s[e + 1] \in Int
      BY <1>6, <1>7, <3>1, <3>2
    <3> QED
      BY <3>2, <3>3, <3>4
  <2>5. CASE k = from /\ W = 0
    <3>1. k \in 1..from /\ 1 \in 1..(n - e) /\ from + 2 * W + 1 = k + 1 /\ e = k
          /\ k \in 1..n /\ k + 1 \in 1..n /\ k <= k + 1
      BY <1>1, <2>5
    <3>2. t[k] = s[k] /\ t[k + 1] = s[e + 1]
      BY <1>5, <3>1
    <3> QED
      BY <1>6, <3>1, <3>2
  <2>6. CASE k > from + 2 * W
    <3> DEFINE i == k - (from + 2 * W)
    <3>1. i \in 1..(n - e) /\ i + 1 \in 1..(n - e) /\ k = from + 2 * W + i
          /\ k + 1 = from + 2 * W + (i + 1)
          /\ e + i \in 1..n /\ e + (i + 1) \in 1..n /\ e + i <= e + (i + 1)
      BY <1>1, <2>6
    <3> HIDE DEF i
    <3>2. t[k] = s[e + i] /\ t[k + 1] = s[e + (i + 1)]
      BY <1>5, <3>1
    <3> QED
      BY <1>6, <3>1, <3>2
  <2> QED
    BY <1>1, <2>1, <2>2, <2>3, <2>4, <2>5, <2>6
<1>10. Sorted(t)
  BY <1>5, <1>9, SortedIs DEF Ascending
<1>11. t[m] = s[n]
  <2>1. n - e \in 1..(n - e) /\ from + 2 * W + (n - e) = m /\ e + (n - e) = n
    BY <1>1
  <2> QED
    BY <1>5, <2>1
<1>12. m = n - 2 * W
  BY <1>1
<1> QED
  BY <1>10, <1>11, <1>12 DEF t, m, n, s, W
-------------------------------------------------------------------------
(* Lemmas about a split: the room it makes *)

(* Points that were condensed are among the first three quarters of the    *)
(* threshold. Of a line that has reached it again the point at three       *)
(* quarters is new, and the next split has a place to end.                 *)
LevelsLow(r) ==
    \A i \in 1..Len(r.times) : Levels(r)[i] # 0 => i <= (3 * setup.thres) \div 4

(* With a threshold of 13 or more a split ends before the last point and   *)
(* removes a point at least; with one of 12 it might not. What is condensed*)
(* stays in the first three quarters.                                      *)
LEMMA RoomLeft ==
    ASSUME NEW p \in Nat, p >= 13, NEW n \in {p, p + 1}, NEW from \in Nat, NEW W \in Nat,
           LET till == (3 * n) \div 4
           IN  2 * from < till /\ till <= from + 4 * W /\ from + 4 * W <= till + 3
    PROVE  /\ from + 4 * W < n /\ W >= 1
           /\ from + 2 * W <= (3 * p) \div 4 /\ (3 * p) \div 4 <= (3 * n) \div 4
           /\ n - 2 * W < p
<1> DEFINE till == (3 * n) \div 4
           P == (3 * p) \div 4
<1>1. /\ P \in Nat /\ 4 * P <= 3 * p /\ 3 * p <= 4 * P + 3
      /\ till \in Nat /\ 4 * till <= 3 * n /\ 3 * n <= 4 * till + 3 /\ n \in Nat
  OBVIOUS
<1>2. 2 * from < till /\ till <= from + 4 * W /\ from + 4 * W <= till + 3
  OBVIOUS
<1>3. p <= n /\ n <= p + 1
  OBVIOUS
<1> HIDE DEF till, P
<1>4. from + 4 * W < n
  BY <1>1, <1>2, <1>3
<1>5. W >= 1
  BY <1>1, <1>2
<1>6. till <= P + 1 /\ P >= 9 /\ P <= till
  BY <1>1, <1>3
<1>7. 4 * (from + 2 * W) <= 3 * P + 8
  BY <1>1, <1>2, <1>6
<1>8. from + 2 * W <= P
  BY <1>1, <1>6, <1>7
<1>9. n - 2 * W < p
  BY <1>1, <1>3, <1>5
<1> QED
  BY <1>4, <1>5, <1>6, <1>8, <1>9 DEF till, P

(* Hence a split in which the levels are low does not raise, and it leaves *)
(* less points than the threshold.                                         *)
LEMMA SplitFits ==
    ASSUME NEW r, Shape(r), Len(r.splitLevels) < Len(r.times), LevelsLow(r),
           setup.thres \in Nat, setup.thres >= 13,
           Len(r.times) \in {setup.thres, setup.thres + 1}
    PROVE  /\ ~SplitRaises(r) /\ SplitEnd(r) < Len(r.times)
           /\ Len(r.times) - 2 * Windows(r) < setup.thres
           /\ SplitFrom(r) + 2 * Windows(r) <= (3 * setup.thres) \div 4
           /\ (3 * setup.thres) \div 4 <= SplitEnd(r)
<1> DEFINE n == Len(r.times)
           p == setup.thres
           L == Levels(r)
           till == (3 * n) \div 4
<1>1. p \in Nat /\ p >= 13 /\ n \in {p, p + 1} /\ n \in Nat
  OBVIOUS
<1>2. \A i \in 1..n : L[i] # 0 => i <= (3 * p) \div 4
  BY DEF LevelsLow
<1>3. SplitTill(r) = IF L[till + 1] # 0 THEN FirstIndex(L, 0) ELSE till
  BY DEF SplitTill
<1>4. /\ SplitFrom(r) \in 0..SplitTill(r)
      /\ (SplitTill(r) > 0 => 2 * SplitFrom(r) < SplitTill(r))
      /\ Windows(r) \in Nat /\ SplitEnd(r) = SplitFrom(r) + 4 * Windows(r)
      /\ SplitTill(r) <= SplitEnd(r) /\ SplitEnd(r) <= SplitTill(r) + 3
  BY SplitPlaces
<1> HIDE DEF n, p, L
<1>5. till + 1 \in 1..n /\ till \in Nat /\ till > 0 /\ ~(till + 1 <= (3 * p) \div 4)
  <2>1. till + 1 \in 1..n /\ till \in Nat /\ till > 0
    BY <1>1
  <2>2. (3 * p) \div 4 <= till
    BY <1>1
  <2>3. (3 * p) \div 4 \in Nat
    BY <1>1
  <2> HIDE DEF till
  <2> QED
    BY <2>1, <2>2, <2>3
<1>6. L[till + 1] = 0
  BY <1>2, <1>5
<1>7. SplitTill(r) = till
  BY <1>3, <1>6
<1>8. SplitFrom(r) \in Nat /\ 2 * SplitFrom(r) < till /\ till <= SplitFrom(r) + 4 * Windows(r)
      /\ SplitFrom(r) + 4 * Windows(r) <= till + 3
  BY <1>4, <1>5, <1>7
<1>9. /\ SplitFrom(r) + 4 * Windows(r) < n /\ Windows(r) >= 1
      /\ SplitFrom(r) + 2 * Windows(r) <= (3 * p) \div 4 /\ (3 * p) \div 4 <= till
      /\ n - 2 * Windows(r) < p
  BY <1>1, <1>4, <1>8, RoomLeft
<1>10. (3 * p) \div 4 <= SplitEnd(r) /\ ~(SplitEnd(r) > n) /\ SplitEnd(r) < n
  <2>1. (3 * p) \div 4 \in Nat
    BY <1>1
  <2> DEFINE P == (3 * p) \div 4
  <2>2. P \in Nat /\ P <= till
    BY <2>1, <1>9
  <2> HIDE DEF P, till
  <2>3. SplitEnd(r) \in Nat
    BY <1>4, <1>8
  <2>4. P <= SplitEnd(r)
    BY <1>4, <1>5, <1>7, <2>2, <2>3
  <2>5. SplitEnd(r) < n
    BY <1>4, <1>9
  <2>6. ~(SplitEnd(r) > n)
    BY <1>1, <2>3, <2>5
  <2> QED
    BY <2>4, <2>5, <2>6 DEF P
<1> QED
  BY <1>9, <1>10 DEF n, p, SplitRaises

(* After such a split the points with a level are still low.               *)
LEMMA SplitLevelsLow ==
    ASSUME NEW r, Shape(r), Len(r.splitLevels) < Len(r.times), LevelsLow(r),
           setup.thres \in Nat, setup.thres >= 13,
           Len(r.times) \in {setup.thres, setup.thres + 1},
           MustSplit(r), FirstUnsplit(r) = SplitEnd(r)
    PROVE  LevelsLow(Split(r))
<1> DEFINE q == Split(r)
           n == Len(r.times)
           p == setup.thres
           P == (3 * p) \div 4
           L == Levels(r)
           from == SplitFrom(r)
           W == Windows(r)
           e == SplitEnd(r)
           m == LeftOver(r)
           pairs == [i \in 1..Windows(r) |-> TwoLevels(Window(r, Levels(r), i))]
           t == CondenseLevels(r)
<1>1. ~SplitRaises(r) /\ from + 2 * W <= P /\ P <= e /\ e < n
  BY SplitFits
<1>2. Places(r) /\ m \in Nat
  BY <1>1, PlacesAre
<1>3. /\ from \in Nat /\ W \in Nat /\ n \in Nat /\ e = from + 4 * W /\ e \in 0..n
      /\ m = from + 2 * W + (n - e) /\ P \in Nat
  <2>1. P \in Nat
    OBVIOUS
  <2> HIDE DEF P
  <2> QED
    BY <1>2, <2>1 DEF Places, LeftOver
<1>4. Shape(q) /\ q.splitLevels = t /\ Len(q.times) = m /\ Len(t) = m
  BY <1>1, SplitLines
<1>5. \A i \in 1..m : Levels(q)[i] = t[i]
  BY <1>4, LevelsAre
<1>6. \A i \in 1..n : L[i] # 0 => i <= P
  BY DEF LevelsLow
<1>7. L \in Seq(Nat) /\ Len(L) = n
  BY LevelsAre
<1>8. \A i \in 1..W : pairs[i][1] \in Nat /\ pairs[i][2] \in Nat
  <2> TAKE i \in 1..W
  <2>1. Window(r, L, i) \in Seq(Nat) /\ Len(Window(r, L, i)) = 4
    BY <1>2, <1>7, WindowIs
  <2> QED
    BY <2>1, TwoLevelsAre
<1>9. t = Condense(r, L, pairs)
  BY DEF CondenseLevels
<1> HIDE DEF pairs, t
<1>10. \A i \in 1..(n - e) : t[from + 2 * W + i] = L[e + i]
  BY <1>2, <1>7, <1>8, <1>9, CondenseAt
<1> HIDE DEF n, p, P, L, from, W, e, m, q
<1>11. ASSUME NEW i \in 1..m, t[i] # 0
       PROVE  i <= P
  <2>1. CASE i <= from + 2 * W
    BY <1>1, <1>3, <2>1
  <2>2. CASE i > from + 2 * W
    <3> DEFINE k == i - (from + 2 * W)
    <3>1. k \in 1..(n - e) /\ i = from + 2 * W + k /\ e + k \in 1..n /\ ~(e + k <= P)
      BY <1>1, <1>3, <2>2
    <3> HIDE DEF k
    <3>2. t[i] = L[e + k]
      BY <1>10, <3>1
    <3> QED
      BY <1>6, <1>11, <3>1, <3>2
  <2> QED
    BY <1>3, <2>1, <2>2
<1> QED
  BY <1>4, <1>5, <1>11 DEF LevelsLow, P, p, q
-------------------------------------------------------------------------
(* Lemmas about a new time *)

(* The case that is considered, from SetupsAssumption.                     *)
LEMMA SetupIs ==
    ASSUME setup \in Setups
    PROVE  /\ setup.order \in {<<"master">>, <<"master", "slave">>, <<"slave", "master">>}
           /\ setup.names # {} /\ setup.maxTime \in Nat /\ setup.maxCalls \in Nat
           /\ setup.data \in [1..setup.maxTime -> SUBSET Int]
           /\ setup.sparse \in BOOLEAN /\ setup.thres \in Nat
           /\ setup.accumulation \in Kinds /\ setup.special \in Kinds
           /\ TooFew \in BOOLEAN
           /\ ~TooFew /\ setup.thres > 0 => setup.thres >= 13
           /\ setup.special = "average" =>
                 \A t \in 1..setup.maxTime : \A v \in setup.data[t] :
                     \A k \in 1..setup.maxCalls : v % k = 0
<1>1. setup.thres \in Nat
  BY SetupsAssumption
<1>2. ~TooFew /\ setup.thres > 0 => setup.thres >= 13
  BY <1>1 DEF TooFew
<1>3. TooFew \in BOOLEAN
  BY DEF TooFew
<1> QED
  BY <1>2, <1>3, SetupsAssumption

(* The times of a collection are those of the log up to the last one.      *)
LastTime == setup.maxTime * Unit

(* Of a collection of which all splits began at a multiple of window: the  *)
(* times ascend to its time, no split has failed, and there is room for the*)
(* point that comes next. A collection reaches the threshold only by a time*)
(* that is appended on demand.                                             *)
Room(r) ==
    r.aligned /\ ~TooFew =>
        /\ ~r.failed
        /\ Sorted(r.times) /\ (r.times # <<>> => r.times[Len(r.times)] = r.cTime)
        /\ setup.thres > 0 =>
              /\ LevelsLow(r)
              /\ Len(r.times) <= setup.thres
              /\ Len(r.times) = setup.thres => r.valid # {} /\ ~r.addTimeOnDemand
              /\ ~setup.sparse => Len(r.times) < setup.thres

(* One more point has no level.                                            *)
LEMMA ExtendLevels ==
    ASSUME NEW r, Shape(r), LevelsLow(r)
    PROVE  LevelsLow(Extend(r)) /\ Len(Extend(r).splitLevels) < Len(Extend(r).times)
<1> DEFINE q == Extend(r)
           n == Len(r.times)
           k == Len(r.splitLevels)
<1>1. /\ Shape(q) /\ q.splitLevels = r.splitLevels /\ q.times = Append(r.times, r.cTime)
  BY ExtendLines
<1>2. n \in Nat /\ k \in Nat /\ k <= n /\ Len(q.times) = n + 1
  BY <1>1, Fields DEF Shape
<1>3. /\ \A i \in 1..k : Levels(r)[i] = r.splitLevels[i]
      /\ \A i \in 1..k : Levels(q)[i] = r.splitLevels[i]
      /\ \A i \in (k + 1)..(n + 1) : Levels(q)[i] = 0
  BY <1>1, <1>2, LevelsAre
<1> HIDE DEF q, n, k
<1>4. ASSUME NEW i \in 1..(n + 1), Levels(q)[i] # 0
      PROVE  i <= (3 * setup.thres) \div 4
  <2>1. i \in 1..k /\ i \in 1..n
    BY <1>2, <1>3, <1>4
  <2>2. Levels(r)[i] # 0
    BY <1>3, <1>4, <2>1
  <2> QED
    BY <2>1, <2>2 DEF LevelsLow, n
<1> QED
  BY <1>1, <1>2, <1>4 DEF LevelsLow, q, k

(* A time that is not before the last one comes last ...                   *)
LEMMA SortedAppend ==
    ASSUME NEW s \in Seq(Int), Sorted(s), NEW x \in Int, s # <<>> => s[Len(s)] <= x
    PROVE  /\ Sorted(Append(s, x)) /\ Append(s, x) # <<>>
           /\ Append(s, x)[Len(Append(s, x))] = x
<1> DEFINE t == Append(s, x)
           n == Len(s)
<1>1. /\ n \in Nat /\ Len(t) = n + 1 /\ t[n + 1] = x /\ t \in Seq(Int)
      /\ \A i \in 1..n : t[i] = s[i] /\ s[i] \in Int
  BY AppendProperties
<1>2. ASSUME NEW i \in 1..n
      PROVE  s[i] <= x
  <2>1. n \in 1..n /\ i <= n /\ s # <<>> /\ n \in Int
    BY <1>1
  <2>2. s[i] <= s[n] /\ s[n] <= x /\ s[i] \in Int /\ s[n] \in Int
    BY <1>1, <2>1 DEF Sorted
  <2> QED
    BY <2>2
<1>3. Len(t) # 0
  BY <1>1
<1>4. t # <<>>
  <2> HIDE DEF t
  <2> SUFFICES ASSUME t = <<>>
               PROVE  FALSE
    OBVIOUS
  <2>1. Len(<<>>) = 0
    OBVIOUS
  <2> QED
    BY <1>3, <2>1
<1> HIDE DEF t
<1>5. ASSUME NEW i \in 1..(n + 1), NEW j \in 1..(n + 1), i <= j
      PROVE  t[i] <= t[j]
  <2>1. CASE j = n + 1 /\ i = n + 1
    BY <1>1, <2>1
  <2>2. CASE j = n + 1 /\ i \in 1..n
    BY <1>1, <1>2, <2>2
  <2>3. CASE j \in 1..n /\ i \in 1..n
    BY <1>1, <1>5, <2>3 DEF Sorted
  <2> QED
    BY <1>1, <1>5, <2>1, <2>2, <2>3
<1> QED
  BY <1>1, <1>4, <1>5 DEF Sorted, t

(* ... also if it takes the place of the last one (times[-1]=time).        *)
LEMMA SortedReplace ==
    ASSUME NEW s \in Seq(Int), Sorted(s), NEW x \in Int, s # <<>>, s[Len(s)] <= x
    PROVE  LET t == [s EXCEPT ![Len(s)] = x]
           IN  t \in Seq(Int) /\ Len(t) = Len(s) /\ t[Len(t)] = x /\ Sorted(t)
<1> DEFINE n == Len(s)
           t == [s EXCEPT ![n] = x]
<1>1. n \in Nat /\ n > 0 /\ n \in 1..n /\ DOMAIN s = 1..n /\ \A i \in 1..n : s[i] \in Int
  BY EmptySeq
<1>2. t \in Seq(Int) /\ Len(t) = n /\ t[n] = x /\ \A i \in 1..(n - 1) : t[i] = s[i]
  <2>1. /\ [s EXCEPT ![n] = x] \in Seq(Int) /\ Len([s EXCEPT ![n] = x]) = Len(s)
        /\ \A j \in 1..Len(s) : [s EXCEPT ![n] = x][j] = IF j = n THEN x ELSE s[j]
    BY <1>1, ExceptSeq
  <2>2. \A i \in 1..(n - 1) : i \in 1..n /\ i # n
    <3> HIDE DEF n, t
    <3> QED
      BY <1>1
  <2> QED
    BY <1>1, <2>1, <2>2
<1>4. \A i, j \in 1..n : i <= j => s[i] <= s[j]
  BY DEF Sorted
<1>5. s[n] <= x
  OBVIOUS
<1> HIDE DEF t, n
<1>3. ASSUME NEW i \in 1..n, NEW j \in 1..n, i <= j
      PROVE  t[i] <= t[j]
  <2>1. CASE i = n
    <3>1. j = n
      BY <1>1, <1>3, <2>1
    <3> QED
      BY <1>2, <2>1, <3>1
  <2>2. CASE i # n
    <3>1. i \in 1..(n - 1) /\ t[i] = s[i] /\ s[i] \in Int
      BY <1>1, <1>2, <2>2
    <3>2. s[i] <= s[n] /\ s[n] <= x /\ s[n] \in Int
      BY <1>1, <1>4, <1>5, <3>1
    <3>3. CASE j = n
      BY <1>2, <3>1, <3>2, <3>3
    <3>4. CASE j # n
      <4>1. t[j] = s[j]
        BY <1>1, <1>2, <3>4
      <4>2. s[i] <= s[j]
        BY <1>3, <1>4
      <4> QED
        BY <3>1, <4>1, <4>2
    <3> QED
      BY <3>3, <3>4
  <2> QED
    BY <2>1, <2>2
<1> QED
  BY <1>2, <1>3 DEF Sorted, t, n

(* A split of points that exceed the threshold by one at most leaves room. *)
LEMMA SplitRoom ==
    ASSUME setup \in Setups, NEW r, Shape(r), Len(r.splitLevels) < Len(r.times),
           r.aligned /\ ~TooFew =>
               /\ ~r.failed /\ Sorted(r.times) /\ r.times[Len(r.times)] = r.cTime
               /\ setup.thres > 0 => LevelsLow(r) /\ Len(r.times) <= setup.thres + 1
    PROVE  LET q == Split(r)
           IN  q.aligned /\ ~TooFew =>
                  /\ ~q.failed /\ Sorted(q.times) /\ q.times[Len(q.times)] = r.cTime
                  /\ setup.thres > 0 => LevelsLow(q) /\ Len(q.times) < setup.thres
<1> DEFINE q == Split(r)
<1>1. /\ setup.thres \in Nat
      /\ ~TooFew /\ setup.thres > 0 => setup.thres >= 13
  BY SetupIs
<1>2. r.times \in Seq(Int) /\ Len(r.times) \in Nat
  BY Fields DEF Shape
<1> SUFFICES ASSUME q.aligned, ~TooFew
             PROVE  /\ ~q.failed /\ Sorted(q.times) /\ q.times[Len(q.times)] = r.cTime
                    /\ setup.thres > 0 => LevelsLow(q) /\ Len(q.times) < setup.thres
  OBVIOUS
<1>3. CASE ~MustSplit(r)
  <2>1. /\ q.times = r.times /\ q.splitLevels = r.splitLevels /\ q.aligned = r.aligned
        /\ q.failed = r.failed
    <3>1. /\ q.times = r.times /\ q.splitLevels = r.splitLevels /\ q.aligned = r.aligned
          /\ q.failed = (r.failed \/ MustSplit(r))
      BY <1>3, SplitNot
    <3>2. r.failed \in BOOLEAN
      BY Fields DEF Shape
    <3> QED
      BY <1>3, <3>1, <3>2
  <2> HIDE DEF q
  <2>2. Levels(q) = Levels(r)
    BY <2>1 DEF Levels
  <2>3. setup.thres > 0 => Len(r.times) < setup.thres
    BY <1>1, <1>2, <1>3 DEF MustSplit
  <2> QED
    BY <2>1, <2>2, <2>3 DEF LevelsLow
<1>4. CASE MustSplit(r)
  <2>1. r.aligned
    <3>1. CASE SplitRaises(r)
      BY <3>1, SplitNot
    <3>2. CASE ~SplitRaises(r)
      <4>1. q.aligned = (r.aligned /\ SplitFrom(r) % 4 = 0)
        BY <1>4, <3>2, SplitLines
      <4> QED
        BY <4>1
    <3> QED
      BY <3>1, <3>2
  <2>2. setup.thres > 0 /\ setup.thres >= 13 /\ LevelsLow(r)
        /\ Len(r.times) \in {setup.thres, setup.thres + 1}
        /\ Sorted(r.times) /\ r.times[Len(r.times)] = r.cTime /\ ~r.failed
    BY <1>1, <1>2, <1>4, <2>1 DEF MustSplit
  <2>3. /\ ~SplitRaises(r) /\ SplitEnd(r) < Len(r.times)
        /\ Len(r.times) - 2 * Windows(r) < setup.thres
    BY <1>1, <2>2, SplitFits
  <2>4. Places(r) /\ LeftOver(r) \in Nat
    BY <2>3, PlacesAre
  <2>5. /\ q.times = CondenseTimes(r) /\ Len(CondenseTimes(r)) = LeftOver(r)
        /\ q.failed = r.failed /\ q.aligned = (r.aligned /\ SplitFrom(r) % 4 = 0)
    BY <1>4, <2>3, SplitLines
  <2>6. FirstUnsplit(r) = SplitEnd(r)
    BY <2>5, SplitPlaces
  <2>7. /\ Sorted(CondenseTimes(r))
        /\ CondenseTimes(r)[LeftOver(r)] = r.times[Len(r.times)]
        /\ LeftOver(r) = Len(r.times) - 2 * Windows(r)
    BY <1>2, <2>2, <2>3, <2>4, <2>6, SplitAscends
  <2>8. LevelsLow(q)
    BY <1>1, <1>4, <2>2, <2>6, SplitLevelsLow
  <2> HIDE DEF q
  <2> QED
    BY <2>2, <2>3, <2>5, <2>7, <2>8
<1> QED
  BY <1>3, <1>4

(* The collection with a new time: no name has a value yet.                *)
Fresh(r, t, append) ==
    [r EXCEPT !.cTime = t, !.addTimeOnDemand = ~append, !.valid = {}, !.occured = <<>>]

(* Its lines are as they were.                                             *)
LEMMA FreshIs ==
    ASSUME NEW r, Shape(r), NEW t \in Int, NEW append \in BOOLEAN
    PROVE  LET q == Fresh(r, t, append)
           IN  /\ Shape(q)
               /\ q.cTime = t /\ q.addTimeOnDemand = ~append /\ q.valid = {} /\ q.occured = <<>>
               /\ q.times = r.times /\ q.values = r.values /\ q.splitLevels = r.splitLevels
               /\ q.failed = r.failed /\ q.aligned = r.aligned
<1> DEFINE q == Fresh(r, t, append)
<1>1. PICK known, had \in SUBSET setup.names : r \in Collection(known, had)
  BY DEF Shape, IsCollection
<1>2. <<>> \in [{} -> Nat] /\ DOMAIN <<>> = {} /\ {} \in SUBSET setup.names
  OBVIOUS
<1>3. q \in Collection(known, {})
  BY <1>1, <1>2 DEF Fresh, Collection
<1>4. /\ q.cTime = t /\ q.addTimeOnDemand = ~append /\ q.valid = {} /\ q.occured = <<>>
      /\ q.times = r.times /\ q.values = r.values /\ q.splitLevels = r.splitLevels
      /\ q.failed = r.failed /\ q.aligned = r.aligned
  BY <1>1 DEF Fresh, Collection
<1> HIDE DEF q
<1>5. IsCollection(q)
  BY <1>2, <1>3 DEF IsCollection
<1>6. Shape(q)
  BY <1>2, <1>4, <1>5 DEF Shape
<1> QED
  BY <1>4, <1>6 DEF q

(* Values that are in a list are covered by it.                            *)
LEMMA CoveredBy ==
    ASSUME NEW s \in Seq(Int), NEW k \in 1..Len(s), NEW x, x = s[k]
    PROVE  Covered(x, s)
<1>1. s[k] \in Int /\ k \in DOMAIN s
  BY ElementOfSeq
<1>2. s[k] <= s[k]
  BY <1>1
<1> QED
  BY <1>1, <1>2 DEF Covered

(* What becomes of the collection r when it is told the time t: it is q, of*)
(* which no value has been lost, and it has room if r had it and what had a*)
(* value was appended to.                                                  *)
IsTold(r, q, t, append) ==
    /\ Shape(q) /\ q.times \in Seq(0..LastTime)
    /\ q.cTime = t /\ (q.addTimeOnDemand => ~append) /\ q.valid = {} /\ q.occured = <<>>
    /\ DOMAIN q.values = DOMAIN r.values
    /\ ~append => Len(q.times) = Len(r.times)
    /\ \A n \in DOMAIN r.values : \A k \in 1..Len(r.values[n]) :
          Covered(r.values[n][k], q.values[n])
    /\ Room(r) /\ r.cTime <= t /\ (r.valid # {} => append) => Room(q)

(* The time is appended, and then the collection is split.                 *)
LEMMA ToldAppend ==
    ASSUME setup \in Setups, NEW r, Shape(r), r.times \in Seq(0..LastTime),
           NEW t \in 0..LastTime
    PROVE  IsTold(r, Split(Extend(Fresh(r, t, TRUE))), t, TRUE)
<1> DEFINE f == Fresh(r, t, TRUE)
           x == Extend(f)
           q == Split(x)
<1>1. LastTime \in Nat /\ t \in Int
  BY SetupIs DEF LastTime, Unit
<1>2. /\ Shape(f)
      /\ f.cTime = t /\ f.addTimeOnDemand = FALSE /\ f.valid = {} /\ f.occured = <<>>
      /\ f.times = r.times /\ f.values = r.values /\ f.splitLevels = r.splitLevels
      /\ f.failed = r.failed /\ f.aligned = r.aligned
  <2>1. TRUE \in BOOLEAN
    OBVIOUS
  <2>2. LET p == Fresh(r, t, TRUE)
        IN  /\ Shape(p)
            /\ p.cTime = t /\ p.addTimeOnDemand = ~TRUE /\ p.valid = {} /\ p.occured = <<>>
            /\ p.times = r.times /\ p.values = r.values /\ p.splitLevels = r.splitLevels
            /\ p.failed = r.failed /\ p.aligned = r.aligned
    BY <1>1, <2>1, FreshIs
  <2> QED
    BY <2>2
<1> HIDE DEF f
<1>3. /\ Shape(x) /\ SameNames(f, x) /\ x.times = Append(r.times, t)
      /\ \A n \in DOMAIN f.values : \A i \in 1..Len(f.times) : x.values[n][i] = f.values[n][i]
      /\ x.splitLevels = r.splitLevels /\ x.failed = r.failed /\ x.aligned = r.aligned
  BY <1>2, ExtendLines
<1> HIDE DEF x
<1>4. Len(r.splitLevels) <= Len(r.times) /\ Len(r.splitLevels) \in Nat /\ Len(r.times) \in Nat
      /\ r.times \in Seq(Int) /\ r.cTime \in Int /\ DOMAIN r.values = DOMAIN f.values
  BY <1>2, Fields DEF Shape
<1>5. Len(x.times) = Len(r.times) + 1 /\ x.times \in Seq(0..LastTime)
  BY <1>1, <1>3, AppendProperties
<1>6. Len(x.splitLevels) < Len(x.times)
  BY <1>3, <1>4, <1>5
<1>7. Shape(q) /\ SameNames(x, q)
  <2>1. CASE ~MustSplit(x) \/ SplitRaises(x)
    BY <1>3, <2>1, SplitNot
  <2>2. CASE MustSplit(x) /\ ~SplitRaises(x)
    BY <1>3, <1>6, <2>2, SplitLines
  <2> QED
    BY <2>1, <2>2
<1>8. q.times \in Seq(0..LastTime)
  BY <1>1, <1>3, <1>5, <1>6, SplitBounds
<1>9. /\ q.cTime = t /\ q.addTimeOnDemand = FALSE /\ q.valid = {} /\ q.occured = <<>>
      /\ DOMAIN q.values = DOMAIN r.values
  BY <1>2, <1>3, <1>7 DEF SameNames
<1>10. ASSUME NEW n \in DOMAIN r.values, NEW k \in 1..Len(r.values[n])
       PROVE  Covered(r.values[n][k], q.values[n])
  <2> DEFINE s == x.values[n]
  <2>1. /\ n \in DOMAIN x.values /\ s \in Seq(Int) /\ Len(s) = Len(x.times)
        /\ k \in 1..Len(r.times) /\ n \in DOMAIN f.values
    <3>1. n \in DOMAIN x.values /\ n \in DOMAIN f.values
      BY <1>3, <1>4 DEF SameNames
    <3>2. s \in Seq(Int) /\ Len(s) = Len(x.times)
      BY <1>3, <3>1, Fields DEF Shape
    <3>3. Len(r.values[n]) = Len(r.times)
      BY DEF Shape
    <3> QED
      BY <3>1, <3>2, <3>3
  <2>2. s[k] = r.values[n][k] /\ k \in 1..Len(s)
    <3>1. k \in 1..Len(f.times)
      BY <1>2, <2>1
    <3>2. s[k] = f.values[n][k]
      BY <1>3, <2>1, <3>1
    <3>3. k \in 1..Len(s)
      BY <1>4, <1>5, <2>1
    <3> QED
      BY <1>2, <3>2, <3>3
  <2>3. CASE ~MustSplit(x) \/ SplitRaises(x)
    <3>1. q.values[n] = s
      BY <1>3, <2>3, SplitNot
    <3> QED
      BY <2>1, <2>2, <3>1, CoveredBy
  <2>4. CASE MustSplit(x) /\ ~SplitRaises(x)
    <3>1. q.values[n] = CondenseValues(x, s)
      BY <1>3, <1>6, <2>1, <2>4, SplitLines
    <3>2. Places(x) /\ LeftOver(x) \in Nat
      BY <1>3, <1>6, <2>4, PlacesAre
    <3> HIDE DEF s
    <3>3. Covered(s[k], CondenseValues(x, s))
      BY <2>1, <2>2, <3>2, SplitCovers
    <3> QED
      BY <2>2, <3>1, <3>3
  <2> QED
    BY <2>3, <2>4
<1>11. ASSUME Room(r), r.cTime <= t
       PROVE  Room(q)
  <2>1. x.cTime = t /\ setup.thres \in Nat
    BY <1>2, <1>3, SetupIs DEF SameNames
  <2>2. x.aligned /\ ~TooFew =>
               /\ ~x.failed /\ Sorted(x.times) /\ x.times[Len(x.times)] = x.cTime
               /\ setup.thres > 0 => LevelsLow(x) /\ Len(x.times) <= setup.thres + 1
    <3> SUFFICES ASSUME x.aligned, ~TooFew
                 PROVE  /\ ~x.failed /\ Sorted(x.times) /\ x.times[Len(x.times)] = x.cTime
                        /\ setup.thres > 0 => LevelsLow(x) /\ Len(x.times) <= setup.thres + 1
      OBVIOUS
    <3>1. /\ ~r.failed
          /\ Sorted(r.times) /\ (r.times # <<>> => r.times[Len(r.times)] = r.cTime)
          /\ setup.thres > 0 => LevelsLow(r) /\ Len(r.times) <= setup.thres
      BY <1>3, <1>11 DEF Room
    <3>2. Sorted(x.times) /\ x.times[Len(x.times)] = t
      <4>1. r.times # <<>> => r.times[Len(r.times)] <= t
        BY <1>11, <3>1
      <4> QED
        BY <1>1, <1>3, <1>4, <3>1, <4>1, SortedAppend
    <3>3. setup.thres > 0 => LevelsLow(x)
      <4> SUFFICES ASSUME setup.thres > 0
                   PROVE  LevelsLow(x)
        OBVIOUS
      <4>1. Levels(f) = Levels(r) /\ LevelsLow(r)
        BY <1>2, <3>1 DEF Levels
      <4>2. LevelsLow(f)
        BY <1>2, <4>1 DEF LevelsLow
      <4> QED
        BY <1>2, <4>2, ExtendLevels DEF x
    <3> QED
      BY <1>3, <1>4, <1>5, <2>1, <3>1, <3>2, <3>3
  <2>3. q.aligned /\ ~TooFew =>
          /\ ~q.failed /\ Sorted(q.times) /\ q.times[Len(q.times)] = x.cTime
          /\ setup.thres > 0 => LevelsLow(q) /\ Len(q.times) < setup.thres
    BY <1>3, <1>6, <2>2, SplitRoom
  <2>4. Len(q.times) \in Nat
    BY <1>7, Fields DEF Shape
  <2> HIDE DEF q
  <2> QED
    BY <1>9, <2>1, <2>3, <2>4 DEF Room
<1> QED
  BY <1>7, <1>8, <1>9, <1>10, <1>11 DEF IsTold, q, x, f

(* The time takes the place of the last one.                               *)
LEMMA ToldReplace ==
    ASSUME setup \in Setups, NEW r, Shape(r), r.times \in Seq(0..LastTime),
           NEW t \in 0..LastTime
    PROVE  LET f == Fresh(r, t, FALSE)
           IN  IsTold(r, IF r.times = <<>> THEN f ELSE [f EXCEPT !.times[Len(r.times)] = t], t, FALSE)
<1> DEFINE f == Fresh(r, t, FALSE)
           T == IF r.times = <<>> THEN r.times ELSE [r.times EXCEPT ![Len(r.times)] = t]
           q == [f EXCEPT !.times = T]
<1>1. LastTime \in Nat /\ t \in Int
  BY SetupIs DEF LastTime, Unit
<1>2. /\ Shape(f)
      /\ f.cTime = t /\ f.addTimeOnDemand = TRUE /\ f.valid = {} /\ f.occured = <<>>
      /\ f.times = r.times /\ f.values = r.values /\ f.splitLevels = r.splitLevels
      /\ f.failed = r.failed /\ f.aligned = r.aligned
  <2>1. FALSE \in BOOLEAN
    OBVIOUS
  <2>2. LET p == Fresh(r, t, FALSE)
        IN  /\ Shape(p)
            /\ p.cTime = t /\ p.addTimeOnDemand = ~FALSE /\ p.valid = {} /\ p.occured = <<>>
            /\ p.times = r.times /\ p.values = r.values /\ p.splitLevels = r.splitLevels
            /\ p.failed = r.failed /\ p.aligned = r.aligned
    BY <1>1, <2>1, FreshIs
  <2> QED
    BY <2>2
<1> HIDE DEF f
<1>3. /\ r.times \in Seq(Int) /\ Len(r.times) \in Nat /\ r.cTime \in Int
      /\ \A n \in DOMAIN r.values : r.values[n] \in Seq(Int) /\ Len(r.values[n]) = Len(r.times)
  BY Fields DEF Shape
<1>4. T \in Seq(0..LastTime) /\ Len(T) = Len(r.times) /\ T \in Seq(Int)
  <2>1. CASE r.times = <<>>
    BY <1>3, <2>1
  <2>2. CASE r.times # <<>>
    <3>1. Len(r.times) \in 1..Len(r.times)
      BY <1>3, <2>2, EmptySeq
    <3>2. [r.times EXCEPT ![Len(r.times)] = t] \in Seq(0..LastTime)
          /\ Len([r.times EXCEPT ![Len(r.times)] = t]) = Len(r.times)
      BY <3>1, ExceptSeq
    <3>3. [r.times EXCEPT ![Len(r.times)] = t] \in Seq(Int)
      BY <1>1, <1>3, <3>1, ExceptSeq
    <3> QED
      BY <2>2, <3>2, <3>3
  <2> QED
    BY <2>1, <2>2
<1>5. PICK known, had \in SUBSET setup.names : f \in Collection(known, had)
  BY <1>2 DEF Shape, IsCollection
<1>6. (IF r.times = <<>> THEN f ELSE [f EXCEPT !.times[Len(r.times)] = t]) = q
  <2>1. CASE r.times = <<>>
    <3>1. q = [f EXCEPT !.times = f.times]
      BY <1>2, <2>1
    <3>2. [f EXCEPT !.times = f.times] = f
      BY <1>5 DEF Collection
    <3> QED
      BY <2>1, <3>1, <3>2
  <2>2. CASE r.times # <<>>
    BY <1>2, <2>2
  <2> QED
    BY <2>1, <2>2
<1>7. /\ q \in Collection(known, had)
      /\ q.cTime = t /\ q.addTimeOnDemand = TRUE /\ q.valid = {} /\ q.occured = <<>>
      /\ q.times = T /\ q.values = r.values /\ q.splitLevels = r.splitLevels
      /\ q.failed = r.failed /\ q.aligned = r.aligned
  <2> HIDE DEF T
  <2> QED
    BY <1>2, <1>4, <1>5 DEF Collection
<1>8. r.times # <<>> => T = [r.times EXCEPT ![Len(r.times)] = t]
  OBVIOUS
<1>9. r.times = <<>> => T = <<>>
  OBVIOUS
<1> HIDE DEF q, T
<1>10. Shape(q)
  <2>1. IsCollection(q)
    BY <1>7 DEF IsCollection
  <2>2. DOMAIN q.occured \subseteq q.valid
    BY <1>2, <1>7 DEF Shape
  <2>3. \A n \in DOMAIN q.values : Len(q.values[n]) = Len(q.times)
    BY <1>3, <1>4, <1>7
  <2>4. Len(q.splitLevels) <= Len(q.times)
    BY <1>4, <1>7 DEF Shape
  <2> QED
    BY <2>1, <2>2, <2>3, <2>4 DEF Shape
<1>11. ASSUME NEW n \in DOMAIN r.values, NEW k \in 1..Len(r.values[n])
       PROVE  Covered(r.values[n][k], q.values[n])
  BY <1>3, <1>7, CoveredBy
<1>12. ASSUME Room(r), r.cTime <= t, r.valid = {}
       PROVE  Room(q)
  <2> SUFFICES ASSUME r.aligned, ~TooFew
               PROVE  /\ ~q.failed
                      /\ Sorted(q.times) /\ (q.times # <<>> => q.times[Len(q.times)] = q.cTime)
                      /\ setup.thres > 0 =>
                            /\ LevelsLow(q)
                            /\ Len(q.times) < setup.thres
    <3>1. setup.thres \in Nat /\ Len(q.times) \in Nat
      BY <1>3, <1>4, <1>7, SetupIs
    <3> QED
      BY <1>7, <3>1 DEF Room
  <2>1. /\ ~r.failed
        /\ Sorted(r.times) /\ (r.times # <<>> => r.times[Len(r.times)] = r.cTime)
        /\ setup.thres > 0 => LevelsLow(r) /\ Len(r.times) <= setup.thres
                              /\ Len(r.times) # setup.thres
    BY <1>12 DEF Room
  <2>2. Sorted(q.times) /\ (q.times # <<>> => q.times[Len(q.times)] = q.cTime)
    <3>1. CASE r.times = <<>>
      <4>1. T = r.times
        BY <1>9, <3>1
      <4> QED
        BY <1>7, <2>1, <3>1, <4>1
    <3>2. CASE r.times # <<>>
      <4>1. r.times[Len(r.times)] <= t
        BY <1>12, <2>1, <3>2
      <4>2. T[Len(T)] = t /\ Sorted(T)
        BY <1>1, <1>3, <1>8, <2>1, <3>2, <4>1, SortedReplace
      <4> QED
        BY <1>7, <4>2
    <3> QED
      BY <3>1, <3>2
  <2>4. setup.thres > 0 => LevelsLow(q) /\ Len(q.times) < setup.thres
    <3>1. Levels(q) = Levels(r)
      BY <1>4, <1>7 DEF Levels
    <3>2. setup.thres \in Nat
      BY SetupIs
    <3> QED
      BY <1>3, <1>4, <1>7, <2>1, <3>1, <3>2 DEF LevelsLow
  <2> QED
    BY <1>7, <2>1, <2>2, <2>4
<1>13. IsTold(r, q, t, FALSE)
  BY <1>4, <1>7, <1>10, <1>11, <1>12 DEF IsTold
<1> QED
  BY <1>6, <1>13 DEF f

(* A collection that is told a time that it does not have.                 *)
LEMMA SetTimeOfIs ==
    ASSUME setup \in Setups, NEW r, Shape(r), r.times \in Seq(0..LastTime),
           NEW t \in 0..LastTime, NEW append \in BOOLEAN, r.cTime # t
    PROVE  IsTold(r, SetTimeOf(r, t, append), t, append)
<1>1. CASE append = TRUE
  <2>1. SetTimeOf(r, t, TRUE) = Split(Extend(Fresh(r, t, TRUE)))
    BY DEF SetTimeOf, Fresh
  <2> QED
    BY <1>1, <2>1, ToldAppend
<1>2. CASE append = FALSE
  <2>1. SetTimeOf(r, t, FALSE) =
          IF r.times = <<>> THEN Fresh(r, t, FALSE)
          ELSE [Fresh(r, t, FALSE) EXCEPT !.times[Len(r.times)] = t]
    BY DEF SetTimeOf, Fresh
  <2> QED
    BY <1>2, <2>1, ToldReplace
<1> QED
  BY <1>1, <1>2

(* One that has the time already, because its master was told it: the order*)
(* of the analyzers makes no difference to its lines.                      *)
LEMMA ToldTwice ==
    ASSUME NEW r, NEW q, NEW t, NEW append \in BOOLEAN, NEW b, IsTold(r, q, t, append)
    PROVE  /\ IsTold(r, SetTimeOf(q, t, b), t, append)
           /\ SetTimeOf(q, t, b).failed = q.failed
<1> DEFINE p == [q EXCEPT !.addTimeOnDemand = FALSE]
<1>1. SetTimeOf(q, t, b) = p
  BY DEF SetTimeOf, IsTold
<1>2. PICK known, had \in SUBSET setup.names : q \in Collection(known, had)
  BY DEF IsTold, Shape, IsCollection
<1>3. /\ p \in Collection(known, had)
      /\ p.cTime = q.cTime /\ p.addTimeOnDemand = FALSE /\ p.valid = q.valid
      /\ p.occured = q.occured /\ p.times = q.times /\ p.values = q.values
      /\ p.splitLevels = q.splitLevels /\ p.failed = q.failed /\ p.aligned = q.aligned
  BY <1>2 DEF Collection
<1> HIDE DEF p
<1>4. Shape(p)
  <2>1. IsCollection(p)
    BY <1>3 DEF IsCollection
  <2> QED
    BY <1>3, <2>1 DEF IsTold, Shape
<1>5. Room(q) => Room(p)
  <2>1. Levels(p) = Levels(q)
    BY <1>3 DEF Levels
  <2>2. LevelsLow(q) => LevelsLow(p)
    BY <1>3, <2>1 DEF LevelsLow
  <2> QED
    BY <1>3, <2>2 DEF Room
<1>6. IsTold(r, p, t, append)
  BY <1>3, <1>4, <1>5 DEF IsTold
<1> QED
  BY <1>1, <1>3, <1>6

(* The analyzers that are told a time.                                     *)
LEMMA OrderIs ==
    /\ ToSet(<<"master">>) = {"master"}
    /\ ToSet(<<"master", "slave">>) = {"master", "slave"}
    /\ ToSet(<<"slave", "master">>) = {"master", "slave"}
BY DEF ToSet

(* A new time reaches each collection once or never, in every order of the *)
(* analyzers: with append if it got a value, and never after a split has   *)
(* failed.                                                                 *)
LEMMA SetTimesIs ==
    ASSUME setup \in Setups, NEW ls, DOMAIN ls = Collections, NEW t \in 0..LastTime,
           \A d \in Collections : /\ Shape(ls[d]) /\ ls[d].times \in Seq(0..LastTime)
                                  /\ ls[d].cTime # t,
           NEW c \in Collections
    PROVE  /\ DOMAIN SetTimes(ls, t) = Collections
           /\ \/ SetTimes(ls, t)[c] = ls[c]
              \/ /\ c \in ToSet(setup.order)
                 /\ \E append \in BOOLEAN :
                       /\ IsTold(ls[c], SetTimes(ls, t)[c], t, append)
                       /\ ls[c].valid # {} => append
                       /\ (\A d \in ToSet(setup.order) : ls[d].valid # {}) => append
<1> DEFINE m == "master"
           s == "slave"
           first == SetTime(ls, setup.order[1], t)
           told(d, q) == \E append \in BOOLEAN :
                            /\ IsTold(ls[d], q, t, append)
                            /\ ls[d].valid # {} => append
                            /\ (\A e \in ToSet(setup.order) : ls[e].valid # {}) => append
<1>1. Collections = {m, s} /\ m # s
  BY DEF Collections
<1>2. SetTimes(ls, t) = IF Len(setup.order) = 1 \/ \E d \in Collections : first[d].failed
                        THEN first ELSE SetTime(first, setup.order[2], t)
  BY DEF SetTimes
<1>3. \A f, d : /\ DOMAIN SetTime(f, d, t) = Collections
                /\ d \in Collections => SetTime(f, d, t)[d] = SetTimeOf(f[d], t, HasValid(f, d))
                /\ \A e \in Collections \ ({d} \cup Slaves(d)) : SetTime(f, d, t)[e] = f[e]
                /\ d \in Collections /\ SetTimeOf(f[d], t, HasValid(f, d)).failed =>
                     \A e \in Collections \ {d} : SetTime(f, d, t)[e] = f[e]
                /\ d \in Collections /\ ~SetTimeOf(f[d], t, HasValid(f, d)).failed =>
                     \A e \in Slaves(d) \cap Collections : e # d => SetTime(f, d, t)[e] =
                          SetTimeOf(f[e], t, HasValid(f, d) /\ f[d].cTime # t)
  <2> TAKE f, d
  <2> DEFINE a == HasValid(f, d)
             own == SetTimeOf(f[d], t, a)
             force == a /\ f[d].cTime # t
  <2>1. SetTime(f, d, t) = [e \in Collections |->
           CASE e = d -> own
             [] e \in Slaves(d) /\ ~own.failed -> SetTimeOf(f[e], t, force)
             [] OTHER -> f[e]]
    BY DEF SetTime
  <2>2. d \notin Slaves(d)
    BY DEF Slaves
  <2> HIDE DEF own, force
  <2>3. DOMAIN SetTime(f, d, t) = Collections
    BY <2>1
  <2>4. ASSUME d \in Collections
        PROVE  SetTime(f, d, t)[d] = own
    BY <2>1, <2>2, <2>4
  <2>5. ASSUME NEW e \in Collections, e # d, e \notin Slaves(d) \/ own.failed
        PROVE  SetTime(f, d, t)[e] = f[e]
    BY <2>1, <2>5
  <2>6. ASSUME NEW e \in Collections, e # d, e \in Slaves(d), ~own.failed
        PROVE  SetTime(f, d, t)[e] = SetTimeOf(f[e], t, force)
    BY <2>1, <2>6
  <2> QED
    BY <2>3, <2>4, <2>5, <2>6 DEF own, force
<1>4. \A d \in Collections : \A a \in BOOLEAN : IsTold(ls[d], SetTimeOf(ls[d], t, a), t, a)
  BY SetTimeOfIs
<1>5. \A d \in Collections : \A q, b : told(d, q) => told(d, SetTimeOf(q, t, b))
  BY ToldTwice
<1>6. \A f, d : HasValid(f, d) \in BOOLEAN /\ (f[d].valid # {} => HasValid(f, d))
  BY DEF HasValid
<1>7. \A d \in Collections : ls[d].cTime # t
  OBVIOUS
<1>8. CASE setup.order = <<m>>
  <2>1. ToSet(setup.order) = {m} /\ Slaves(m) = {} /\ setup.order[1] = m /\ Len(setup.order) = 1
    BY <1>8, OrderIs DEF Slaves
  <2> DEFINE a == HasValid(ls, m)
  <2>2. SetTimes(ls, t) = SetTime(ls, m, t)
    BY <1>2, <2>1
  <2>3. SetTimes(ls, t)[m] = SetTimeOf(ls[m], t, a) /\ SetTimes(ls, t)[s] = ls[s]
        /\ DOMAIN SetTimes(ls, t) = Collections
    BY <1>1, <1>3, <2>1, <2>2
  <2>4. a \in BOOLEAN /\ (ls[m].valid # {} => a)
    BY <1>6
  <2> HIDE DEF a
  <2>5. told(m, SetTimes(ls, t)[m])
    BY <1>1, <1>4, <2>1, <2>3, <2>4
  <2> QED
    BY <1>1, <2>1, <2>3, <2>5
<1>9. CASE setup.order = <<m, s>>
  <2>1. ToSet(setup.order) = {m, s} /\ Slaves(m) = {s} /\ Slaves(s) = {}
        /\ setup.order[1] = m /\ setup.order[2] = s /\ Len(setup.order) = 2
    BY <1>1, <1>9, OrderIs DEF Slaves
  <2> DEFINE a == HasValid(ls, m)
             own == SetTimeOf(ls[m], t, a)
  <2>2. a \in BOOLEAN /\ (ls[m].valid # {} => a) /\ (ls[s].valid # {} => a)
    BY <2>1 DEF HasValid
  <2>3. first = SetTime(ls, m, t) /\ first[m] = own /\ DOMAIN first = Collections
    BY <1>1, <1>3, <2>1
  <2> HIDE DEF a
  <2>4. told(m, first[m])
    BY <1>1, <1>4, <2>1, <2>2, <2>3
  <2>5. CASE own.failed
    <3>1. first[s] = ls[s]
      BY <1>1, <1>3, <2>3, <2>5 DEF a
    <3>2. SetTimes(ls, t) = first
      BY <1>1, <1>2, <2>3, <2>5
    <3> QED
      BY <1>1, <2>1, <2>3, <2>4, <3>1, <3>2
  <2>6. CASE ~own.failed
    <3>1. first[s] = SetTimeOf(ls[s], t, a /\ ls[m].cTime # t)
      BY <1>1, <1>3, <2>1, <2>3, <2>6 DEF a
    <3>2. (a /\ ls[m].cTime # t) = a
      BY <1>1, <1>7, <2>2
    <3>3. told(s, first[s])
      BY <1>1, <1>4, <2>1, <2>2, <3>1, <3>2
    <3>4. CASE \E d \in Collections : first[d].failed
      BY <1>1, <1>2, <2>1, <2>3, <2>4, <3>3, <3>4
    <3>5. CASE ~\E d \in Collections : first[d].failed
      <4> HIDE DEF first
      <4>1. SetTimes(ls, t) = SetTime(first, s, t)
        BY <1>2, <2>1, <3>5
      <4>2. SetTimes(ls, t)[m] = first[m]
            /\ SetTimes(ls, t)[s] = SetTimeOf(first[s], t, HasValid(first, s))
            /\ DOMAIN SetTimes(ls, t) = Collections
        BY <1>1, <1>3, <2>1, <4>1
      <4> HIDE DEF told
      <4>3. told(s, SetTimes(ls, t)[s])
        BY <1>1, <1>5, <3>3, <4>2
      <4> QED
        BY <1>1, <2>1, <2>4, <4>2, <4>3 DEF told
    <3> QED
      BY <3>4, <3>5
  <2> QED
    BY <2>5, <2>6
<1>10. CASE setup.order = <<s, m>>
  <2>1. ToSet(setup.order) = {m, s} /\ Slaves(m) = {s} /\ Slaves(s) = {}
        /\ setup.order[1] = s /\ setup.order[2] = m /\ Len(setup.order) = 2
    BY <1>1, <1>10, OrderIs DEF Slaves
  <2> DEFINE a == HasValid(ls, s)
  <2>2. a \in BOOLEAN /\ (ls[s].valid # {} => a)
    BY <1>6
  <2>3. /\ first = SetTime(ls, s, t) /\ first[s] = SetTimeOf(ls[s], t, a) /\ first[m] = ls[m]
        /\ DOMAIN first = Collections
    BY <1>1, <1>3, <2>1
  <2> HIDE DEF a
  <2>4. told(s, first[s])
    BY <1>1, <1>4, <2>1, <2>2, <2>3
  <2>5. CASE \E d \in Collections : first[d].failed
    BY <1>1, <1>2, <2>1, <2>3, <2>4, <2>5
  <2>6. CASE ~\E d \in Collections : first[d].failed
    <3> DEFINE b == HasValid(first, m)
    <3>1. b \in BOOLEAN /\ (ls[m].valid # {} => b)
      BY <1>6, <2>3
    <3> HIDE DEF first
    <3>2. SetTimes(ls, t) = SetTime(first, m, t)
      BY <1>2, <2>1, <2>6
    <3>3. SetTimes(ls, t)[m] = SetTimeOf(ls[m], t, b) /\ DOMAIN SetTimes(ls, t) = Collections
      BY <1>1, <1>3, <2>3, <3>2
    <3>4. SetTimes(ls, t)[s] = first[s]
          \/ SetTimes(ls, t)[s] = SetTimeOf(first[s], t, b /\ first[m].cTime # t)
      BY <1>1, <1>3, <2>1, <3>2
    <3> HIDE DEF b
    <3>5. told(m, SetTimes(ls, t)[m])
      BY <1>1, <1>4, <2>1, <3>1, <3>3
    <3> HIDE DEF told
    <3>6. told(s, SetTimes(ls, t)[s])
      BY <1>1, <1>5, <2>4, <3>4
    <3> QED
      BY <1>1, <2>1, <3>3, <3>5, <3>6 DEF told
  <2> QED
    BY <2>5, <2>6
<1> QED
  BY <1>8, <1>9, <1>10, SetupIs
-------------------------------------------------------------------------
(* Lemmas about values of one time *)

(* The sum of a list, as an operator of its own.                           *)
Total(s) == FoldLeft(+, 0, s)

(* Multiples of a number: division and multiplication cancel.              *)
LEMMA Multiple ==
    ASSUME NEW a \in Int, NEW b \in Nat, b > 0, a % b = 0
    PROVE  b * (a \div b) = a /\ a \div b \in Int
OBVIOUS

(* A number of times b is a multiple of b ...                              *)
LEMMA MultipleOf ==
    ASSUME NEW q \in Int, NEW b \in Nat, b > 0
    PROVE  (b * q) % b = 0
OBVIOUS

(* ... and so is the sum of two multiples.                                 *)
LEMMA MultipleSum ==
    ASSUME NEW a \in Int, NEW v \in Int, NEW b \in Nat, b > 0, a % b = 0, v % b = 0
    PROVE  (a + v) % b = 0
<1> DEFINE p == a \div b
           q == v \div b
<1>1. b * p = a /\ p \in Int /\ b * q = v /\ q \in Int
  BY Multiple
<1> HIDE DEF p, q
<1>2. a + v = b * (p + q) /\ p + q \in Int
  BY <1>1
<1>3. (b * (p + q)) % b = 0
  BY <1>2, MultipleOf
<1> QED
  BY <1>2, <1>3

(* The greater and the lesser of two numbers.                              *)
LEMMA LargerOf ==
    ASSUME NEW a \in Int, NEW b \in Int
    PROVE  /\ Max({a, b}) = IF a >= b THEN a ELSE b
           /\ Min({a, b}) = IF a <= b THEN a ELSE b
<1>1. CASE a = b
  BY <1>1, MaxIs, MinIs
<1>2. CASE a > b
  <2>1. {a, b} \in SUBSET Int /\ a \in {a, b} /\ b \in {a, b}
        /\ (\A y \in {a, b} : a >= y) /\ (\A y \in {a, b} : b <= y)
    BY <1>2
  <2>2. Max({a, b}) = a /\ Min({a, b}) = b
    BY <2>1, MaxIs, MinIs
  <2> QED
    BY <1>2, <2>2
<1>3. CASE a < b
  <2>1. {a, b} \in SUBSET Int /\ a \in {a, b} /\ b \in {a, b}
        /\ (\A y \in {a, b} : b >= y) /\ (\A y \in {a, b} : a <= y)
    BY <1>3
  <2>2. Max({a, b}) = b /\ Min({a, b}) = a
    BY <2>1, MaxIs, MinIs
  <2> QED
    BY <1>3, <2>2
<1> QED
  BY <1>1, <1>2, <1>3

(* The new value of a point is a number.                                   *)
LEMMA AccumulateInt ==
    ASSUME NEW kind \in Kinds, NEW old \in Int, NEW val \in Int, NEW k \in Nat
    PROVE  Accumulate(kind, old, val, k) \in Int
<1>1. Max({val, old}) \in Int /\ Min({val, old}) \in Int
  BY LargerOf
<1>2. (k * old + val) \div (k + 1) \in Int
  <2>1. k * old \in Int
    OBVIOUS
  <2> DEFINE x == k * old + val
             y == k + 1
  <2>2. x \in Int /\ y \in Int /\ y > 0
    BY <2>1
  <2> HIDE DEF x, y
  <2>3. x \div y \in Int
    BY <2>2
  <2> QED
    BY <2>3 DEF x, y
<1> QED
  BY <1>1, <1>2 DEF Accumulate, Kinds

(* The first, the last, the number and the set of values with one more.    *)
LEMMA AppendIs ==
    ASSUME NEW s \in Seq(Int), s # <<>>, NEW v \in Int
    PROVE  /\ Head(Append(s, v)) = Head(s) /\ Last(Append(s, v)) = v
           /\ Len(Append(s, v)) = Len(s) + 1 /\ Len(s) \in Nat /\ Len(s) > 0
           /\ Append(s, v) \in Seq(Int) /\ Append(s, v) # <<>>
           /\ ToSet(Append(s, v)) = ToSet(s) \cup {v}
<1> DEFINE t == Append(s, v)
           n == Len(s)
<1>1. n \in Nat /\ n > 0
  BY EmptySeq
<1>2. /\ t \in Seq(Int) /\ Len(t) = n + 1 /\ t[n + 1] = v /\ \A i \in 1..n : t[i] = s[i]
  BY AppendProperties
<1>3. t # <<>>
  <2> HIDE DEF t
  <2> SUFFICES ASSUME t = <<>>
               PROVE  FALSE
    OBVIOUS
  <2>1. Len(<<>>) = 0
    OBVIOUS
  <2> QED
    BY <1>1, <1>2, <2>1
<1> HIDE DEF t
<1>4. Head(t) = Head(s)
  <2>1. 1 \in 1..n
    BY <1>1
  <2>2. Head(t) = t[1] /\ Head(s) = s[1]
    BY <1>2, <1>3
  <2> QED
    BY <1>2, <2>1, <2>2
<1>5. Last(t) = v
  BY <1>2 DEF Last
<1>6. ToSet(t) = {t[i] : i \in 1..(n + 1)} /\ ToSet(s) = {s[i] : i \in 1..n}
  BY <1>2, <1>3, RangeIs
<1> HIDE DEF n
<1>7. 1..(n + 1) = 1..n \cup {n + 1}
  BY <1>1
<1>8. ToSet(t) = ToSet(s) \cup {v}
  <2>1. {t[i] : i \in 1..(n + 1)} = {t[i] : i \in 1..n} \cup {t[n + 1]}
    BY <1>7
  <2>2. {t[i] : i \in 1..n} = {s[i] : i \in 1..n}
    BY <1>2
  <2> QED
    BY <1>2, <1>6, <2>1, <2>2
<1> QED
  BY <1>1, <1>2, <1>3, <1>4, <1>5, <1>8 DEF t, n

(* Of one value it is the value itself, or that there is one.              *)
LEMMA AccumulatedOne ==
    ASSUME NEW kind \in Kinds, NEW v \in Int
    PROVE  Accumulated(kind, Append(<<>>, v)) = IF kind = "count" THEN 1 ELSE v
<1> DEFINE t == Append(<<>>, v)
<1>1. t = <<v>> /\ Len(t) = 1 /\ Head(t) = v /\ Last(t) = v /\ t # <<>>
  BY DEF Last
<1>2. ToSet(t) = {v}
  BY DEF ToSet
<1>3. Max({v}) = v /\ Min({v}) = v
  BY MaxIs, MinIs
<1>4. FoldLeft(+, 0, t) = 0 + v
  <2>1. <<>> \in Seq(Int)
    OBVIOUS
  <2>2. FoldLeft(+, 0, Append(<<>>, v)) = FoldLeft(+, 0, <<>>) + v
    BY <2>1, SumAppend
  <2> QED
    BY <2>2, SumEmpty
<1>5. v \div 1 = v /\ 0 + v = v
  OBVIOUS
<1> HIDE DEF t
<1>6. CASE kind \in {"sum", "average"}
  <2>1. Accumulated(kind, t) = IF kind = "sum" THEN FoldLeft(+, 0, t)
                               ELSE FoldLeft(+, 0, t) \div Len(t)
    BY <1>6 DEF Accumulated
  <2> DEFINE x == FoldLeft(+, 0, t)
  <2>2. x = v
    BY <1>4, <1>5
  <2>3. Accumulated(kind, t) = IF kind = "sum" THEN x ELSE x \div Len(t)
    BY <2>1
  <2> HIDE DEF x
  <2> QED
    BY <1>1, <1>5, <1>6, <2>2, <2>3 DEF t
<1>7. CASE kind \notin {"sum", "average"}
  <2>1. Accumulated(kind, t) =
          CASE kind = "first" -> Head(t) [] kind = "last" -> Last(t)
            [] kind = "max" -> Max(ToSet(t)) [] kind = "min" -> Min(ToSet(t))
            [] kind = "count" -> Len(t)
    BY <1>7 DEF Accumulated, Kinds
  <2> QED
    BY <1>1, <1>2, <1>3, <1>7, <2>1 DEF Kinds, t
<1> QED
  BY <1>6, <1>7

(* One more value: what setValue makes of the value before and the new one *)
(* is what all values of the time amount to, for every kind of accumulation*)
(* (an average whenever it is a whole number).                             *)
LEMMA AccumulateAll ==
    ASSUME NEW kind \in Kinds, NEW s \in Seq(Int), s # <<>>, NEW v \in Int,
           kind = "average" => Total(s) % Len(s) = 0
    PROVE  /\ Accumulate(kind, Accumulated(kind, s), v, Len(s)) = Accumulated(kind, Append(s, v))
<1> DEFINE t == Append(s, v)
           n == Len(s)
           A == Total(s)
           B == Total(t)
<1>1. /\ Head(t) = Head(s) /\ Last(t) = v /\ Len(t) = n + 1 /\ n \in Nat /\ n > 0
      /\ t \in Seq(Int) /\ t # <<>> /\ ToSet(t) = ToSet(s) \cup {v}
  BY AppendIs
<1>2. A \in Int /\ B = A + v
  BY SumAppend DEF Total
<1>3. kind = "average" => A % n = 0
  OBVIOUS
<1> HIDE DEF A, B, n, t
<1>4. CASE kind = "first"
  BY <1>1, <1>4 DEF Accumulate, Accumulated, t
<1>5. CASE kind = "last"
  BY <1>1, <1>5 DEF Accumulate, Accumulated, t
<1>6. CASE kind = "count"
  BY <1>1, <1>6 DEF Accumulate, Accumulated, t, n
<1>7. CASE kind = "sum"
  <2>1. Accumulated(kind, s) = A /\ Accumulated(kind, t) = B
    BY <1>7 DEF Accumulated, Total, A, B
  <2>2. Accumulate(kind, A, v, n) = v + A
    BY <1>7 DEF Accumulate
  <2>3. v + A = B
    BY <1>2
  <2> QED
    BY <2>1, <2>2, <2>3 DEF n, t
<1>8. CASE kind = "average"
  <2>1. Accumulated(kind, s) = A \div n /\ Accumulated(kind, t) = B \div (n + 1)
    <3>1. Accumulated(kind, s) = A \div n /\ Accumulated(kind, t) = B \div Len(t)
      BY <1>8 DEF Accumulated, Total, A, B, n
    <3> QED
      BY <1>1, <3>1
  <2>2. Accumulate(kind, A \div n, v, n) = (n * (A \div n) + v) \div (n + 1)
    BY <1>8 DEF Accumulate
  <2>3. n * (A \div n) = A
    BY <1>1, <1>2, <1>3, <1>8, Multiple
  <2> QED
    BY <1>2, <2>1, <2>2, <2>3 DEF n, t
<1>9. CASE kind \in {"max", "min"}
  <2> DEFINE lo == Min(ToSet(s))
             hi == Max(ToSet(s))
             R == ToSet(s)
  <2>1. R \in SUBSET Int /\ lo \in R /\ hi \in R /\ \A y \in R : lo <= y /\ hi >= y
    <3>1. R \in SUBSET Int /\ R = {s[i] : i \in 1..Len(s)}
      BY RangeIs
    <3>2. /\ lo \in R /\ \A i \in 1..Len(s) : lo <= s[i]
          /\ hi \in R /\ \A i \in 1..Len(s) : hi >= s[i]
      BY LeastAndGreatest
    <3> HIDE DEF lo, hi, R
    <3> QED
      BY <3>1, <3>2
  <2> HIDE DEF lo, hi, R
  <2> DEFINE T == R \cup {v}
  <2>2. /\ T \in SUBSET Int
        /\ Max({v, hi}) = IF v >= hi THEN v ELSE hi
        /\ Min({v, lo}) = IF v <= lo THEN v ELSE lo
        /\ lo \in Int /\ hi \in Int
    BY <2>1, LargerOf
  <2>10. \A y \in T : y \in Int /\ (y = v \/ (lo <= y /\ hi >= y))
    BY <2>1, <2>2
  <2>3. Max({v, hi}) \in T /\ \A y \in T : Max({v, hi}) >= y
    <3>1. Max({v, hi}) \in T
      BY <2>1, <2>2
    <3>2. Max({v, hi}) \in Int /\ Max({v, hi}) >= v /\ Max({v, hi}) >= hi
      BY <2>2
    <3> DEFINE z == Max({v, hi})
    <3>3. z \in Int /\ z >= v /\ z >= hi
      BY <3>2
    <3> HIDE DEF z
    <3>4. ASSUME NEW y \in T
          PROVE  z >= y
      <4>1. y \in Int /\ (y = v \/ hi >= y)
        BY <2>10
      <4> QED
        BY <2>2, <3>3, <4>1
    <3> QED
      BY <3>1, <3>4 DEF z
  <2>4. Min({v, lo}) \in T /\ \A y \in T : Min({v, lo}) <= y
    <3>1. Min({v, lo}) \in T
      BY <2>1, <2>2
    <3>2. Min({v, lo}) \in Int /\ Min({v, lo}) <= v /\ Min({v, lo}) <= lo
      BY <2>2
    <3> DEFINE z == Min({v, lo})
    <3>3. z \in Int /\ z <= v /\ z <= lo
      BY <3>2
    <3> HIDE DEF z
    <3>4. ASSUME NEW y \in T
          PROVE  z <= y
      <4>1. y \in Int /\ (y = v \/ lo <= y)
        BY <2>10
      <4> QED
        BY <2>2, <3>3, <4>1
    <3> QED
      BY <3>1, <3>4 DEF z
  <2>5. Max(T) = Max({v, hi})
    BY <2>2, <2>3, MaxIs
  <2>6. Min(T) = Min({v, lo})
    BY <2>2, <2>4, MinIs
  <2>7. ToSet(t) = T
    BY <1>1 DEF R
  <2>8. CASE kind = "max"
    <3>1. Accumulated(kind, s) = hi /\ Accumulated(kind, t) = Max(T)
      BY <2>7, <2>8 DEF Accumulated, hi
    <3>2. Accumulate(kind, hi, v, n) = Max({v, hi})
      BY <2>8 DEF Accumulate
    <3> QED
      BY <2>5, <3>1, <3>2 DEF t, n
  <2>9. CASE kind = "min"
    <3>1. Accumulated(kind, s) = lo /\ Accumulated(kind, t) = Min(T)
      BY <2>7, <2>9 DEF Accumulated, lo
    <3>2. Accumulate(kind, lo, v, n) = Min({v, lo})
      BY <2>9 DEF Accumulate
    <3> QED
      BY <2>6, <3>1, <3>2 DEF t, n
  <2> QED
    BY <1>9, <2>8, <2>9
<1> QED
  BY <1>4, <1>5, <1>6, <1>7, <1>8, <1>9 DEF Kinds

(* The line of a name, new or not, has a value for each time.              *)
LEMMA GetValuesIs ==
    ASSUME NEW r, Shape(r), NEW n
    PROVE  GetValues(r, n) \in Seq(Int) /\ Len(GetValues(r, n)) = Len(r.times)
<1>1. r.times \in Seq(Int) /\ Len(r.times) \in Nat /\ DOMAIN r.times = 1..Len(r.times)
  BY Fields DEF Shape
<1>2. CASE n \in DOMAIN r.values
  <2>1. r.values[n] \in Seq(Int) /\ Len(r.values[n]) = Len(r.times)
    BY <1>2, Fields DEF Shape
  <2> QED
    BY <1>2, <2>1 DEF GetValues
<1>3. CASE n \notin DOMAIN r.values
  <2> DEFINE z == [i \in 1..Len(r.times) |-> defaultValue]
  <2>1. GetValues(r, n) = z
    BY <1>1, <1>3 DEF GetValues
  <2>2. z \in Seq(Int) /\ Len(z) = Len(r.times)
    BY <1>1 DEF defaultValue
  <2> QED
    BY <2>1, <2>2
<1> QED
  BY <1>2, <1>3

(* The new value of the last point.                                        *)
StoredValue(r, n, val) ==
    IF n \in DOMAIN r.occured
    THEN Accumulate(setup.special, Last(GetValues(r, n)), val, r.occured[n])
    ELSE IF setup.accumulation = "count" THEN 1 ELSE val

(* What a value changes: the line of its name, at the last point.          *)
LEMMA StoreIs ==
    ASSUME setup \in Setups, NEW r, Shape(r), NEW n \in setup.names, NEW val \in Int
    PROVE  LET q == Store(r, n, val)
           IN  /\ Shape(q)
               /\ q.cTime = r.cTime /\ q.addTimeOnDemand = r.addTimeOnDemand
               /\ q.times = r.times /\ q.splitLevels = r.splitLevels
               /\ q.failed = r.failed /\ q.aligned = r.aligned
               /\ q.valid = r.valid \cup {n}
               /\ \A m \in DOMAIN r.values : m # n => q.values[m] = r.values[m]
               /\ \A m \in DOMAIN r.occured :
                     m # n => m \in DOMAIN q.occured /\ q.occured[m] = r.occured[m]
               /\ r.times # <<>> =>
                     /\ n \in DOMAIN q.occured
                     /\ q.occured[n] = IF n \in DOMAIN r.occured THEN r.occured[n] + 1 ELSE 1
                     /\ Last(q.values[n]) = StoredValue(r, n, val)
<1> DEFINE q == Store(r, n, val)
           data == GetValues(r, n)
           k == IF n \in DOMAIN r.occured THEN r.occured[n] ELSE 0
           new == StoredValue(r, n, val)
<1>1. PICK known, had \in SUBSET setup.names : r \in Collection(known, had)
  BY DEF Shape, IsCollection
<1>2. data \in Seq(Int) /\ Len(data) = Len(r.times) /\ Len(r.times) \in Nat
  BY <1>1, GetValuesIs DEF Collection
<1>3. /\ DOMAIN r.values = known /\ DOMAIN r.occured = had /\ r.values \in [known -> Seq(Int)]
      /\ r.occured \in [had -> Nat] /\ r.valid \subseteq known /\ r.times \in Seq(Int)
      /\ had \subseteq r.valid /\ known \subseteq setup.names /\ had \subseteq setup.names
      /\ \A m \in known : Len(r.values[m]) = Len(r.times)
      /\ Len(r.splitLevels) <= Len(r.times)
  BY <1>1 DEF Collection, Shape
<1>4. k \in Nat
  BY <1>3
<1> HIDE DEF data
<1>5. data = <<>> <=> r.times = <<>>
  BY <1>2, <1>3, EmptySeq
<1>6. CASE data = <<>>
  <2> DEFINE V == Put(r.values, n, data)
  <2>1. q = [r EXCEPT !.values = V, !.valid = r.valid \cup {n}]
    BY <1>6 DEF Store, data
  <2>2. /\ DOMAIN V = known \cup {n} /\ V[n] = data
        /\ \A m \in known : m # n => V[m] = r.values[m]
        /\ V = [m \in known \cup {n} |-> V[m]]
    <3>1. /\ DOMAIN V = DOMAIN r.values \cup {n} /\ V[n] = data
          /\ \A m \in DOMAIN r.values : m # n => V[m] = r.values[m]
          /\ V = [m \in DOMAIN r.values \cup {n} |-> V[m]]
      BY DEF Put
    <3> HIDE DEF V
    <3> QED
      BY <1>3, <3>1
  <2> HIDE DEF V
  <2>3. V \in [known \cup {n} -> Seq(Int)] /\ \A m \in known \cup {n} : Len(V[m]) = Len(r.times)
    BY <1>2, <1>3, <2>2
  <2>4. q \in Collection(known \cup {n}, had)
    BY <1>1, <2>1, <2>3 DEF Collection
  <2>5. /\ q.cTime = r.cTime /\ q.addTimeOnDemand = r.addTimeOnDemand
        /\ q.times = r.times /\ q.splitLevels = r.splitLevels
        /\ q.failed = r.failed /\ q.aligned = r.aligned
        /\ q.valid = r.valid \cup {n} /\ q.values = V /\ q.occured = r.occured
    BY <1>1, <2>1 DEF Collection
  <2> HIDE DEF q
  <2>6. Shape(q)
    <3>1. IsCollection(q)
      BY <1>3, <2>4 DEF IsCollection
    <3> QED
      BY <1>3, <2>2, <2>3, <2>5, <3>1 DEF Shape
  <2> QED
    BY <1>3, <1>5, <1>6, <2>2, <2>5, <2>6 DEF q
<1>7. CASE data # <<>>
  <2> DEFINE D == [data EXCEPT ![Len(data)] = new]
             V == Put(r.values, n, D)
             O == Put(r.occured, n, k + 1)
  <2>0. new = (IF n \in DOMAIN r.occured THEN Accumulate(setup.special, Last(data), val, k)
               ELSE IF setup.accumulation = "count" THEN 1 ELSE val)
    BY DEF StoredValue, data
  <2>1. q = [r EXCEPT !.values = V, !.occured = O, !.valid = r.valid \cup {n}]
    BY <1>7, <2>0 DEF Store, data
  <2>2. Last(data) \in Int /\ Len(data) \in 1..Len(data) /\ Len(data) \in Nat
    <3>1. Len(data) \in 1..Len(data)
      BY <1>2, <1>7, EmptySeq
    <3> QED
      BY <1>2, <3>1, ElementOfSeq DEF Last
  <2>3. new \in Int
    BY <1>4, <2>0, <2>2, AccumulateInt, SetupIs
  <2> HIDE DEF new, k
  <2>4. D \in Seq(Int) /\ Len(D) = Len(data) /\ D[Len(data)] = new
    BY <1>2, <2>2, <2>3, ExceptSeq
  <2> HIDE DEF D
  <2>5. Last(D) = new
    BY <2>4 DEF Last
  <2>6. /\ DOMAIN V = known \cup {n} /\ V[n] = D
        /\ \A m \in known : m # n => V[m] = r.values[m]
        /\ V = [m \in known \cup {n} |-> V[m]]
    <3>1. /\ DOMAIN V = DOMAIN r.values \cup {n} /\ V[n] = D
          /\ \A m \in DOMAIN r.values : m # n => V[m] = r.values[m]
          /\ V = [m \in DOMAIN r.values \cup {n} |-> V[m]]
      BY DEF Put
    <3> HIDE DEF V
    <3> QED
      BY <1>3, <3>1
  <2>7. /\ DOMAIN O = had \cup {n} /\ O[n] = k + 1
        /\ \A m \in had : m # n => O[m] = r.occured[m]
        /\ O = [m \in had \cup {n} |-> O[m]]
    <3>1. /\ DOMAIN O = DOMAIN r.occured \cup {n} /\ O[n] = k + 1
          /\ \A m \in DOMAIN r.occured : m # n => O[m] = r.occured[m]
          /\ O = [m \in DOMAIN r.occured \cup {n} |-> O[m]]
      BY DEF Put
    <3> HIDE DEF O
    <3> QED
      BY <1>3, <3>1
  <2> HIDE DEF V, O
  <2>8. V \in [known \cup {n} -> Seq(Int)] /\ \A m \in known \cup {n} : Len(V[m]) = Len(r.times)
    BY <1>2, <1>3, <2>4, <2>6
  <2>9. O \in [had \cup {n} -> Nat]
    BY <1>3, <1>4, <2>7
  <2>10. q \in Collection(known \cup {n}, had \cup {n})
    BY <1>1, <2>1, <2>8, <2>9 DEF Collection
  <2>11. /\ q.cTime = r.cTime /\ q.addTimeOnDemand = r.addTimeOnDemand
         /\ q.times = r.times /\ q.splitLevels = r.splitLevels
         /\ q.failed = r.failed /\ q.aligned = r.aligned
         /\ q.valid = r.valid \cup {n} /\ q.values = V /\ q.occured = O
    BY <1>1, <2>1 DEF Collection
  <2> HIDE DEF q
  <2>12. Shape(q)
    <3>1. IsCollection(q)
      BY <1>3, <2>10 DEF IsCollection
    <3> QED
      BY <1>3, <2>6, <2>7, <2>8, <2>11, <3>1 DEF Shape
  <2>13. q.occured[n] = IF n \in DOMAIN r.occured THEN r.occured[n] + 1 ELSE 1
    BY <2>7, <2>11 DEF k
  <2>14. Last(q.values[n]) = StoredValue(r, n, val)
    BY <2>5, <2>6, <2>11 DEF new
  <2>15. /\ \A m \in DOMAIN r.values : m # n => q.values[m] = r.values[m]
         /\ \A m \in DOMAIN r.occured :
                m # n => m \in DOMAIN q.occured /\ q.occured[m] = r.occured[m]
         /\ n \in DOMAIN q.occured
    BY <1>3, <2>6, <2>7, <2>11
  <2> QED
    BY <2>11, <2>12, <2>13, <2>14, <2>15 DEF q
<1> QED
  BY <1>6, <1>7
-------------------------------------------------------------------------
(* The inductive invariant *)

(* The collection to which a value is added: if it has no value at its time*)
(* yet and must have it, with that time.                                   *)
OnDemand(r) ==
    IF r.addTimeOnDemand THEN [Extend(r) EXCEPT !.addTimeOnDemand = FALSE] ELSE r

(* The time that is appended on demand is the one of the collection.       *)
LEMMA OnDemandIs ==
    ASSUME setup \in Setups, NEW r, Shape(r), r.times \in Seq(0..LastTime),
           r.addTimeOnDemand => r.cTime \in 0..LastTime
    PROVE  LET x == OnDemand(r)
           IN  /\ Shape(x) /\ x.times \in Seq(0..LastTime)
               /\ x.cTime = r.cTime /\ x.addTimeOnDemand = FALSE
               /\ x.valid = r.valid /\ x.occured = r.occured /\ x.splitLevels = r.splitLevels
               /\ x.failed = r.failed /\ x.aligned = r.aligned
               /\ DOMAIN x.values = DOMAIN r.values
               /\ x.times = IF r.addTimeOnDemand THEN Append(r.times, r.cTime) ELSE r.times
               /\ ~r.addTimeOnDemand => x = r
               /\ r.addTimeOnDemand =>
                     /\ x.times # <<>> /\ Len(x.times) = Len(r.times) + 1
                     /\ LevelsLow(r) => LevelsLow(x)
<1>1. CASE ~r.addTimeOnDemand
  <2>1. OnDemand(r) = r /\ r.addTimeOnDemand = FALSE
    BY <1>1, Fields DEF OnDemand, Shape
  <2> QED
    BY <1>1, <2>1
<1>2. CASE r.addTimeOnDemand
  <2> DEFINE e == Extend(r)
             x == [e EXCEPT !.addTimeOnDemand = FALSE]
  <2>1. OnDemand(r) = x
    BY <1>2 DEF OnDemand
  <2>2. /\ Shape(e) /\ SameNames(r, e) /\ e.times = Append(r.times, r.cTime)
        /\ e.splitLevels = r.splitLevels /\ e.failed = r.failed /\ e.aligned = r.aligned
    BY ExtendLines
  <2>3. LevelsLow(r) => LevelsLow(e)
    BY ExtendLevels
  <2> HIDE DEF e
  <2>4. PICK known, had \in SUBSET setup.names : e \in Collection(known, had)
    BY <2>2 DEF Shape, IsCollection
  <2>5. /\ x \in Collection(known, had)
        /\ x.cTime = e.cTime /\ x.addTimeOnDemand = FALSE /\ x.valid = e.valid
        /\ x.occured = e.occured /\ x.times = e.times /\ x.values = e.values
        /\ x.splitLevels = e.splitLevels /\ x.failed = e.failed /\ x.aligned = e.aligned
    BY <2>4 DEF Collection
  <2> HIDE DEF x
  <2>6. Shape(x)
    <3>1. IsCollection(x)
      BY <2>5 DEF IsCollection
    <3> QED
      BY <2>2, <2>5, <3>1 DEF Shape
  <2>7. Levels(x) = Levels(e)
    BY <2>5 DEF Levels
  <2>8. /\ x.times \in Seq(0..LastTime) /\ Len(x.times) = Len(r.times) + 1
        /\ Len(x.times) # 0
    BY <1>2, <2>2, <2>5, AppendProperties
  <2>9. x.times # <<>>
    <3> SUFFICES ASSUME x.times = <<>>
                 PROVE  FALSE
      OBVIOUS
    <3>1. Len(<<>>) = 0
      OBVIOUS
    <3> QED
      BY <2>8, <3>1
  <2>10. LevelsLow(r) => LevelsLow(x)
    BY <2>3, <2>5, <2>7 DEF LevelsLow
  <2> QED
    BY <1>2, <2>1, <2>2, <2>5, <2>6, <2>8, <2>9, <2>10 DEF SameNames
<1> QED
  BY <1>1, <1>2

(* The values that came at the time of a collection: none for a name that  *)
(* is not valid.                                                           *)
GivenInv(r, g) ==
    \A n \in setup.names :
        /\ n \notin r.valid => g[n] = <<>>
        /\ Len(g[n]) <= setup.maxCalls
        /\ setup.special = "average" => \A k \in 1..setup.maxCalls : Total(g[n]) % k = 0

(* Both accumulations count, or none.                                      *)
CountAlike == setup.special = "count" <=> setup.accumulation = "count"

(* A name with a value at this time: occured is the number of its values,  *)
(* and its last point is what they amount to.                              *)
StoredInv(r, g) ==
    \A n \in r.valid :
        /\ n \in DOMAIN r.occured /\ g[n] # <<>> /\ r.times # <<>>
        /\ r.occured[n] = Len(g[n])
        /\ CountAlike => Last(r.values[n]) = Accumulated(setup.special, g[n])

(* The time of a collection is one that the log had, and the times of its  *)
(* points are not later than that. At the first time there are no points   *)
(* before there are values; without sparse times this is the only time that*)
(* is appended on demand.                                                  *)
ClockInv(r) ==
    /\ r.cTime \in {NoTime} \cup {t * Unit : t \in 1..time}
    /\ r.times \in Seq(0..LastTime)
    /\ r.addTimeOnDemand => r.cTime # NoTime
    /\ time = 0 => r.times = <<>>
    /\ ~setup.sparse /\ r.addTimeOnDemand => r.times = <<>>

(* The inductive invariant.                                                *)
IInv ==
    /\ setup \in Setups /\ time \in 0..setup.maxTime
    /\ DOMAIN lines = Collections
    /\ given \in [Collections -> [setup.names -> Seq(Int)]]
    /\ dropped \in [Collections -> BOOLEAN]
    /\ \A c \in Collections :
         /\ Shape(lines[c]) /\ ClockInv(lines[c]) /\ Room(lines[c])
         /\ GivenInv(lines[c], given[c])
         /\ ~dropped[c] => StoredInv(lines[c], given[c])
-------------------------------------------------------------------------
(* Every step keeps the inductive invariant *)

(* SumEmpty and SumAppend for Total.                                       *)
LEMMA TotalIs ==
    /\ Total(<<>>) = 0
    /\ \A s \in Seq(Int) : \A x \in Int : Total(s) \in Int /\ Total(Append(s, x)) = Total(s) + x
<1>1. Total(<<>>) = 0
  BY SumEmpty DEF Total
<1>2. ASSUME NEW s \in Seq(Int), NEW x \in Int
      PROVE  Total(s) \in Int /\ Total(Append(s, x)) = Total(s) + x
  BY SumAppend DEF Total
<1> QED
  BY <1>1, <1>2

(* The inductive invariant holds at the beginning ...                      *)
LEMMA InitInv == Init => IInv
<1> SUFFICES ASSUME Init
             PROVE  IInv
  OBVIOUS
<1>1. setup \in Setups /\ time = 0 /\ lines = [c \in Collections |-> NewCollection]
      /\ given = [c \in Collections |-> [n \in setup.names |-> <<>>]]
      /\ dropped = [c \in Collections |-> FALSE]
  BY DEF Init
<1>2. time \in 0..setup.maxTime
  BY <1>1, SetupIs
<1> DEFINE r == NewCollection
<1>3. /\ r.cTime = NoTime /\ r.addTimeOnDemand = FALSE /\ r.times = <<>> /\ r.values = <<>>
      /\ r.valid = {} /\ r.occured = <<>> /\ r.splitLevels = <<>> /\ r.failed = FALSE
  BY DEF NewCollection
<1>4. r \in Collection({}, {})
  BY DEF NewCollection, Collection, NoTime
<1> HIDE DEF r
<1>5. DOMAIN r.values = {} /\ DOMAIN r.occured = {} /\ Len(r.times) = 0 /\ Len(r.splitLevels) = 0
  BY <1>3
<1>6. Shape(r)
  <2>1. IsCollection(r)
    BY <1>4 DEF IsCollection
  <2> QED
    BY <1>5, <2>1 DEF Shape
<1>7. ClockInv(r)
  BY <1>3 DEF ClockInv
<1>8. Room(r)
  <2>1. Sorted(r.times) /\ LevelsLow(r)
    BY <1>5 DEF Sorted, LevelsLow
  <2>2. setup.thres \in Nat
    BY <1>1, SetupIs
  <2> QED
    BY <1>3, <1>5, <2>1, <2>2 DEF Room
<1>9. ASSUME NEW c \in Collections
      PROVE  GivenInv(lines[c], given[c]) /\ StoredInv(lines[c], given[c])
  <2>1. \A k \in 1..setup.maxCalls : 0 % k = 0
    BY <1>1, SetupIs
  <2>2. \A n \in setup.names : given[c][n] = <<>>
    BY <1>1
  <2>3. lines[c].valid = {}
    BY <1>1, <1>3 DEF r
  <2>4. setup.maxCalls \in Nat /\ Len(<<>>) = 0
    BY <1>1, SetupIs
  <2>5. Total(<<>>) = 0
    BY TotalIs
  <2>6. ASSUME NEW n \in setup.names
        PROVE  Len(given[c][n]) <= setup.maxCalls
    BY <2>2, <2>4
  <2>7. ASSUME NEW n \in setup.names, NEW k \in 1..setup.maxCalls
        PROVE  Total(given[c][n]) % k = 0
    BY <2>1, <2>2, <2>5
  <2> QED
    BY <2>2, <2>3, <2>6, <2>7 DEF GivenInv, StoredInv
<1>10. given \in [Collections -> [setup.names -> Seq(Int)]]
  BY <1>1
<1>11. DOMAIN lines = Collections /\ dropped \in [Collections -> BOOLEAN]
       /\ \A c \in Collections : lines[c] = r
  BY <1>1 DEF r
<1> QED
  BY <1>1, <1>2, <1>6, <1>7, <1>8, <1>9, <1>10, <1>11 DEF IInv

(* What a new time does to a collection: nothing, or it is told the time.  *)
LEMMA NewTimeLines ==
    ASSUME IInv, NewTime, NEW c \in Collections
    PROVE  /\ time \in Nat /\ time' = time + 1 /\ time' <= setup.maxTime /\ setup' = setup
           /\ time' * Unit \in 0..LastTime
           /\ lines[c].cTime # time' * Unit /\ lines[c].cTime <= time' * Unit
           /\ DOMAIN lines' = Collections
           /\ \/ lines'[c] = lines[c]
              \/ \E append \in BOOLEAN :
                    /\ IsTold(lines[c], lines'[c], time' * Unit, append)
                    /\ lines[c].valid # {} => append
                    /\ ~setup.sparse /\ time > 0 => append
<1> DEFINE t == time' * Unit
<1>1. /\ setup \in Setups /\ time \in Nat /\ time' = time + 1 /\ time' <= setup.maxTime
      /\ setup' = setup /\ lines' = SetTimes(lines, t)
      /\ setup.maxTime \in Nat /\ setup.names # {} /\ setup.sparse \in BOOLEAN
  <2>1. setup \in Setups /\ time \in 0..setup.maxTime
    BY DEF IInv
  <2>2. time < setup.maxTime /\ time' = time + 1 /\ setup' = setup /\ lines' = SetTimes(lines, t)
    BY DEF NewTime
  <2>3. setup.maxTime \in Nat /\ setup.names # {} /\ setup.sparse \in BOOLEAN
    BY <2>1, SetupIs
  <2> QED
    BY <2>1, <2>2, <2>3
<1>2. t \in 0..LastTime
  BY <1>1 DEF LastTime, Unit
<1>3. \A d \in Collections : lines[d].cTime # t /\ lines[d].cTime <= t
  <2> TAKE d \in Collections
  <2>1. lines[d].cTime \in {NoTime} \cup {i * Unit : i \in 1..time}
    BY DEF IInv, ClockInv
  <2>2. \A i \in 1..time : i * Unit < t
    BY <1>1 DEF Unit
  <2>3. NoTime < t
    BY <1>1 DEF Unit, NoTime
  <2>4. \A i \in 1..time : i * Unit \in Int
    BY <1>1 DEF Unit
  <2> QED
    BY <1>2, <2>1, <2>2, <2>3, <2>4 DEF NoTime
<1>4. DOMAIN lines = Collections
      /\ \A d \in Collections : Shape(lines[d]) /\ lines[d].times \in Seq(0..LastTime)
  BY DEF IInv, ClockInv
<1>5. ~setup.sparse /\ time > 0 => \A d \in ToSet(setup.order) : lines[d].valid # {}
  <2> SUFFICES ASSUME ~setup.sparse, time > 0, NEW d \in ToSet(setup.order)
               PROVE  lines[d].valid # {}
    OBVIOUS
  <2>1. PICK n : n \in setup.names
    BY <1>1
  <2>2. given[d][n] # <<>>
    BY <1>1, <2>1 DEF NewTime
  <2>3. d \in Collections
    BY <1>1, OrderIs, SetupIs DEF Collections
  <2>4. GivenInv(lines[d], given[d])
    BY <2>3 DEF IInv
  <2> QED
    BY <2>1, <2>2, <2>4 DEF GivenInv
<1>6. /\ DOMAIN SetTimes(lines, t) = Collections
      /\ \/ SetTimes(lines, t)[c] = lines[c]
         \/ /\ c \in ToSet(setup.order)
            /\ \E append \in BOOLEAN :
                  /\ IsTold(lines[c], SetTimes(lines, t)[c], t, append)
                  /\ lines[c].valid # {} => append
                  /\ (\A d \in ToSet(setup.order) : lines[d].valid # {}) => append
  <2> HIDE DEF t
  <2> QED
    BY <1>1, <1>2, <1>3, <1>4, SetTimesIs
<1> QED
  BY <1>1, <1>2, <1>3, <1>5, <1>6

(* ... after a new time (FoamLogAnalyzer.setTime) ...                      *)
LEMMA NewTimeInv == IInv /\ NewTime => IInv'
<1> SUFFICES ASSUME IInv, NewTime
             PROVE  IInv'
  OBVIOUS
<1>1. "master" \in Collections
  BY DEF Collections
<1>2. /\ time \in Nat /\ time' = time + 1 /\ time' <= setup.maxTime /\ setup' = setup
      /\ time' * Unit \in 0..LastTime /\ DOMAIN lines' = Collections
  BY <1>1, NewTimeLines
<1>3. /\ setup \in Setups /\ given \in [Collections -> [setup.names -> Seq(Int)]]
      /\ dropped \in [Collections -> BOOLEAN] /\ setup.maxCalls \in Nat
  BY SetupIs DEF IInv
<1>4. /\ given' = [c \in Collections |->
            IF Told(c) THEN [n \in setup.names |-> <<>>] ELSE given[c]]
      /\ dropped' = [c \in Collections |-> ~Told(c) /\ dropped[c]]
  BY DEF NewTime
<1>5. /\ given' \in [Collections -> [setup.names -> Seq(Int)]]
      /\ dropped' \in [Collections -> BOOLEAN]
  BY <1>3, <1>4
<1>6. ASSUME NEW c \in Collections
      PROVE  /\ Shape(lines'[c]) /\ Room(lines'[c])
             /\ GivenInv(lines'[c], given'[c])
             /\ ~dropped'[c] => StoredInv(lines'[c], given'[c])
             /\ lines'[c].cTime \in {NoTime} \cup {t * Unit : t \in 1..time'}
             /\ lines'[c].times \in Seq(0..LastTime)
             /\ lines'[c].addTimeOnDemand => lines'[c].cTime # NoTime
             /\ ~setup.sparse /\ lines'[c].addTimeOnDemand => lines'[c].times = <<>>
  <2>1. /\ Shape(lines[c]) /\ Room(lines[c]) /\ ClockInv(lines[c])
        /\ GivenInv(lines[c], given[c])
        /\ ~dropped[c] => StoredInv(lines[c], given[c])
    BY DEF IInv
  <2>2. lines[c].cTime # time' * Unit /\ lines[c].cTime <= time' * Unit
    BY NewTimeLines
  <2>3. CASE lines'[c] = lines[c]
    <3>1. given'[c] = given[c] /\ dropped'[c] = dropped[c]
      BY <1>3, <1>4, <2>2, <2>3 DEF Told
    <3>2. lines[c].cTime \in {NoTime} \cup {t * Unit : t \in 1..time'}
      <4>1. 1..time \subseteq 1..time'
        BY <1>2
      <4> QED
        BY <2>1, <4>1 DEF ClockInv
    <3> QED
      BY <2>1, <2>3, <3>1, <3>2 DEF ClockInv
  <2>4. CASE lines'[c] # lines[c]
    <3>1. PICK append \in BOOLEAN :
              /\ IsTold(lines[c], lines'[c], time' * Unit, append)
              /\ lines[c].valid # {} => append
              /\ ~setup.sparse /\ time > 0 => append
      BY <2>4, NewTimeLines
    <3> DEFINE q == lines'[c]
               r == lines[c]
    <3>2. /\ Shape(q) /\ q.times \in Seq(0..LastTime) /\ q.cTime = time' * Unit
          /\ (q.addTimeOnDemand => ~append) /\ q.valid = {}
          /\ ~append => Len(q.times) = Len(r.times)
          /\ Room(q)
      BY <2>1, <2>2, <3>1 DEF IsTold
    <3>3. given'[c] = [n \in setup.names |-> <<>>] /\ dropped'[c] = FALSE
      BY <1>3, <1>4, <3>2 DEF Told
    <3>4. GivenInv(q, given'[c])
      <4>1. \A n \in setup.names : given'[c][n] = <<>>
        BY <3>3
      <4>2. \A k \in 1..setup.maxCalls : 0 % k = 0
        BY <1>3
      <4>3. Total(<<>>) = 0 /\ Len(<<>>) = 0
        BY TotalIs
      <4>4. ASSUME NEW n \in setup.names
            PROVE  Len(given'[c][n]) <= setup.maxCalls
        BY <1>3, <4>1, <4>3
      <4>5. ASSUME NEW n \in setup.names, NEW k \in 1..setup.maxCalls
            PROVE  Total(given'[c][n]) % k = 0
        BY <4>1, <4>2, <4>3
      <4> QED
        BY <4>1, <4>4, <4>5 DEF GivenInv
    <3>5. StoredInv(q, given'[c])
      BY <3>2 DEF StoredInv
    <3>6. q.cTime \in {NoTime} \cup {t * Unit : t \in 1..time'} /\ q.cTime # NoTime
      <4>1. time' \in 1..time' /\ time' * Unit # NoTime
        BY <1>2 DEF Unit, NoTime
      <4> QED
        BY <3>2, <4>1
    <3>7. ~setup.sparse /\ q.addTimeOnDemand => q.times = <<>>
      <4> SUFFICES ASSUME ~setup.sparse, q.addTimeOnDemand
                   PROVE  q.times = <<>>
        OBVIOUS
      <4>1. time = 0 /\ Len(q.times) = Len(r.times)
        BY <1>2, <3>1, <3>2
      <4>2. r.times = <<>>
        BY <2>1, <4>1 DEF ClockInv
      <4>3. Len(q.times) = 0
        BY <4>1, <4>2
      <4> QED
        BY <3>2, <4>3, EmptySeq
    <3> QED
      BY <3>2, <3>4, <3>5, <3>6, <3>7
  <2> QED
    BY <2>3, <2>4
<1>7. ASSUME NEW c \in Collections
      PROVE  /\ Shape(lines[c])' /\ Room(lines[c])' /\ ClockInv(lines[c])'
             /\ GivenInv(lines[c], given[c])'
             /\ (~dropped[c] => StoredInv(lines[c], given[c]))'
  <2>1. Shape(lines[c])'
    BY <1>2, <1>6 DEF Shape, IsCollection
  <2>2. Room(lines[c])'
    BY <1>2, <1>6 DEF Room, LevelsLow, TooFew
  <2>3. ClockInv(lines[c])'
    BY <1>2, <1>6 DEF ClockInv, LastTime
  <2>4. GivenInv(lines[c], given[c])'
    BY <1>2, <1>6 DEF GivenInv
  <2>5. (~dropped[c] => StoredInv(lines[c], given[c]))'
    BY <1>2, <1>6 DEF StoredInv, CountAlike
  <2> QED
    BY <2>1, <2>2, <2>3, <2>4, <2>5
<1>8. setup' \in Setups /\ time' \in 0..setup'.maxTime
  BY <1>2, <1>3
<1> QED
  BY <1>2, <1>5, <1>7, <1>8 DEF IInv

(* The collection to which a value is added has room, or has reached the   *)
(* threshold by a time that was appended on demand.                        *)
LEMMA OnDemandRoom ==
    ASSUME setup \in Setups, NEW r, Shape(r), ClockInv(r), Room(r), time \in 0..setup.maxTime
    PROVE  LET x == OnDemand(r)
           IN  /\ Shape(x) /\ x.times \in Seq(0..LastTime)
               /\ x.cTime = r.cTime /\ x.addTimeOnDemand = FALSE
               /\ x.valid = r.valid /\ x.occured = r.occured
               /\ DOMAIN x.values = DOMAIN r.values
               /\ ~r.addTimeOnDemand => x = r
               /\ r.addTimeOnDemand => x.times # <<>>
               /\ x.aligned /\ ~TooFew =>
                     /\ ~x.failed /\ Sorted(x.times)
                     /\ x.times # <<>> => x.times[Len(x.times)] = x.cTime
                     /\ setup.thres > 0 =>
                           /\ LevelsLow(x)
                           /\ Len(x.times) <= setup.thres
                           /\ ~setup.sparse => Len(x.times) < setup.thres
<1> DEFINE x == OnDemand(r)
<1>1. setup.thres \in Nat /\ setup.maxTime \in Nat
      /\ (~TooFew /\ setup.thres > 0 => setup.thres >= 13)
  BY SetupIs
<1>2. /\ r.times \in Seq(Int) /\ Len(r.times) \in Nat /\ r.times \in Seq(0..LastTime)
      /\ r.cTime \in Int
  BY Fields DEF Shape, ClockInv
<1>3. r.addTimeOnDemand => r.cTime \in 0..LastTime
  <2> SUFFICES ASSUME r.addTimeOnDemand
               PROVE  r.cTime \in 0..LastTime
    OBVIOUS
  <2>1. PICK i \in 1..time : r.cTime = i * Unit
    BY DEF ClockInv
  <2> QED
    BY <1>1, <2>1 DEF Unit, LastTime
<1>4. /\ Shape(x) /\ x.times \in Seq(0..LastTime)
      /\ x.cTime = r.cTime /\ x.addTimeOnDemand = FALSE
      /\ x.valid = r.valid /\ x.occured = r.occured /\ x.splitLevels = r.splitLevels
      /\ x.failed = r.failed /\ x.aligned = r.aligned
      /\ DOMAIN x.values = DOMAIN r.values
      /\ x.times = IF r.addTimeOnDemand THEN Append(r.times, r.cTime) ELSE r.times
      /\ ~r.addTimeOnDemand => x = r
      /\ r.addTimeOnDemand =>
            /\ x.times # <<>> /\ Len(x.times) = Len(r.times) + 1
            /\ LevelsLow(r) => LevelsLow(x)
  BY <1>2, <1>3, OnDemandIs
<1> HIDE DEF x
<1>5. ASSUME x.aligned, ~TooFew
      PROVE  /\ ~x.failed /\ Sorted(x.times)
             /\ x.times # <<>> => x.times[Len(x.times)] = x.cTime
             /\ setup.thres > 0 =>
                   /\ LevelsLow(x)
                   /\ Len(x.times) <= setup.thres
                   /\ ~setup.sparse => Len(x.times) < setup.thres
  <2>1. /\ ~r.failed
        /\ Sorted(r.times) /\ (r.times # <<>> => r.times[Len(r.times)] = r.cTime)
        /\ setup.thres > 0 =>
              /\ LevelsLow(r)
              /\ Len(r.times) <= setup.thres
              /\ Len(r.times) = setup.thres => ~r.addTimeOnDemand
              /\ ~setup.sparse => Len(r.times) < setup.thres
    BY <1>4, <1>5 DEF Room
  <2>2. CASE ~r.addTimeOnDemand
    <3>1. x = r
      BY <1>4, <2>2
    <3> QED
      BY <2>1, <3>1
  <2>3. CASE r.addTimeOnDemand
    <3>1. x.times = Append(r.times, r.cTime)
      BY <1>4, <2>3
    <3>2. r.times # <<>> => r.times[Len(r.times)] <= r.cTime
      BY <1>2, <2>1
    <3>3. Sorted(x.times) /\ x.times[Len(x.times)] = x.cTime
      BY <1>2, <1>4, <2>1, <3>1, <3>2, SortedAppend
    <3>4. ~setup.sparse => Len(r.times) = 0
      BY <2>3 DEF ClockInv
    <3>5. setup.thres > 0 =>
             /\ LevelsLow(x) /\ Len(x.times) <= setup.thres
             /\ ~setup.sparse => Len(x.times) < setup.thres
      BY <1>1, <1>2, <1>4, <1>5, <2>1, <2>3, <3>4
    <3> QED
      BY <1>4, <2>1, <3>3, <3>5
  <2> QED
    BY <2>2, <2>3
<1> QED
  BY <1>4, <1>5 DEF x

(* What a value does to its collection.                                    *)
LEMMA SetValueLines ==
    ASSUME IInv, time > 0, NEW c \in Collections, NEW n \in setup.names,
           NEW v \in setup.data[time], SetValue(c, n, v)
    PROVE  \E val \in Int :
              /\ lines' = [lines EXCEPT ![c] = Store(OnDemand(lines[c]), n, val)]
              /\ ~(lines[c].addTimeOnDemand /\ DOMAIN lines[c].values # {}) => val = v
<1> DEFINE r == lines[c]
           x == OnDemand(r)
<1>1. setup \in Setups /\ Shape(r) /\ ClockInv(r) /\ Room(r) /\ time \in 0..setup.maxTime
  BY DEF IInv
<1>2. v \in Int
  <2>1. setup.data \in [1..setup.maxTime -> SUBSET Int] /\ setup.maxTime \in Nat
    BY <1>1, SetupIs
  <2>2. time \in 1..setup.maxTime
    BY <1>1, <2>1
  <2> QED
    BY <2>1, <2>2
<1>3. /\ Shape(x) /\ DOMAIN x.values = DOMAIN r.values
      /\ r.addTimeOnDemand => x.times # <<>>
  BY <1>1, OnDemandRoom
<1>4. PICK val \in ValueUsed(r, x, v) : lines' = [lines EXCEPT ![c] = Store(x, n, val)]
  BY DEF SetValue, OnDemand
<1> HIDE DEF x, r
<1>5. CASE r.addTimeOnDemand /\ DOMAIN r.values # {}
  <2>1. PICK m \in DOMAIN r.values : val = Last(x.values[m])
    BY <1>4, <1>5 DEF ValueUsed
  <2>2. /\ x.values[m] \in Seq(Int) /\ Len(x.values[m]) = Len(x.times)
        /\ x.times \in Seq(Int) /\ x.times # <<>>
    BY <1>3, <1>5, <2>1, Fields DEF Shape
  <2>3. Len(x.values[m]) \in 1..Len(x.values[m])
    BY <2>2, EmptySeq
  <2>4. val \in Int
    BY <2>1, <2>2, <2>3, ElementOfSeq DEF Last
  <2> QED
    BY <1>4, <1>5, <2>4 DEF r, x
<1>6. CASE ~(r.addTimeOnDemand /\ DOMAIN r.values # {})
  <2>1. val = v
    BY <1>4, <1>6 DEF ValueUsed
  <2> QED
    BY <1>2, <1>4, <1>6, <2>1 DEF r, x
<1> QED
  BY <1>5, <1>6

(* ... and after a value (setValue).                                       *)
LEMMA SetValueInv ==
    ASSUME IInv, time > 0, NEW c \in Collections, NEW n \in setup.names,
           NEW v \in setup.data[time], SetValue(c, n, v)
    PROVE  IInv'
<1> DEFINE r == lines[c]
           x == OnDemand(r)
           g == given[c]
<1>1. /\ setup \in Setups /\ time \in 0..setup.maxTime /\ DOMAIN lines = Collections
      /\ given \in [Collections -> [setup.names -> Seq(Int)]]
      /\ dropped \in [Collections -> BOOLEAN]
      /\ Shape(r) /\ ClockInv(r) /\ Room(r) /\ GivenInv(r, g)
      /\ ~dropped[c] => StoredInv(r, g)
  BY DEF IInv
<1>2. /\ setup.data \in [1..setup.maxTime -> SUBSET Int] /\ setup.maxTime \in Nat
      /\ setup.maxCalls \in Nat /\ setup.special \in Kinds /\ setup.thres \in Nat
      /\ setup.special = "average" =>
            \A t \in 1..setup.maxTime : \A y \in setup.data[t] :
                \A k \in 1..setup.maxCalls : y % k = 0
  BY <1>1, SetupIs
<1>3. time \in 1..setup.maxTime /\ v \in Int
      /\ (setup.special = "average" => \A k \in 1..setup.maxCalls : v % k = 0)
  <2>1. time \in 1..setup.maxTime
    BY <1>1, <1>2
  <2> QED
    BY <1>2, <2>1
<1>4. /\ setup' = setup /\ time' = time
      /\ given' = [given EXCEPT ![c][n] = Append(@, v)]
      /\ dropped' = [dropped EXCEPT ![c] =
             @ \/ (r.addTimeOnDemand /\ DOMAIN r.values # {}) \/ x.times = <<>>]
      /\ Len(g[n]) < setup.maxCalls
  BY DEF SetValue, OnDemand
<1>5. PICK val \in Int :
         /\ lines' = [lines EXCEPT ![c] = Store(x, n, val)]
         /\ ~(r.addTimeOnDemand /\ DOMAIN r.values # {}) => val = v
  BY SetValueLines
<1>6. /\ Shape(x) /\ x.times \in Seq(0..LastTime)
      /\ x.cTime = r.cTime /\ x.addTimeOnDemand = FALSE
      /\ x.valid = r.valid /\ x.occured = r.occured
      /\ DOMAIN x.values = DOMAIN r.values
      /\ ~r.addTimeOnDemand => x = r
      /\ r.addTimeOnDemand => x.times # <<>>
      /\ x.aligned /\ ~TooFew =>
            /\ ~x.failed /\ Sorted(x.times)
            /\ x.times # <<>> => x.times[Len(x.times)] = x.cTime
            /\ setup.thres > 0 =>
                  /\ LevelsLow(x)
                  /\ Len(x.times) <= setup.thres
                  /\ ~setup.sparse => Len(x.times) < setup.thres
  BY <1>1, OnDemandRoom
<1> DEFINE q == Store(x, n, val)
<1> HIDE DEF x
<1>7. /\ Shape(q)
      /\ q.cTime = x.cTime /\ q.addTimeOnDemand = x.addTimeOnDemand
      /\ q.times = x.times /\ q.splitLevels = x.splitLevels
      /\ q.failed = x.failed /\ q.aligned = x.aligned
      /\ q.valid = x.valid \cup {n}
      /\ \A m \in DOMAIN x.values : m # n => q.values[m] = x.values[m]
      /\ \A m \in DOMAIN x.occured :
            m # n => m \in DOMAIN q.occured /\ q.occured[m] = x.occured[m]
      /\ x.times # <<>> =>
            /\ n \in DOMAIN q.occured
            /\ q.occured[n] = IF n \in DOMAIN x.occured THEN x.occured[n] + 1 ELSE 1
            /\ Last(q.values[n]) = StoredValue(x, n, val)
  <2>1. setup \in Setups /\ Shape(x) /\ n \in setup.names /\ val \in Int
    BY <1>1, <1>6
  <2> QED
    BY <2>1, StoreIs, SMTT(60)
<1> HIDE DEF q
<1>8. /\ lines'[c] = q /\ DOMAIN lines' = Collections
      /\ \A d \in Collections : d # c => lines'[d] = lines[d]
  BY <1>1, <1>5 DEF q
<1>9. /\ g \in [setup.names -> Seq(Int)] /\ g[n] \in Seq(Int)
      /\ given'[c] = [g EXCEPT ![n] = Append(g[n], v)]
      /\ \A d \in Collections : d # c => given'[d] = given[d] /\ dropped'[d] = dropped[d]
      /\ dropped'[c] = (dropped[c] \/ (r.addTimeOnDemand /\ DOMAIN r.values # {}) \/ x.times = <<>>)
      /\ given' \in [Collections -> [setup.names -> Seq(Int)]]
      /\ dropped' \in [Collections -> BOOLEAN]
  BY <1>1, <1>3, <1>4
<1> DEFINE h == given'[c]
<1>10. h[n] = Append(g[n], v) /\ \A m \in setup.names : m # n => h[m] = g[m]
  BY <1>9
<1> HIDE DEF h, g, r
<1>11. Room(q)
  <2>1. q.aligned = x.aligned /\ q.valid # {}
    BY <1>7
  <2>2. Levels(q) = Levels(x)
    BY <1>7 DEF Levels
  <2>3. LevelsLow(x) => LevelsLow(q)
    BY <1>7, <2>2 DEF LevelsLow
  <2> QED
    BY <1>6, <1>7, <2>1, <2>3 DEF Room
<1>12. GivenInv(q, h)
  <2>1. ASSUME NEW m \in setup.names
        PROVE  m \notin q.valid => h[m] = <<>>
    BY <1>1, <1>6, <1>7, <1>10 DEF GivenInv
  <2>2. ASSUME NEW m \in setup.names
        PROVE  Len(h[m]) <= setup.maxCalls
    <3>1. CASE m = n
      <4>1. Len(h[n]) = Len(g[n]) + 1 /\ Len(g[n]) \in Nat
        BY <1>9, <1>10
      <4> QED
        BY <1>2, <1>4, <3>1, <4>1
    <3>2. CASE m # n
      BY <1>1, <1>10, <3>2 DEF GivenInv
    <3> QED
      BY <3>1, <3>2
  <2>3. ASSUME setup.special = "average", NEW m \in setup.names, NEW k \in 1..setup.maxCalls
        PROVE  Total(h[m]) % k = 0
    <3>1. CASE m = n
      <4>1. Total(g[n]) \in Int /\ Total(h[n]) = Total(g[n]) + v
        BY <1>3, <1>9, <1>10, TotalIs
      <4>2. Total(g[n]) % k = 0 /\ v % k = 0
        BY <1>1, <1>3, <2>3 DEF GivenInv
      <4>3. k \in Nat /\ k > 0
        BY <1>2
      <4> QED
        BY <1>3, <3>1, <4>1, <4>2, <4>3, MultipleSum
    <3>2. CASE m # n
      BY <1>1, <1>10, <2>3, <3>2 DEF GivenInv
    <3> QED
      BY <3>1, <3>2
  <2> QED
    BY <2>1, <2>2, <2>3 DEF GivenInv
<1>13. ~dropped'[c] => StoredInv(q, h)
  <2> SUFFICES ASSUME ~dropped'[c]
               PROVE  StoredInv(q, h)
    OBVIOUS
  <2>1. /\ ~dropped[c] /\ ~(r.addTimeOnDemand /\ DOMAIN r.values # {}) /\ x.times # <<>>
        /\ val = v
    BY <1>5, <1>9
  <2>2. \A m \in r.valid : /\ m \in DOMAIN r.occured /\ g[m] # <<>> /\ r.times # <<>>
                           /\ r.occured[m] = Len(g[m])
                           /\ CountAlike => Last(r.values[m]) = Accumulated(setup.special, g[m])
    BY <1>1, <2>1 DEF StoredInv
  <2>3. r.valid \subseteq DOMAIN r.values /\ DOMAIN r.occured \subseteq r.valid
        /\ r.valid \subseteq setup.names
    BY <1>1, Fields DEF Shape
  <2>4. r.valid # {} => x = r
    BY <1>6, <2>1, <2>3
  <2>5. h[n] # <<>> /\ Len(h[n]) = Len(g[n]) + 1 /\ Len(g[n]) \in Nat
    <3>1. Len(h[n]) = Len(g[n]) + 1 /\ Len(g[n]) \in Nat /\ h[n] \in Seq(Int)
      BY <1>3, <1>9, <1>10, AppendProperties
    <3>2. Len(<<>>) = 0
      OBVIOUS
    <3> QED
      BY <3>1, <3>2
  <2>6. ASSUME NEW m \in q.valid, m # n
        PROVE  /\ m \in DOMAIN q.occured /\ h[m] # <<>> /\ q.times # <<>>
               /\ q.occured[m] = Len(h[m])
               /\ CountAlike => Last(q.values[m]) = Accumulated(setup.special, h[m])
    <3>1. m \in r.valid /\ x = r /\ m \in setup.names
      BY <1>6, <1>7, <2>3, <2>4, <2>6
    <3>2. h[m] = g[m]
      BY <1>10, <2>6, <3>1
    <3> QED
      BY <1>7, <2>1, <2>2, <2>3, <2>6, <3>1, <3>2
  <2>7. /\ n \in DOMAIN q.occured /\ h[n] # <<>> /\ q.times # <<>>
        /\ q.occured[n] = Len(h[n])
        /\ CountAlike => Last(q.values[n]) = Accumulated(setup.special, h[n])
    <3>1. /\ n \in DOMAIN q.occured /\ q.times # <<>>
          /\ q.occured[n] = IF n \in DOMAIN r.occured THEN r.occured[n] + 1 ELSE 1
          /\ Last(q.values[n]) = StoredValue(x, n, v)
      BY <1>6, <1>7, <2>1
    <3>2. CASE n \in DOMAIN r.occured
      <4>1. x = r /\ n \in r.valid /\ n \in DOMAIN r.values
        BY <2>3, <2>4, <3>2
      <4>2. /\ r.occured[n] = Len(g[n]) /\ g[n] # <<>>
            /\ CountAlike => Last(r.values[n]) = Accumulated(setup.special, g[n])
        BY <2>2, <4>1
      <4>3. StoredValue(x, n, v) = Accumulate(setup.special, Last(r.values[n]), v, Len(g[n]))
        BY <3>2, <4>1, <4>2 DEF StoredValue, GetValues
      <4>4. setup.special = "average" => Total(g[n]) % Len(g[n]) = 0
        <5> SUFFICES ASSUME setup.special = "average"
                     PROVE  Total(g[n]) % Len(g[n]) = 0
          OBVIOUS
        <5>1. Len(g[n]) \in 1..setup.maxCalls
          BY <1>2, <1>4, <1>9, <4>2, EmptySeq
        <5> QED
          BY <1>1, <5>1 DEF GivenInv
      <4>5. CountAlike => StoredValue(x, n, v) = Accumulated(setup.special, h[n])
        <5> SUFFICES ASSUME CountAlike
                     PROVE  StoredValue(x, n, v) = Accumulated(setup.special, h[n])
          OBVIOUS
        <5>1. Last(r.values[n]) = Accumulated(setup.special, g[n])
          BY <4>2
        <5> QED
          BY <1>2, <1>3, <1>9, <1>10, <4>2, <4>3, <4>4, <5>1, AccumulateAll
      <4> QED
        BY <2>5, <3>1, <3>2, <4>2, <4>5
    <3>3. CASE n \notin DOMAIN r.occured
      <4>1. n \notin r.valid
        BY <2>2, <3>3
      <4>2. g[n] = <<>>
        BY <1>1, <4>1 DEF GivenInv
      <4>3. Len(h[n]) = 1 /\ h[n] = Append(<<>>, v)
        BY <1>10, <2>5, <4>2
      <4>4. StoredValue(x, n, v) = IF setup.accumulation = "count" THEN 1 ELSE v
        BY <1>6, <3>3 DEF StoredValue
      <4>5. Accumulated(setup.special, h[n]) = IF setup.special = "count" THEN 1 ELSE v
        BY <1>2, <1>3, <4>3, AccumulatedOne
      <4> QED
        BY <2>5, <3>1, <3>3, <4>3, <4>4, <4>5 DEF CountAlike
    <3> QED
      BY <3>2, <3>3
  <2> QED
    BY <2>6, <2>7 DEF StoredInv
<1>14. /\ q.cTime \in {NoTime} \cup {t * Unit : t \in 1..time}
       /\ q.times \in Seq(0..LastTime) /\ ~q.addTimeOnDemand
  BY <1>1, <1>6, <1>7 DEF ClockInv
<1>15. ASSUME NEW d \in Collections
       PROVE  /\ Shape(lines'[d]) /\ Room(lines'[d])
              /\ GivenInv(lines'[d], given'[d])
              /\ ~dropped'[d] => StoredInv(lines'[d], given'[d])
              /\ lines'[d].cTime \in {NoTime} \cup {t * Unit : t \in 1..time}
              /\ lines'[d].times \in Seq(0..LastTime)
              /\ lines'[d].addTimeOnDemand => lines'[d].cTime # NoTime
              /\ ~setup.sparse /\ lines'[d].addTimeOnDemand => lines'[d].times = <<>>
  <2>1. CASE d = c
    BY <1>7, <1>8, <1>11, <1>12, <1>13, <1>14, <2>1 DEF h
  <2>2. CASE d # c
    <3>1. /\ Shape(lines[d]) /\ Room(lines[d]) /\ ClockInv(lines[d])
          /\ GivenInv(lines[d], given[d])
          /\ ~dropped[d] => StoredInv(lines[d], given[d])
      BY DEF IInv
    <3>2. lines'[d] = lines[d] /\ given'[d] = given[d] /\ dropped'[d] = dropped[d]
      BY <1>8, <1>9, <2>2
    <3> QED
      BY <3>1, <3>2 DEF ClockInv
  <2> QED
    BY <2>1, <2>2
<1>16. ASSUME NEW d \in Collections
      PROVE  /\ Shape(lines[d])' /\ Room(lines[d])' /\ ClockInv(lines[d])'
             /\ GivenInv(lines[d], given[d])'
             /\ (~dropped[d] => StoredInv(lines[d], given[d]))'
  <2>1. Shape(lines[d])'
    BY <1>4, <1>15 DEF Shape, IsCollection
  <2>2. Room(lines[d])'
    BY <1>4, <1>15 DEF Room, LevelsLow, TooFew
  <2>3. ClockInv(lines[d])'
    BY <1>3, <1>4, <1>15 DEF ClockInv, LastTime
  <2>4. GivenInv(lines[d], given[d])'
    BY <1>4, <1>15 DEF GivenInv
  <2>5. (~dropped[d] => StoredInv(lines[d], given[d]))'
    BY <1>4, <1>15 DEF StoredInv, CountAlike
  <2> QED
    BY <2>1, <2>2, <2>3, <2>4, <2>5
<1> QED
  BY <1>1, <1>4, <1>8, <1>9, <1>16 DEF IInv

(* Every step keeps the inductive invariant.                               *)
LEMMA NextInv == IInv /\ [Next]_vars => IInv'
<1> SUFFICES ASSUME IInv, [Next]_vars
             PROVE  IInv'
  OBVIOUS
<1>1. CASE NewTime
  BY <1>1, NewTimeInv
<1>2. ASSUME time > 0, NEW c \in ToSet(setup.order), NEW n \in setup.names,
             NEW v \in setup.data[time], SetValue(c, n, v)
      PROVE  IInv'
  <2>1. c \in Collections
    BY OrderIs, SetupIs DEF IInv, Collections
  <2> QED
    BY <1>2, <2>1, SetValueInv
<1>3. CASE UNCHANGED vars
  <2>1. /\ setup' = setup /\ time' = time /\ lines' = lines /\ given' = given /\ dropped' = dropped
    BY <1>3 DEF vars
  <2>2. ASSUME NEW c \in Collections
        PROVE  /\ Shape(lines[c])' /\ Room(lines[c])' /\ ClockInv(lines[c])'
               /\ GivenInv(lines[c], given[c])'
               /\ (~dropped[c] => StoredInv(lines[c], given[c]))'
    <3>1. /\ Shape(lines[c]) /\ Room(lines[c]) /\ ClockInv(lines[c])
          /\ GivenInv(lines[c], given[c])
          /\ ~dropped[c] => StoredInv(lines[c], given[c])
      BY DEF IInv
    <3>2. Shape(lines[c])'
      BY <2>1, <3>1 DEF Shape, IsCollection
    <3>3. Room(lines[c])'
      BY <2>1, <3>1 DEF Room, LevelsLow, TooFew
    <3>4. ClockInv(lines[c])'
      BY <2>1, <3>1 DEF ClockInv, LastTime
    <3>5. GivenInv(lines[c], given[c])'
      BY <2>1, <3>1 DEF GivenInv
    <3>6. (~dropped[c] => StoredInv(lines[c], given[c]))'
      BY <2>1, <3>1 DEF StoredInv, CountAlike
    <3> QED
      BY <3>2, <3>3, <3>4, <3>5, <3>6
  <2> QED
    BY <2>1, <2>2 DEF IInv
<1> QED
  BY <1>1, <1>2, <1>3 DEF Next
-------------------------------------------------------------------------
(* The theorems about the time lines *)

(* The inductive invariant holds in every state, for any names, values,    *)
(* times, kinds of accumulation, orders of the analyzers and thresholds.   *)
THEOREM SpecIInv == Spec => []IInv
<1> QED
  BY InitInv, NextInv, PTL DEF Spec

(* TypeOK: types, and a value of every line for each time (self.values and *)
(* self.cTimes of TimeLineCollection, which a plot draws over each other). *)
THEOREM SpecTypeOK == Spec => []TypeOK
<1>1. ASSUME IInv
      PROVE  TypeOK
  <2>1. /\ setup \in Setups /\ time \in 0..setup.maxTime /\ DOMAIN lines = Collections
        /\ given \in [Collections -> [setup.names -> Seq(Int)]]
        /\ dropped \in [Collections -> BOOLEAN]
    BY <1>1 DEF IInv
  <2>2. ASSUME NEW c \in Collections
        PROVE  /\ \E known, had \in SUBSET setup.names : lines[c] \in Collection(known, had)
               /\ lines[c].cTime \in {NoTime} \cup {t * Unit : t \in 1..setup.maxTime}
               /\ lines[c].times \in Seq(0..(setup.maxTime * Unit))
               /\ DOMAIN lines[c].occured \subseteq lines[c].valid
               /\ \A n \in DOMAIN lines[c].values :
                      Len(lines[c].values[n]) = Len(lines[c].times)
    <3>1. Shape(lines[c]) /\ ClockInv(lines[c])
      BY <1>1 DEF IInv
    <3>2. 1..time \subseteq 1..setup.maxTime
      BY <2>1, SetupIs
    <3>3. lines[c].cTime \in {NoTime} \cup {t * Unit : t \in 1..setup.maxTime}
      BY <3>1, <3>2 DEF ClockInv
    <3> QED
      BY <3>1, <3>3 DEF Shape, IsCollection, ClockInv, LastTime
  <2> QED
    BY <2>1, <2>2 DEF TypeOK, SameLength
<1> QED
  BY <1>1, SpecIInv, PTL

(* ValuesAreStored: the last value of a line is what the values of this    *)
(* time amount to (setValue after setTime, of masters and slaves), unless  *)
(* the time before was dropped because it had none, or collection and name *)
(* differ in whether they count.                                           *)
THEOREM SpecValuesAreStored == Spec => []ValuesAreStored
<1>1. ASSUME IInv
      PROVE  ValuesAreStored
  <2> SUFFICES ASSUME CountAlike, NEW c \in Collections, ~dropped[c], NEW n \in lines[c].valid
               PROVE  /\ lines[c].values[n] # <<>>
                      /\ Last(lines[c].values[n]) = Accumulated(setup.special, given[c][n])
    BY DEF ValuesAreStored, Stored, CountAlike
  <2>1. Shape(lines[c]) /\ StoredInv(lines[c], given[c])
    BY <1>1 DEF IInv
  <2>2. /\ n \in DOMAIN lines[c].values /\ lines[c].values[n] \in Seq(Int)
        /\ Len(lines[c].values[n]) = Len(lines[c].times) /\ lines[c].times \in Seq(Int)
    BY <2>1, Fields DEF Shape
  <2>3. lines[c].times # <<>>
    BY <2>1 DEF StoredInv
  <2>4. lines[c].values[n] # <<>>
    <3>1. Len(lines[c].times) # 0
      BY <2>2, <2>3, EmptySeq
    <3>2. Len(<<>>) = 0
      OBVIOUS
    <3> QED
      BY <2>2, <3>1, <3>2
  <2> QED
    BY <2>1, <2>4 DEF StoredInv
<1> QED
  BY <1>1, SpecIInv, PTL

(* TimesAscend: the times ascend to the current one although older ones are*)
(* condensed (split), as long as all splits began at a multiple of window  *)
(* and if the threshold is above 12.                                       *)
THEOREM SpecTimesAscend == Spec => []TimesAscend
<1>1. ASSUME IInv
      PROVE  TimesAscend
  <2> SUFFICES ASSUME NEW c \in Collections, lines[c].aligned, ~TooFew
               PROVE  /\ Ascending(lines[c].times)
                      /\ lines[c].times # <<>> => Last(lines[c].times) = lines[c].cTime
    BY DEF TimesAscend
  <2> DEFINE s == lines[c].times
  <2>1. Shape(lines[c]) /\ Room(lines[c])
    BY <1>1 DEF IInv
  <2>2. Sorted(s) /\ (s # <<>> => s[Len(s)] = lines[c].cTime)
    BY <2>1 DEF Room
  <2>3. s \in Seq(Int) /\ Len(s) \in Nat
    BY <2>1, Fields DEF Shape
  <2>4. Ascending(s)
    <3> HIDE DEF s
    <3>1. ASSUME NEW i \in 1..(Len(s) - 1)
          PROVE  s[i] <= s[i + 1]
      <4>1. i \in 1..Len(s) /\ i + 1 \in 1..Len(s) /\ i <= i + 1
        BY <2>3
      <4> QED
        BY <2>2, <4>1 DEF Sorted
    <3> QED
      BY <3>1 DEF Ascending
  <2> QED
    BY <2>2, <2>4 DEF Last
<1> QED
  BY <1>1, SpecIInv, PTL

(* PointsBounded: under the same conditions the number of points stays     *)
(* below the threshold, and no split raises and leaves transmissionLock    *)
(* locked.                                                                 *)
THEOREM SpecPointsBounded == Spec => []PointsBounded
<1>1. IInv => PointsBounded
  BY DEF IInv, PointsBounded, Room
<1> QED
  BY <1>1, SpecIInv, PTL

(* Values that are covered have no extreme beyond the extremes of others.  *)
LEMMA ExtremesCovered ==
    ASSUME NEW s \in Seq(Int), s # <<>>, NEW t \in Seq(Int),
           \A k \in 1..Len(s) : Covered(s[k], t)
    PROVE  Max(ToSet(s)) <= Max(ToSet(t)) /\ Min(ToSet(s)) >= Min(ToSet(t))
<1>1. Len(s) \in Nat /\ Len(s) > 0 /\ DOMAIN t = 1..Len(t)
  BY EmptySeq
<1>2. t # <<>>
  <2>1. 1 \in 1..Len(s)
    BY <1>1
  <2>2. \E i \in DOMAIN t : TRUE
    BY <2>1 DEF Covered
  <2>3. DOMAIN <<>> = {}
    OBVIOUS
  <2> QED
    BY <2>2, <2>3
<1> DEFINE a == Max(ToSet(s))
           b == Min(ToSet(s))
           p == Max(ToSet(t))
           q == Min(ToSet(t))
<1>3. /\ ToSet(s) = {s[i] : i \in 1..Len(s)} /\ a \in ToSet(s) /\ b \in ToSet(s)
      /\ ToSet(s) \in SUBSET Int
  BY RangeIs, LeastAndGreatest
<1>4. /\ \A i \in 1..Len(t) : q <= t[i] /\ p >= t[i] /\ t[i] \in Int
      /\ p \in Int /\ q \in Int
  <2>1. /\ p \in ToSet(t) /\ q \in ToSet(t)
        /\ \A i \in 1..Len(t) : q <= t[i] /\ p >= t[i]
    BY <1>2, LeastAndGreatest
  <2>2. ToSet(t) \in SUBSET Int
    BY <1>2, RangeIs
  <2>3. \A i \in 1..Len(t) : t[i] \in Int
    BY ElementOfSeq
  <2> QED
    BY <2>1, <2>2, <2>3
<1> HIDE DEF a, b, p, q
<1>5. PICK i, j \in 1..Len(s) : a = s[i] /\ b = s[j]
  BY <1>3
<1>6. PICK k \in 1..Len(t) : a <= t[k]
  BY <1>1, <1>5 DEF Covered
<1>7. PICK l \in 1..Len(t) : t[l] <= b
  BY <1>1, <1>5 DEF Covered
<1>8. a \in Int /\ b \in Int
  BY <1>3
<1>9. a <= p
  BY <1>4, <1>6, <1>8
<1>10. b >= q
  BY <1>4, <1>7, <1>8
<1> QED
  BY <1>9, <1>10 DEF a, b, p, q

(* The step of ExtremesKept.                                               *)
Kept ==
    \A c \in Collections : \A n \in DOMAIN lines[c].values :
         time' > time /\ lines[c].values[n] # <<>> =>
           /\ Max(ToSet(lines[c].values[n])) <= Max(ToSet(lines'[c].values[n]))
           /\ Min(ToSet(lines[c].values[n])) >= Min(ToSet(lines'[c].values[n]))

(* ExtremesKept: no step to a new time loses the maximum or the minimum of *)
(* a line ("the maximum and the minimum of a data-window are preserved").  *)
THEOREM SpecExtremesKept == Spec => ExtremesKept
<1>1. ASSUME IInv, [Next]_vars
      PROVE  Kept
  <2> SUFFICES ASSUME NEW c \in Collections, NEW n \in DOMAIN lines[c].values,
                      time' > time, lines[c].values[n] # <<>>
               PROVE  /\ Max(ToSet(lines[c].values[n])) <= Max(ToSet(lines'[c].values[n]))
                      /\ Min(ToSet(lines[c].values[n])) >= Min(ToSet(lines'[c].values[n]))
    BY DEF Kept
  <2> DEFINE s == lines[c].values[n]
             t == lines'[c].values[n]
  <2>1. NewTime
    <3>1. time \in Nat
      BY <1>1, SetupIs DEF IInv
    <3>2. time' # time
      BY <3>1
    <3>3. ASSUME NEW d, NEW m, NEW v, SetValue(d, m, v)
          PROVE  FALSE
      BY <3>2, <3>3 DEF SetValue
    <3> QED
      BY <1>1, <3>2, <3>3 DEF Next, vars
  <2>2. Shape(lines[c])
    BY <1>1 DEF IInv
  <2>3. s \in Seq(Int)
    BY <2>2, Fields DEF Shape
  <2>4. t \in Seq(Int) /\ \A k \in 1..Len(s) : Covered(s[k], t)
    <3>1. CASE lines'[c] = lines[c]
      <4>1. t = s
        BY <3>1
      <4> HIDE DEF s, t
      <4> QED
        BY <2>3, <4>1, CoveredBy
    <3>2. CASE lines'[c] # lines[c]
      <4>1. PICK append \in BOOLEAN : IsTold(lines[c], lines'[c], time' * Unit, append)
        BY <1>1, <2>1, <3>2, NewTimeLines
      <4>2. Shape(lines'[c]) /\ n \in DOMAIN lines'[c].values
            /\ \A k \in 1..Len(s) : Covered(s[k], t)
        BY <4>1 DEF IsTold
      <4>3. t \in Seq(Int)
        BY <4>2, Fields DEF Shape
      <4> QED
        BY <4>2, <4>3
    <3> QED
      BY <3>1, <3>2
  <2>5. s # <<>>
    OBVIOUS
  <2> HIDE DEF s, t
  <2>6. Max(ToSet(s)) <= Max(ToSet(t)) /\ Min(ToSet(s)) >= Min(ToSet(t))
    BY <2>3, <2>4, <2>5, ExtremesCovered
  <2> QED
    BY <2>6 DEF s, t
<1>2. IInv /\ [Next]_vars => [Kept]_vars
  BY <1>1
<1>3. [][Kept]_vars => ExtremesKept
  BY PTL DEF ExtremesKept, Kept
<1> QED
  BY <1>2, <1>3, SpecIInv, PTL DEF Spec
-------------------------------------------------------------------------
(* The logs that are watched *)

(* The time at which the mesh of a log was created.                        *)
Mesh(f) == watched.logs[f].mesh

(* The log that is written.                                                *)
LastLog == watched.growing

(* The case that is watched, from LoggedAssumption.                        *)
LEMMA WatchedIs ==
    ASSUME watched \in Logged
    PROVE  /\ Lines \in Nat /\ Logs = 1..Len(watched.logs)
           /\ Len(watched.logs) \in Nat /\ Len(watched.logs) > 0
           /\ LastLog \in Logs /\ watched.written \in 0..Len(LinesOf(LastLog))
           /\ watched.tail \in Nat
           /\ \A f \in Logs :
                 /\ Mesh(f) \in Nat \cup {None}
                 /\ LinesOf(f) \in Seq(LineType)
                 /\ Len(LinesOf(f)) \in 0..Lines
                 /\ DOMAIN LinesOf(f) = 1..Len(LinesOf(f))
                 /\ \A n \in 1..Len(LinesOf(f)) :
                       /\ LinesOf(f)[n].time \in Nat \cup {None}
                       /\ LinesOf(f)[n].time # None => LinesOf(f)[n].time > Mesh(f)
                       /\ LinesOf(f)[n].bytes \in Nat \ {0}
                       /\ LinesOf(f)[n].chars \in Nat \ {0}
           /\ \A f \in Logs \ {LastLog} :
                 /\ Len(LinesOf(f)) > 0 /\ Mesh(f) \in Nat
                 /\ Mesh(f) < Mesh(LastLog) \/ (Mesh(f) = Mesh(LastLog) /\ f < LastLog)
<1> DEFINE R == [mesh : Nat \cup {None}, lines : Seq(LineType)]
<1>1. /\ watched.logs \in Seq(R) /\ watched.logs # <<>>
      /\ \A f \in DOMAIN watched.logs : Len(watched.logs[f].lines) <= Lines
      /\ watched.growing \in DOMAIN watched.logs
      /\ watched.written \in 0..Len(watched.logs[watched.growing].lines)
      /\ watched.tail \in Nat /\ Lines \in Nat
      /\ \A f \in DOMAIN watched.logs : \A n \in DOMAIN watched.logs[f].lines :
            watched.logs[f].lines[n].time # None
              => watched.logs[f].lines[n].time > watched.logs[f].mesh
  BY LoggedAssumption
<1>2. \A f \in DOMAIN watched.logs \ {watched.growing} :
         /\ watched.logs[f].lines # <<>> /\ watched.logs[f].mesh # None
         /\ \/ watched.logs[f].mesh < watched.logs[watched.growing].mesh
            \/ watched.logs[f].mesh = watched.logs[watched.growing].mesh /\ f < watched.growing
  BY LoggedAssumption
<1>3. /\ DOMAIN watched.logs = 1..Len(watched.logs) /\ Len(watched.logs) \in Nat
      /\ Len(watched.logs) > 0
  BY <1>1
<1>4. ASSUME NEW f \in DOMAIN watched.logs
      PROVE  /\ Mesh(f) \in Nat \cup {None}
             /\ LinesOf(f) \in Seq(LineType)
             /\ Len(LinesOf(f)) \in 0..Lines
             /\ DOMAIN LinesOf(f) = 1..Len(LinesOf(f))
             /\ \A n \in 1..Len(LinesOf(f)) :
                   /\ LinesOf(f)[n].time \in Nat \cup {None}
                   /\ LinesOf(f)[n].time # None => LinesOf(f)[n].time > Mesh(f)
                   /\ LinesOf(f)[n].bytes \in Nat \ {0}
                   /\ LinesOf(f)[n].chars \in Nat \ {0}
  <2>1. watched.logs[f] \in R
    <3> HIDE DEF R
    <3> QED
      BY <1>1
  <2>2. /\ Mesh(f) \in Nat \cup {None}
        /\ LinesOf(f) \in Seq(LineType)
    BY <2>1 DEF Mesh, LinesOf
  <2>3. /\ DOMAIN LinesOf(f) = 1..Len(LinesOf(f)) /\ Len(LinesOf(f)) \in Nat
    BY <2>2
  <2>4. Len(LinesOf(f)) <= Lines
    BY <1>1 DEF LinesOf
  <2>5. ASSUME NEW n \in 1..Len(LinesOf(f))
        PROVE  LinesOf(f)[n] \in LineType
    BY <2>2
  <2>6. ASSUME NEW n \in 1..Len(LinesOf(f)), LinesOf(f)[n].time # None
        PROVE  LinesOf(f)[n].time > Mesh(f)
    BY <1>1, <2>3, <2>6 DEF LinesOf, Mesh
  <2>7. ASSUME NEW n \in 1..Len(LinesOf(f))
        PROVE  /\ LinesOf(f)[n].time \in Nat \cup {None}
               /\ LinesOf(f)[n].bytes \in Nat \ {0}
               /\ LinesOf(f)[n].chars \in Nat \ {0}
    BY <2>5 DEF LineType
  <2>8. Len(LinesOf(f)) \in 0..Lines
    <3>1. Lines \in Nat
      BY <1>1
    <3> QED
      BY <3>1, <2>3, <2>4
  <2> HIDE DEF R
  <2> QED
    BY <2>2, <2>3, <2>6, <2>7, <2>8
<1>5. ASSUME NEW f \in DOMAIN watched.logs \ {LastLog}
      PROVE  /\ Len(LinesOf(f)) > 0 /\ Mesh(f) \in Nat
             /\ Mesh(f) < Mesh(LastLog) \/ (Mesh(f) = Mesh(LastLog) /\ f < LastLog)
  <2>1. LinesOf(f) # <<>> /\ LinesOf(f) \in Seq(LineType) /\ Mesh(f) \in Nat \cup {None}
    BY <1>2, <1>4 DEF LinesOf, LastLog
  <2> QED
    BY <2>1, <1>2 DEF LastLog, Mesh, None
<1> QED
  BY <1>1, <1>3, <1>4, <1>5 DEF Logs, LastLog, LinesOf

(* One of its logs.                                                        *)
LEMMA LogIs ==
    ASSUME watched \in Logged, NEW f \in Logs
    PROVE  /\ f \in Nat /\ Mesh(f) \in Nat \cup {None}
           /\ Len(LinesOf(f)) \in 0..Lines
           /\ Len(LinesOf(f)) \in Nat
           /\ DOMAIN LinesOf(f) = 1..Len(LinesOf(f))
           /\ \A n \in 1..Len(LinesOf(f)) :
                 /\ LinesOf(f)[n].time \in Nat \cup {None}
                 /\ LinesOf(f)[n].time # None => LinesOf(f)[n].time > Mesh(f)
                 /\ LinesOf(f)[n].bytes \in Nat \ {0}
                 /\ LinesOf(f)[n].chars \in Nat \ {0}
           /\ f # LastLog => Len(LinesOf(f)) > 0
<1>1. /\ Logs = 1..Len(watched.logs) /\ Len(watched.logs) \in Nat
  BY WatchedIs
<1>2. f \in Nat
  BY <1>1
<1>3. /\ Mesh(f) \in Nat \cup {None}
      /\ Len(LinesOf(f)) \in 0..Lines
      /\ DOMAIN LinesOf(f) = 1..Len(LinesOf(f))
  BY WatchedIs
<1>4. \A n \in 1..Len(LinesOf(f)) :
                 /\ LinesOf(f)[n].time \in Nat \cup {None}
                 /\ LinesOf(f)[n].time # None => LinesOf(f)[n].time > Mesh(f)
                 /\ LinesOf(f)[n].bytes \in Nat \ {0}
                 /\ LinesOf(f)[n].chars \in Nat \ {0}
  BY WatchedIs
<1>5. f # LastLog => Len(LinesOf(f)) > 0
  BY WatchedIs
<1>6. Len(LinesOf(f)) \in Nat
  BY <1>3, WatchedIs
<1> QED
  BY <1>2, <1>3, <1>4, <1>5, <1>6

(* The logs are in a total order, and the one that is written is the last. *)
LEMMA OlderIs ==
    ASSUME watched \in Logged,
           NEW f \in Logs, NEW g \in Logs
    PROVE  /\ ~Older(f, f)
           /\ Older(f, g) =>
                 ~Older(g, f) /\ Mesh(f) <= Mesh(g) /\ Mesh(g) \in Nat /\ f # LastLog
           /\ f # g => Older(f, g) \/ Older(g, f)
           /\ f # LastLog => Older(f, LastLog)
           /\ \A h \in Logs : Older(f, g) /\ Older(g, h) => Older(f, h)
<1> DEFINE N == Len(watched.logs)
<1>a. Logs = 1..N /\ N \in Nat /\ LastLog \in Logs
  BY WatchedIs
<1>b. Logs \subseteq Nat
  BY <1>a
<1>c. \A h \in Logs : Mesh(h) \in Nat \cup {None}
  BY WatchedIs
<1>d. \A h \in Logs \ {LastLog} :
            /\ Mesh(h) \in Nat
            /\ Mesh(h) < Mesh(LastLog) \/ (Mesh(h) = Mesh(LastLog) /\ h < LastLog)
  BY WatchedIs
<1>1. /\ Logs \subseteq Nat /\ LastLog \in Logs
      /\ \A h \in Logs : Mesh(h) \in Nat \cup {None}
      /\ \A h \in Logs \ {LastLog} :
            /\ Mesh(h) \in Nat
            /\ Mesh(h) < Mesh(LastLog) \/ (Mesh(h) = Mesh(LastLog) /\ h < LastLog)
  BY <1>a, <1>b, <1>c, <1>d
<1> HIDE DEF N
<1>2. \A h, k : Older(h, k) <=> Mesh(h) < Mesh(k) \/ (Mesh(h) = Mesh(k) /\ h < k)
  BY DEF Older, Mesh
<1>3. \A h \in Logs : Mesh(h) \in Int /\ h \in Nat
  BY <1>1 DEF None
<1>4. ~Older(f, f)
  BY <1>2, <1>3
<1>5. f # LastLog => Older(f, LastLog)
  BY <1>1, <1>2
<1>6. Older(f, g) => ~Older(g, f) /\ Mesh(f) <= Mesh(g)
  <2>1. Mesh(f) \in Int /\ Mesh(g) \in Int /\ f \in Nat /\ g \in Nat
    BY <1>3
  <2>2. /\ Older(f, g) <=> Mesh(f) < Mesh(g) \/ (Mesh(f) = Mesh(g) /\ f < g)
        /\ Older(g, f) <=> Mesh(g) < Mesh(f) \/ (Mesh(g) = Mesh(f) /\ g < f)
    BY <1>2
  <2> QED
    BY <2>1, <2>2
<1>7. Older(f, g) => f # LastLog
  BY <1>1, <1>2, <1>3
<1>8. Older(f, g) => Mesh(g) \in Nat
  BY <1>1, <1>2, <1>3, <1>7
<1>9. f # g => Older(f, g) \/ Older(g, f)
  BY <1>2, <1>3
<1>10. ASSUME NEW h \in Logs, Older(f, g), Older(g, h)
       PROVE  Older(f, h)
  <2>1. /\ Mesh(f) \in Int /\ Mesh(g) \in Int /\ Mesh(h) \in Int
        /\ f \in Nat /\ g \in Nat /\ h \in Nat
    BY <1>3
  <2>2. /\ Mesh(f) < Mesh(g) \/ (Mesh(f) = Mesh(g) /\ f < g)
        /\ Mesh(g) < Mesh(h) \/ (Mesh(g) = Mesh(h) /\ g < h)
    BY <1>2, <1>10
  <2>3. Mesh(f) < Mesh(h) \/ (Mesh(f) = Mesh(h) /\ f < h)
    BY <2>1, <2>2
  <2> QED
    BY <2>3, <1>2
<1> QED
  BY <1>4, <1>5, <1>6, <1>7, <1>8, <1>9, <1>10

(* The log that comes next says when the run after f began.                *)
LEMMA NextStartIs ==
    ASSUME watched \in Logged,
           NEW f \in Logs, NEW g \in Logs, Older(f, g)
    PROVE  /\ NextStart(f) \in Nat /\ NextStart(f) <= Mesh(g)
           /\ (\A h \in Logs : Older(f, h) => h = g \/ Older(g, h)) =>
                 NextStart(f) = Mesh(g)
<1> DEFINE S == {Mesh(h) : h \in {h \in Logs : Older(f, h)}}
<1>1. NextStart(f) = Min(S)
  BY DEF NextStart, Mesh, Min, Min
<1>2. \A h \in Logs : Older(f, h) => Mesh(h) \in Nat
  BY OlderIs
<1>3. S \in SUBSET Nat /\ S # {} /\ Mesh(g) \in S
  BY <1>2
<1>4. \A h \in Logs : Older(g, h) => Mesh(g) <= Mesh(h)
  BY OlderIs
<1>5. ASSUME \A h \in Logs : Older(f, h) => h = g \/ Older(g, h), NEW y \in S
      PROVE  Mesh(g) <= y
  <2>1. PICK h \in Logs : Older(f, h) /\ y = Mesh(h)
    BY <1>5
  <2>2. Mesh(g) \in Nat
    BY <1>2
  <2>3. CASE h = g
    BY <2>1, <2>2, <2>3
  <2>4. CASE Older(g, h)
    BY <1>4, <2>1, <2>4
  <2> QED
    BY <1>5, <2>1, <2>3, <2>4
<1> HIDE DEF S
<1>6. Min(S) \in S /\ \A y \in S : Min(S) <= y
  BY <1>3, MinOf
<1>7. Min(S) \in Nat /\ Min(S) <= Mesh(g)
  BY <1>3, <1>6
<1>8. ASSUME \A h \in Logs : Older(f, h) => h = g \/ Older(g, h)
      PROVE  Min(S) = Mesh(g)
  <2>1. Mesh(g) <= Min(S)
    BY <1>5, <1>6, <1>8
  <2>2. Mesh(g) \in Nat
    BY <1>2
  <2> QED
    BY <2>1, <2>2, <1>7
<1> QED
  BY <1>1, <1>7, <1>8

(* The last line of a finished log that is needed: no line before it is    *)
(* past the start of the next run.                                         *)
LEMMA LastNeededIs ==
    ASSUME watched \in Logged,
           NEW f \in Logs, NEW g \in Logs, Older(f, g)
    PROVE  /\ LastNeeded(f) \in 0..Len(LinesOf(f))
           /\ \A n \in 1..Len(LinesOf(f)) :
                 LinesOf(f)[n].time > NextStart(f) => LastNeeded(f) <= n
           /\ \A p \in 0..Len(LinesOf(f)) :
                 (\A m \in 1..(p - 1) : ~(LinesOf(f)[m].time > NextStart(f)))
                    => p <= LastNeeded(f)
<1> DEFINE L == LinesOf(f)
           S == {n \in DOMAIN L : L[n].time > NextStart(f)}
<1>1. LastNeeded(f) = IF S = {} THEN Len(L) ELSE Min(S)
  BY DEF LastNeeded, Min, Min
<1>2. DOMAIN L = 1..Len(L) /\ Len(L) \in Nat
  BY LogIs
<1>3. S \in SUBSET Nat /\ S \subseteq 1..Len(L)
  BY <1>2
<1>4. S # {} => Min(S) \in S /\ \A y \in S : Min(S) <= y
  <2> HIDE DEF S
  <2> QED
    BY <1>3, MinOf
<1>5. \A n \in 1..Len(L) : L[n].time > NextStart(f) => n \in S
  BY <1>2
<1>6. \A n \in S : n \in 1..Len(L) /\ L[n].time > NextStart(f)
  BY <1>2
<1> HIDE DEF S, L
<1>7. LastNeeded(f) \in 0..Len(L)
  <2>1. CASE S = {}
    BY <1>1, <1>2, <2>1
  <2>2. CASE S # {}
    <3>1. Min(S) \in 1..Len(L) /\ LastNeeded(f) = Min(S)
      BY <1>1, <1>4, <1>6, <2>2
    <3> QED
      BY <3>1, <1>2
  <2> QED
    BY <2>1, <2>2
<1>8. ASSUME NEW n \in 1..Len(L), L[n].time > NextStart(f)
      PROVE  LastNeeded(f) <= n
  BY <1>1, <1>4, <1>5, <1>8
<1>9. ASSUME NEW p \in 0..Len(L), \A m \in 1..(p - 1) : ~(L[m].time > NextStart(f))
      PROVE  p <= LastNeeded(f)
  <2>1. CASE S = {}
    BY <1>1, <1>2, <2>1
  <2>2. CASE S # {}
    <3>1. Min(S) \in S /\ Min(S) \in 1..Len(L) /\ LastNeeded(f) = Min(S)
      BY <1>1, <1>4, <1>6, <2>2
    <3>2. ~(Min(S) \in 1..(p - 1))
      BY <1>6, <1>9, <3>1
    <3> QED
      BY <3>1, <3>2, <1>2
  <2> QED
    BY <2>1, <2>2
<1> QED
  BY <1>7, <1>8, <1>9 DEF L
-------------------------------------------------------------------------
(* Lemmas about the sizes of logs *)

(* The bytes and the characters of the first lines of a log.               *)
BytesOf(lns, k) == Total([n \in 1..k |-> lns[n].bytes])
CharsOf(lns, k) == Total([n \in 1..k |-> lns[n].chars])
Bytes(f, k) == BytesOf(LinesOf(f), k)
Chars(f, k) == CharsOf(LinesOf(f), k)

(* One more line makes them more.                                          *)
LEMMA SizesAre ==
    ASSUME watched \in Logged, NEW f \in Logs
    PROVE  /\ Bytes(f, 0) = 0 /\ Chars(f, 0) = 0
           /\ \A k \in 0..(Len(LinesOf(f)) - 1) :
                 /\ Bytes(f, k) \in Int /\ Chars(f, k) \in Int
                 /\ Bytes(f, k + 1) = Bytes(f, k) + LinesOf(f)[k + 1].bytes
                 /\ Chars(f, k + 1) = Chars(f, k) + LinesOf(f)[k + 1].chars
<1> DEFINE L == LinesOf(f)
           B(k) == [n \in 1..k |-> L[n].bytes]
           C(k) == [n \in 1..k |-> L[n].chars]
<1>1. /\ Len(L) \in Nat
      /\ \A n \in 1..Len(L) : L[n].bytes \in Nat \ {0} /\ L[n].chars \in Nat \ {0}
  BY LogIs
<1>2. B(0) = <<>> /\ C(0) = <<>>
  OBVIOUS
<1> HIDE DEF L
<1>3. ASSUME NEW k \in 0..(Len(L) - 1)
      PROVE  /\ B(k) \in Seq(Int) /\ C(k) \in Seq(Int)
             /\ L[k + 1].bytes \in Int /\ L[k + 1].chars \in Int
             /\ B(k + 1) = Append(B(k), L[k + 1].bytes)
             /\ C(k + 1) = Append(C(k), L[k + 1].chars)
  <2>1. /\ k \in Nat /\ k + 1 \in 1..Len(L)
        /\ \A n \in 1..k : L[n].bytes \in Int /\ L[n].chars \in Int
        /\ L[k + 1].bytes \in Int /\ L[k + 1].chars \in Int
    BY <1>1
  <2>2. /\ B(k) \in Seq(Int) /\ C(k) \in Seq(Int) /\ Len(B(k)) = k /\ Len(C(k)) = k
    BY <2>1
  <2>3. B(k + 1) = Append(B(k), L[k + 1].bytes)
    BY <2>1, <2>2
  <2>4. C(k + 1) = Append(C(k), L[k + 1].chars)
    BY <2>1, <2>2
  <2> QED
    BY <2>1, <2>2, <2>3, <2>4
<1>4. \A k : Bytes(f, k) = Total(B(k)) /\ Chars(f, k) = Total(C(k))
  BY DEF Bytes, Chars, BytesOf, CharsOf, L
<1> HIDE DEF B, C
<1>5. \A k \in 0..(Len(L) - 1) :
         /\ Total(B(k)) \in Int /\ Total(C(k)) \in Int
         /\ Total(B(k + 1)) = Total(B(k)) + L[k + 1].bytes
         /\ Total(C(k + 1)) = Total(C(k)) + L[k + 1].chars
  <2> SUFFICES ASSUME NEW k \in 0..(Len(L) - 1)
               PROVE  /\ Total(B(k)) \in Int /\ Total(C(k)) \in Int
                      /\ Total(B(k + 1)) = Total(B(k)) + L[k + 1].bytes
                      /\ Total(C(k + 1)) = Total(C(k)) + L[k + 1].chars
    OBVIOUS
  <2>1. /\ B(k) \in Seq(Int) /\ L[k + 1].bytes \in Int
        /\ B(k + 1) = Append(B(k), L[k + 1].bytes)
    BY <1>3
  <2>2. /\ C(k) \in Seq(Int) /\ L[k + 1].chars \in Int
        /\ C(k + 1) = Append(C(k), L[k + 1].chars)
    BY <1>3
  <2>3. /\ Total(B(k)) \in Int
        /\ Total(Append(B(k), L[k + 1].bytes)) = Total(B(k)) + L[k + 1].bytes
    BY <2>1, TotalIs
  <2>4. /\ Total(C(k)) \in Int
        /\ Total(Append(C(k), L[k + 1].chars)) = Total(C(k)) + L[k + 1].chars
    BY <2>2, TotalIs
  <2> QED
    BY <2>1, <2>2, <2>3, <2>4
<1>6. Total(B(0)) = 0 /\ Total(C(0)) = 0
  BY <1>2, TotalIs
<1> QED
  BY <1>4, <1>5, <1>6 DEF L

(* By induction over the lines that are left: fewer lines than all have    *)
(* fewer bytes.                                                            *)
LEMMA MoreIsLarger ==
    ASSUME watched \in Logged, NEW f \in Logs,
           NEW k \in 0..Len(LinesOf(f))
    PROVE  /\ Bytes(f, k) \in Nat /\ Chars(f, k) \in Nat
           /\ k < Len(LinesOf(f)) => Bytes(f, k) < Bytes(f, Len(LinesOf(f)))
<1> DEFINE L == LinesOf(f)
           S == {j \in Nat : j <= Len(L) => Bytes(f, j) \in Nat /\ Chars(f, j) \in Nat}
           T == {j \in Nat : k + j <= Len(L) => Bytes(f, k) + j <= Bytes(f, k + j)}
<1>1. /\ Bytes(f, 0) = 0 /\ Chars(f, 0) = 0 /\ Len(L) \in Nat
      /\ \A j \in 0..(Len(L) - 1) :
            /\ L[j + 1].bytes \in Nat \ {0} /\ L[j + 1].chars \in Nat \ {0}
            /\ Bytes(f, j + 1) = Bytes(f, j) + L[j + 1].bytes
            /\ Chars(f, j + 1) = Chars(f, j) + L[j + 1].chars
  <2>1. Len(L) \in Nat /\ \A j \in 1..Len(L) : L[j].bytes \in Nat \ {0} /\ L[j].chars \in Nat \ {0}
    BY LogIs
  <2>2. \A j \in 0..(Len(L) - 1) :
           /\ Bytes(f, j + 1) = Bytes(f, j) + L[j + 1].bytes
           /\ Chars(f, j + 1) = Chars(f, j) + L[j + 1].chars
    BY SizesAre
  <2>3. Bytes(f, 0) = 0 /\ Chars(f, 0) = 0
    BY SizesAre
  <2>4. \A j \in 0..(Len(L) - 1) : j + 1 \in 1..Len(L)
    BY <2>1
  <2> HIDE DEF L
  <2> QED
    BY <2>1, <2>2, <2>3, <2>4
<1> HIDE DEF L
<1>2. S = Nat
  <2>1. 0 \in S
    BY <1>1
  <2>2. ASSUME NEW n \in S
        PROVE  n + 1 \in S
    <3>1. CASE n + 1 <= Len(L)
      <4>1. n \in 0..(Len(L) - 1) /\ n \in Nat /\ Bytes(f, n) \in Nat /\ Chars(f, n) \in Nat
        BY <1>1, <3>1
      <4>2. /\ L[n + 1].bytes \in Nat \ {0} /\ L[n + 1].chars \in Nat \ {0}
            /\ Bytes(f, n + 1) = Bytes(f, n) + L[n + 1].bytes
            /\ Chars(f, n + 1) = Chars(f, n) + L[n + 1].chars
        BY <1>1, <4>1
      <4> QED
        BY <4>1, <4>2
    <3>2. CASE ~(n + 1 <= Len(L))
      BY <3>2
    <3> QED
      BY <3>1, <3>2
  <2> HIDE DEF S
  <2> QED
    <3>1. S \in SUBSET Nat
      BY DEF S
    <3> QED
      BY <2>1, <2>2, <3>1, AllOf
<1>3. \A j \in 0..Len(L) : Bytes(f, j) \in Nat /\ Chars(f, j) \in Nat
  <2>1. \A j \in 0..Len(L) : j \in S /\ j <= Len(L)
    <3> HIDE DEF S
    <3> QED
      BY <1>1, <1>2
  <2> QED
    BY <2>1
<1>4. k \in 0..Len(L)
  BY DEF L
<1>5. T = Nat
  <2>1. 0 \in T
    BY <1>3, <1>4
  <2>2. ASSUME NEW n \in T
        PROVE  n + 1 \in T
    <3>1. CASE k + (n + 1) <= Len(L)
      <4>1. /\ k + n \in 0..(Len(L) - 1) /\ n \in Nat /\ k \in Nat
            /\ k + (n + 1) = (k + n) + 1 /\ k + n <= Len(L)
        BY <1>1, <1>4, <3>1
      <4>2. /\ L[(k + n) + 1].bytes \in Nat \ {0}
            /\ Bytes(f, (k + n) + 1) = Bytes(f, k + n) + L[(k + n) + 1].bytes
        BY <1>1, <4>1
      <4>3. Bytes(f, k) + n <= Bytes(f, k + n)
        BY <4>1
      <4>4. Bytes(f, k) \in Nat /\ Bytes(f, k + n) \in Nat
        BY <1>3, <1>4, <4>1
      <4> QED
        BY <4>1, <4>2, <4>3, <4>4
    <3>2. CASE ~(k + (n + 1) <= Len(L))
      BY <3>2
    <3> QED
      BY <3>1, <3>2
  <2> HIDE DEF T
  <2> QED
    <3>1. T \in SUBSET Nat
      BY DEF T
    <3> QED
      BY <2>1, <2>2, <3>1, AllOf
<1>6. ASSUME k < Len(L)
      PROVE  Bytes(f, k) < Bytes(f, Len(L))
  <2>1. Len(L) - k \in T /\ Len(L) - k >= 1 /\ k + (Len(L) - k) = Len(L)
    BY <1>1, <1>4, <1>5, <1>6
  <2>2. Bytes(f, k) + (Len(L) - k) <= Bytes(f, Len(L))
    BY <2>1, <1>1
  <2>3. Bytes(f, k) \in Nat /\ Bytes(f, Len(L)) \in Nat /\ k \in Nat
    BY <1>1, <1>3, <1>4
  <2> QED
    BY <2>1, <2>2, <2>3, <1>1
<1> QED
  BY <1>3, <1>4, <1>6 DEF L
-------------------------------------------------------------------------
(* The inductive invariant of the watcher *)

(* The time at which a log was taken to begin: unknown for the log that is *)
(* written if it was empty when the watcher sorted the logs.               *)
IsStart(t, f) == \/ t = Mesh(f)
                 \/ f = LastLog /\ watched.written = 0 /\ t = None

(* The open log and those to come are in their order, and the logs that    *)
(* were left are older.                                                    *)
OrderInv ==
    pc # "construct" =>
      /\ filename \in Logs
      /\ \A i \in DOMAIN nextFiles : Older(filename, nextFiles[i])
      /\ \A i, j \in DOMAIN nextFiles : i < j => Older(nextFiles[i], nextFiles[j])
      /\ \A f \in Logs : Left(f) => Older(f, filename)

(* changeTimes and switchTime go with nextFiles: the time of the next      *)
(* change is that of the next log, for every log.                          *)
StartsInv ==
    /\ pc = "begin" =>
         /\ Len(changeTimes) = Len(nextFiles)
         /\ \A i \in DOMAIN nextFiles : IsStart(changeTimes[i], nextFiles[i])
    /\ pc \notin {"construct", "begin"} =>
         /\ nextFiles = <<>> => changeTimes = <<>> /\ switchTime = None
         /\ nextFiles # <<>> =>
              /\ IsStart(switchTime, Head(nextFiles))
              /\ Len(changeTimes) = Len(nextFiles) - 1
              /\ \A i \in DOMAIN changeTimes : IsStart(changeTimes[i], nextFiles[i + 1])

(* The loop of start.                                                      *)
Reading == pc \in {"loop", "read", "line"}

(* The number of lines of the open log that were handled.                  *)
Done == IF pc = "line" THEN pos - 1 ELSE pos

(* Line n of log f was handed to the analyzers.                            *)
IsHandled(f, n) == \E i \in DOMAIN handled : handled[i] = <<f, n>>

(* The log that is written only grows.                                     *)
DiskInv == watched.written <= disk /\ disk <= Len(LinesOf(LastLog))

(* Nothing was handled before the loop.                                    *)
FreshInv ==
    /\ pc \in {"construct", "begin"} =>
         handled = <<>> /\ clock = None /\ pos = 0 /\ bytes = 0
    /\ pc = "construct" => filename = 0

(* Of the open log the lines up to pos were handled, one of them perhaps   *)
(* not yet; LineReader has counted their characters, and the size is that  *)
(* of all lines if the log is finished.                                    *)
OpenInv ==
    Reading =>
      /\ pos <= OnDisk(filename)
      /\ pc = "line" => pos > 0
      /\ bytes = Chars(filename, pos)
      /\ filename # LastLog => currSize = Bytes(filename, Len(LinesOf(filename)))
      /\ \A n \in 1..Done : IsHandled(filename, n)
      /\ \A n : IsHandled(filename, n) => n <= Done

(* Lines are handled of the open log and of logs that were left.           *)
HandledInv ==
    \A f, n : IsHandled(f, n) =>
      /\ f \in Logs /\ n \in 1..Len(LinesOf(f))
      /\ f = filename \/ Left(f)

(* What the watcher knows about the lines.                                 *)
ReadInv == DiskInv /\ FreshInv /\ OpenInv /\ HandledInv

(* The start of the run after f is known.                                  *)
HasNext(f) == \E g \in Logs : Older(f, g) /\ (g = LastLog => watched.written > 0)

(* The line is past the start of the run after f.                          *)
IsPast(f, n) == LinesOf(f)[n].time > NextStart(f)

(* The first such line of a log is the last one that is handled, provided  *)
(* that the start is known: the time of the analyzer is then past it, and  *)
(* the next thing that the loop does is to change the file.                *)
PastInv ==
    /\ \A f \in Logs : Reading /\ f = filename /\ HasNext(f) =>
         \A n \in 1..Done :
            IsPast(f, n) => pc = "loop" /\ n = pos /\ clock = LinesOf(f)[n].time
    /\ \A f \in Logs : HasNext(f) =>
         \A n, m : IsHandled(f, n) /\ IsHandled(f, m) /\ IsPast(f, n) => m <= n

(* The analyzer has its time from line n of log f.                         *)
ClockFrom(f, n) == clock = LinesOf(f)[n].time

(* The time of the analyzer is from a line of the open log or from one that*)
(* was needed of a log that was left.                                      *)
WatchTimeInv ==
    Reading /\ filename # LastLog =>
       \/ clock = None
       \/ \E n \in 1..Done : ClockFrom(filename, n)
       \/ \E f \in Logs :
             f # LastLog /\ Left(f) /\ \E n \in 1..LastNeeded(f) : ClockFrom(f, n)

(* The lines are handled in order, and the last one that was handled is the*)
(* one before the next of the open log, or one of a log that was left.     *)
InOrderInv ==
    /\ LinesInOrder
    /\ Reading /\ handled # <<>> =>
         LET last == handled[Len(handled)]
         IN  IF Done > 0 THEN last = <<filename, Done>> ELSE Left(last[1])
    /\ Reading /\ Done > 0 => handled # <<>>

(* The inductive invariant.                                                *)
WatchInv ==
    /\ WatchTypeOK /\ OrderInv /\ StartsInv /\ ReadInv /\ PastInv /\ WatchTimeInv
    /\ NothingMissing /\ InOrderInv

(* It holds at the beginning.                                              *)
LEMMA WatchInvInit ==
    ASSUME WatchInit
    PROVE  WatchInv
<1>1. /\ watched \in Logged /\ disk = watched.written /\ pc = "construct"
      /\ filename = 0 /\ nextFiles = <<>> /\ changeTimes = <<>> /\ switchTime = None
      /\ currSize = 0 /\ isTailing = FALSE /\ pos = 0 /\ bytes = 0 /\ goOn = TRUE
      /\ wasInterupted = FALSE /\ clock = None /\ pressed = FALSE /\ handled = <<>>
  BY DEF WatchInit
<1>2. Lines \in Nat /\ LastLog \in Logs /\ watched.written \in 0..Len(LinesOf(LastLog))
  BY <1>1, WatchedIs
<1>3. Len(LinesOf(LastLog)) \in 0..Lines
  BY <1>1, <1>2, LogIs
<1>4. \A f, n : ~IsHandled(f, n)
  BY <1>1 DEF IsHandled
<1>5. WatchTypeOK
  <2>1. disk \in 0..Lines /\ 0 \in 0..Lines
    BY <1>1, <1>2, <1>3
  <2>2. /\ filename \in Logs \cup {0} /\ nextFiles \in Seq(Logs)
        /\ changeTimes \in Seq(Nat \cup {None})
        /\ handled \in Seq(Logs \X (1..Lines))
    BY <1>1
  <2> QED
    BY <1>1, <2>1, <2>2 DEF WatchTypeOK
<1>6. OrderInv /\ StartsInv /\ PastInv /\ WatchTimeInv
  BY <1>1, <1>4 DEF OrderInv, StartsInv, PastInv, WatchTimeInv, Reading
<1>7. ReadInv
  BY <1>1, <1>2, <1>4 DEF ReadInv, DiskInv, FreshInv, OpenInv, HandledInv, Reading
<1>8. NothingMissing
  BY <1>1 DEF NothingMissing, Left
<1>9. InOrderInv
  BY <1>1 DEF InOrderInv, LinesInOrder, Reading
<1> QED
  BY <1>5, <1>6, <1>7, <1>8, <1>9 DEF WatchInv

(* An order of the logs.                                                   *)
LEMMA BijectionIs ==
    ASSUME NEW S, NEW p \in Bijection(S, S)
    PROVE  p \in [S -> S] /\ \A x \in S : \E y \in S : p[y] = x
  BY DEF Bijection, Injection, Surjection, IsInjective
-------------------------------------------------------------------------
(* Lemmas about the steps of the watcher *)

(* LineReader.read, when it finds a line.                                  *)
ReadLine ==
    /\ pc = "read" /\ goOn /\ pos < OnDisk(filename)
    /\ pos' = pos + 1
    /\ bytes' = bytes + LinesOf(filename)[pos'].chars
    /\ pc' = "line"
    /\ UNCHANGED <<watched, disk, filename, nextFiles, changeTimes, switchTime, currSize,
                   goOn, wasInterupted, isTailing, clock, handled, pressed>>

(* The steps that change nothing but the place, and never back into the    *)
(* loop: the end of the loop and of start, no line at the end of the log,  *)
(* and Ctrl-C.                                                             *)
Quiet ==
    /\ UNCHANGED <<watched, disk, filename, nextFiles, changeTimes, switchTime, currSize,
                   pos, bytes, isTailing, clock, handled>>
    /\ \/ pc' = pc
       \/ pc \in {"loop", "read", "line", "stop"} /\ pc' \in {"stop", "done", "raised"}
       \/ pc = "read" /\ pc' = "loop"
    /\ pressed' \in {pressed, TRUE}
    /\ goOn' \in {goOn, FALSE} /\ wasInterupted' \in {wasInterupted, TRUE}

(* What a step of the watcher is.                                          *)
LEMMA StepIs ==
    ASSUME [WatchNext]_watchVars
    PROVE  \/ Write \/ Construct \/ Begin \/ Switch \/ Stay
           \/ ReadLine \/ Handle \/ Quiet
<1>1. CASE UNCHANGED watchVars
  BY <1>1 DEF watchVars, fileVars, readerVars, analyzerVars, Quiet
<1>2. CASE LeaveLoop
  BY <1>2 DEF LeaveLoop, fileVars, readerVars, analyzerVars, Quiet
<1>3. CASE Read
  BY <1>3 DEF Read, fileVars, analyzerVars, Quiet, ReadLine
<1>4. CASE Stop
  BY <1>4 DEF Stop, fileVars, readerVars, analyzerVars, Quiet
<1>5. CASE CtrlCInRead
  BY <1>5 DEF CtrlCInRead, fileVars, analyzerVars, Quiet
<1>6. CASE CtrlCInHandle
  BY <1>6 DEF CtrlCInHandle, fileVars, readerVars, analyzerVars, Quiet
<1>7. CASE CtrlCInCondition
  BY <1>7 DEF CtrlCInCondition, fileVars, readerVars, analyzerVars, Quiet
<1> QED
  BY <1>1, <1>2, <1>3, <1>4, <1>5, <1>6, <1>7 DEF WatchNext, Watcher

(* What is known about the log that comes next.                            *)
LEMMA NextFileIs ==
    ASSUME WatchTypeOK, OrderInv, pc # "construct"
    PROVE  /\ filename = LastLog <=> nextFiles = <<>>
           /\ nextFiles # <<>> =>
                 /\ Head(nextFiles) \in Logs /\ Older(filename, Head(nextFiles))
                 /\ NextStart(filename) = Mesh(Head(nextFiles))
                 /\ NextStart(filename) \in Nat
                 /\ \A h \in Logs : Older(filename, h) =>
                       h = Head(nextFiles) \/ Older(Head(nextFiles), h)
<1>1. watched \in Logged /\ filename \in Logs /\ nextFiles \in Seq(Logs)
  BY DEF WatchTypeOK, OrderInv
<1>2. LastLog \in Logs /\ 0 \notin Logs
  <2>1. LastLog \in Logs /\ Logs = 1..Len(watched.logs)
    BY <1>1, WatchedIs
  <2> QED
    BY <2>1
<1>3. \A i \in DOMAIN nextFiles : nextFiles[i] \in Logs /\ Older(filename, nextFiles[i])
  BY <1>1 DEF OrderInv
<1>4. \A f \in Logs :
         f = filename \/ Older(f, filename) \/ \E i \in DOMAIN nextFiles : f = nextFiles[i]
  BY <1>1, <1>2 DEF OrderInv, Left
<1>5. ASSUME nextFiles # <<>>
      PROVE  1 \in DOMAIN nextFiles /\ Head(nextFiles) = nextFiles[1]
  BY <1>1, <1>5
<1>6. ASSUME filename = LastLog
      PROVE  nextFiles = <<>>
  <2>1. \A f \in Logs : ~Older(LastLog, f)
    BY <1>1, <1>2, OlderIs
  <2> QED
    BY <1>3, <1>5, <1>6, <2>1
<1>7. ASSUME nextFiles = <<>>
      PROVE  filename = LastLog
  <2>1. ~Older(LastLog, filename)
    BY <1>1, <1>2, OlderIs
  <2>2. DOMAIN nextFiles = {}
    BY <1>7
  <2> QED
    BY <1>2, <1>4, <2>1, <2>2
<1>8. ASSUME nextFiles # <<>>
      PROVE  /\ Head(nextFiles) \in Logs /\ Older(filename, Head(nextFiles))
             /\ NextStart(filename) = Mesh(Head(nextFiles))
             /\ NextStart(filename) \in Nat
             /\ \A h \in Logs : Older(filename, h) =>
                   h = Head(nextFiles) \/ Older(Head(nextFiles), h)
  <2> DEFINE g == Head(nextFiles)
  <2>1. g = nextFiles[1] /\ 1 \in DOMAIN nextFiles /\ g \in Logs /\ Older(filename, g)
    BY <1>3, <1>5, <1>8
  <2>2. ASSUME NEW h \in Logs, Older(filename, h)
        PROVE  h = g \/ Older(g, h)
    <3>1. h # filename /\ ~Older(h, filename)
      BY <1>1, <2>2, OlderIs
    <3>2. PICK i \in DOMAIN nextFiles : h = nextFiles[i]
      BY <1>4, <3>1
    <3>3. i = 1 \/ 1 < i
      BY <1>1
    <3>4. 1 < i => Older(nextFiles[1], nextFiles[i])
      BY <2>1 DEF OrderInv
    <3> QED
      BY <2>1, <3>2, <3>3, <3>4
  <2> HIDE DEF g
  <2>3. NextStart(filename) = Mesh(g) /\ NextStart(filename) \in Nat
    BY <1>1, <2>1, <2>2, NextStartIs
  <2> QED
    BY <2>1, <2>2, <2>3 DEF g
<1> QED
  BY <1>6, <1>7, <1>8

(* Who comes before another in the sorted list is older, also if the log   *)
(* that is written was empty and had no time.                              *)
LEMMA BeforeIs ==
    ASSUME watched \in Logged, NEW f \in Logs, NEW g \in Logs,
           Before(f, g)
    PROVE  Older(f, g)
<1>1. \A h \in Logs \ {LastLog} :
         /\ MeshTime(h) = Mesh(h) /\ Mesh(h) \in Nat
         /\ Mesh(h) < Mesh(LastLog) \/ (Mesh(h) = Mesh(LastLog) /\ h < LastLog)
  <2> SUFFICES ASSUME NEW h \in Logs \ {LastLog}
               PROVE  /\ MeshTime(h) = Mesh(h) /\ Mesh(h) \in Nat
                      /\ Mesh(h) < Mesh(LastLog) \/ (Mesh(h) = Mesh(LastLog) /\ h < LastLog)
    OBVIOUS
  <2>1. Len(LinesOf(h)) > 0 /\ Len(LinesOf(h)) \in Nat
    BY LogIs
  <2>2. MeshTime(h) = Mesh(h)
    BY <2>1 DEF MeshTime, OnDisk, Mesh, LastLog
  <2> QED
    BY <2>2, WatchedIs
<1>2. MeshTime(LastLog) \in {None, Mesh(LastLog)}
  BY DEF MeshTime, Mesh
<1>3. /\ f \in Nat /\ g \in Nat /\ Mesh(f) \in Int /\ Mesh(g) \in Int
      /\ LastLog \in Nat /\ Mesh(LastLog) \in Int
  <2>1. LastLog \in Logs
    BY WatchedIs
  <2> QED
    <3>1. \A h \in Logs : h \in Nat /\ Mesh(h) \in Nat \cup {None}
      BY LogIs
    <3> QED
      BY <2>1, <3>1 DEF None
<1>4. CASE f = LastLog /\ g = LastLog
  BY <1>2, <1>3, <1>4 DEF Before, Later, None
<1>5. CASE f = LastLog /\ g # LastLog
  <2>1. /\ MeshTime(g) = Mesh(g) /\ Mesh(g) \in Nat
        /\ Mesh(g) < Mesh(f) \/ (Mesh(g) = Mesh(f) /\ g < f)
    BY <1>1, <1>5
  <2>2. MeshTime(f) \in {None, Mesh(f)}
    BY <1>2, <1>5
  <2> QED
    BY <2>1, <2>2, <1>3 DEF Before, Later, None
<1>6. CASE f # LastLog /\ g = LastLog
  BY <1>6, OlderIs
<1>7. CASE f # LastLog /\ g # LastLog
  <2>1. MeshTime(g) = Mesh(g) /\ Mesh(g) \in Nat /\ MeshTime(f) = Mesh(f) /\ Mesh(f) \in Nat
    BY <1>1, <1>7
  <2>2. Mesh(f) < Mesh(g) \/ (Mesh(f) = Mesh(g) /\ f < g)
    BY <2>1, <1>3 DEF Before, Later, None
  <2> QED
    BY <2>2 DEF Older, Mesh
<1> QED
  BY <1>4, <1>5, <1>6, <1>7

(* A function on the first numbers is a list.                              *)
LEMMA ListIs ==
    ASSUME NEW S, NEW N \in Nat, NEW p \in [1..N -> S]
    PROVE  p \in Seq(S) /\ Len(p) = N /\ (N > 0 => p # <<>>)
<1>1. p \in Seq(S)
  BY SeqDef
<1>2. Len(p) = N
  BY <1>1
<1> QED
  BY <1>1, <1>2
-------------------------------------------------------------------------
(* Every step keeps the order of the logs *)

(* The sort and every change of the file keep the order.                   *)
LEMMA OrderStep ==
    ASSUME WatchInv, [WatchNext]_watchVars
    PROVE  OrderInv'
<1> USE DEF WatchInv
<1>1. watched \in Logged /\ nextFiles \in Seq(Logs)
  BY DEF WatchTypeOK
<1>2. ASSUME UNCHANGED <<watched, filename, nextFiles>>, pc # "construct" \/ pc' = "construct"
      PROVE  OrderInv'
  BY <1>2 DEF OrderInv, Older, Left, Logs
<1>3. CASE Write
  BY <1>2, <1>3 DEF Write, fileVars, analyzerVars, readerVars
<1>4. CASE Construct
  <2>1. PICK logs \in Bijection(Logs, Logs) :
           /\ SortedByMesh(logs) /\ filename' = logs[1] /\ nextFiles' = Tail(logs)
           /\ watched' = watched
    BY <1>4 DEF Construct
  <2> DEFINE N == Len(watched.logs)
  <2>2. Logs = 1..N /\ N \in Nat /\ N > 0
    BY <1>1, WatchedIs
  <2>3. logs \in [Logs -> Logs] /\ \A f \in Logs : \E i \in Logs : logs[i] = f
    BY BijectionIs
  <2> HIDE DEF N
  <2>4. logs \in Seq(Logs) /\ Len(logs) = N /\ logs # <<>>
    <3>1. logs \in [1..N -> Logs]
      BY <2>2, <2>3
    <3> QED
      BY <2>2, <3>1, ListIs
  <2>5. /\ Tail(logs) \in Seq(Logs) /\ Len(Tail(logs)) = N - 1
        /\ \A i \in 1..(N - 1) : Tail(logs)[i] = logs[i + 1]
    BY <2>4, HeadTailProperties
  <2>6. \A i, j \in Logs : i < j => Older(logs[i], logs[j])
    <3>1. \A i, j \in Logs : i < j => Before(logs[i], logs[j])
      BY <2>1 DEF SortedByMesh
    <3> QED
      BY <1>1, <2>3, <3>1, BeforeIs
  <2>7. filename' \in Logs /\ DOMAIN nextFiles' = 1..(N - 1)
        /\ \A i \in 1..(N - 1) :
              nextFiles'[i] = logs[i + 1] /\ i + 1 \in Logs /\ 1 \in Logs /\ 1 < i + 1
    BY <2>1, <2>2, <2>3, <2>4, <2>5
  <2>8. \A i \in DOMAIN nextFiles' : Older(filename', nextFiles'[i])
    BY <2>1, <2>6, <2>7
  <2>9. \A i, j \in DOMAIN nextFiles' : i < j => Older(nextFiles'[i], nextFiles'[j])
    <3> SUFFICES ASSUME NEW i \in 1..(N - 1), NEW j \in 1..(N - 1), i < j
                 PROVE  Older(nextFiles'[i], nextFiles'[j])
      BY <2>7
    <3>1. i + 1 < j + 1 /\ i + 1 \in Logs /\ j + 1 \in Logs
      BY <2>2, <2>7
    <3> QED
      BY <2>6, <2>7, <3>1
  <2>10. ASSUME NEW f \in Logs, f # filename', \A i \in DOMAIN nextFiles' : nextFiles'[i] # f
         PROVE  FALSE
    <3>1. PICK k \in Logs : logs[k] = f
      BY <2>3
    <3>2. k # 1 => k - 1 \in 1..(N - 1) /\ (k - 1) + 1 = k
      BY <2>2
    <3> QED
      BY <2>1, <2>7, <2>10, <3>1, <3>2
  <2> QED
    BY <2>1, <2>7, <2>8, <2>9, <2>10 DEF OrderInv, Older, Left, Logs
<1>5. CASE Begin
  BY <1>2, <1>5 DEF Begin, ChangeFile
<1>6. CASE Switch
  <2>1. /\ nextFiles # <<>> /\ filename' = Head(nextFiles) /\ nextFiles' = Tail(nextFiles)
        /\ watched' = watched /\ pc # "construct"
    BY <1>6 DEF Switch, ChangeFile
  <2> DEFINE n == Len(nextFiles)
             g == Head(nextFiles)
  <2>2. /\ n \in Nat /\ n > 0 /\ g = nextFiles[1] /\ 1 \in 1..n /\ DOMAIN nextFiles = 1..n
        /\ \A i \in 1..n : nextFiles[i] \in Logs
    BY <1>1, <2>1
  <2>3. /\ Tail(nextFiles) \in Seq(Logs) /\ Len(Tail(nextFiles)) = n - 1
        /\ \A i \in 1..(n - 1) : Tail(nextFiles)[i] = nextFiles[i + 1]
    BY <1>1, <2>1, HeadTailProperties
  <2> HIDE DEF n, g
  <2>4. filename \in Logs
    BY <2>1 DEF OrderInv
  <2>5. Older(filename, g) /\ \A i, j \in 1..n : i < j => Older(nextFiles[i], nextFiles[j])
    BY <2>1, <2>2 DEF OrderInv
  <2>6. DOMAIN nextFiles' = 1..(n - 1) /\ \A i \in 1..(n - 1) : nextFiles'[i] = nextFiles[i + 1]
    BY <2>1, <2>2, <2>3
  <2>7. \A i \in DOMAIN nextFiles' : Older(g, nextFiles'[i])
    BY <2>2, <2>5, <2>6
  <2>8. \A i, j \in DOMAIN nextFiles' : i < j => Older(nextFiles'[i], nextFiles'[j])
    <3> SUFFICES ASSUME NEW i \in 1..(n - 1), NEW j \in 1..(n - 1), i < j
                 PROVE  Older(nextFiles'[i], nextFiles'[j])
      BY <2>6
    <3>1. i + 1 < j + 1 /\ i + 1 \in 1..n /\ j + 1 \in 1..n
      BY <2>2
    <3> QED
      BY <2>5, <2>6, <3>1
  <2>9. ASSUME NEW f \in Logs, f # g, \A i \in DOMAIN nextFiles' : nextFiles'[i] # f
        PROVE  Older(f, g)
    <3>1. CASE f = filename
      BY <2>5, <3>1
    <3>2. CASE f # filename
      <4>1. \A i \in 1..n : nextFiles[i] # f
        <5> SUFFICES ASSUME NEW i \in 1..n
                     PROVE  nextFiles[i] # f
          OBVIOUS
        <5>1. i # 1 => i - 1 \in 1..(n - 1) /\ (i - 1) + 1 = i
          BY <2>2
        <5> QED
          BY <2>2, <2>6, <2>9, <5>1
      <4>2. filename # 0
        <5>1. Logs = 1..Len(watched.logs)
          BY <1>1, WatchedIs
        <5> QED
          BY <2>4, <5>1
      <4>3. Older(f, filename)
        BY <2>1, <2>2, <3>2, <4>1, <4>2 DEF OrderInv, Left
      <4>4. g \in Logs
        BY <2>2
      <4> QED
        BY <1>1, <2>4, <2>5, <4>3, <4>4, OlderIs
    <3> QED
      BY <3>1, <3>2
  <2>10. g \in Logs /\ filename' = g
    BY <2>1, <2>2 DEF g
  <2>11. (/\ filename \in Logs
          /\ \A i \in DOMAIN nextFiles : Older(filename, nextFiles[i]))'
    BY <2>1, <2>7, <2>10 DEF Older, Logs
  <2>12. (\A i, j \in DOMAIN nextFiles : i < j => Older(nextFiles[i], nextFiles[j]))'
    BY <2>1, <2>8 DEF Older
  <2>13. (\A f \in Logs : Left(f) => Older(f, filename))'
    BY <2>1, <2>9, <2>10 DEF Older, Left, Logs
  <2> QED
    BY <2>11, <2>12, <2>13 DEF OrderInv
<1>7. CASE Stay
  BY <1>2, <1>7 DEF Stay, fileVars
<1>8. CASE ReadLine
  BY <1>2, <1>8 DEF ReadLine
<1>9. CASE Handle
  BY <1>2, <1>9 DEF Handle, fileVars
<1>10. CASE Quiet
  BY <1>2, <1>10 DEF Quiet
<1> QED
  BY StepIs, <1>3, <1>4, <1>5, <1>6, <1>7, <1>8, <1>9, <1>10

(* Times and files are taken from their lists alike.                       *)
LEMMA StartsStep ==
    ASSUME WatchInv, [WatchNext]_watchVars
    PROVE  StartsInv'
<1> USE DEF WatchInv
<1>1. watched \in Logged /\ nextFiles \in Seq(Logs) /\ changeTimes \in Seq(Nat \cup {None})
  BY DEF WatchTypeOK
<1>2. ASSUME UNCHANGED <<watched, nextFiles, changeTimes, switchTime>>,
             pc' = pc \/ (pc \notin {"construct", "begin"} /\ pc' \notin {"construct", "begin"})
      PROVE  StartsInv'
  BY <1>2 DEF StartsInv, IsStart, Mesh, LastLog
<1>3. CASE Write
  BY <1>2, <1>3 DEF Write, fileVars
<1>4. CASE Construct
  <2>1. PICK logs \in Bijection(Logs, Logs) :
           /\ nextFiles' = Tail(logs)
           /\ changeTimes' = [i \in 1..(Len(logs) - 1) |-> MeshTime(logs[i + 1])]
           /\ watched' = watched /\ pc' = "begin"
    BY <1>4 DEF Construct
  <2> DEFINE N == Len(watched.logs)
  <2>2. Logs = 1..N /\ N \in Nat /\ N > 0
    BY <1>1, WatchedIs
  <2>3. logs \in [Logs -> Logs]
    BY BijectionIs
  <2> HIDE DEF N
  <2>4. logs \in Seq(Logs) /\ Len(logs) = N /\ logs # <<>>
    <3>1. logs \in [1..N -> Logs]
      BY <2>2, <2>3
    <3> QED
      BY <2>2, <3>1, ListIs
  <2>5. /\ Tail(logs) \in Seq(Logs) /\ Len(Tail(logs)) = N - 1
        /\ \A i \in 1..(N - 1) : Tail(logs)[i] = logs[i + 1]
    BY <2>4, HeadTailProperties
  <2>6. DOMAIN nextFiles' = 1..(N - 1) /\ Len(nextFiles') = N - 1 /\ Len(changeTimes') = N - 1
    BY <2>1, <2>2, <2>4, <2>5
  <2>7. ASSUME NEW i \in 1..(N - 1)
        PROVE  IsStart(changeTimes'[i], nextFiles'[i])
    <3>a. nextFiles'[i] = logs[i + 1] /\ i + 1 \in 1..N
      BY <2>1, <2>2, <2>5
    <3>b. changeTimes'[i] = MeshTime(logs[i + 1])
      BY <2>1, <2>4
    <3>1. changeTimes'[i] = MeshTime(nextFiles'[i]) /\ nextFiles'[i] \in Logs
      BY <2>2, <2>3, <3>a, <3>b
    <3>2. ASSUME nextFiles'[i] # LastLog
          PROVE  OnDisk(nextFiles'[i]) # 0
      <4> DEFINE f == nextFiles'[i]
      <4>1. f \in Logs /\ f # LastLog
        BY <3>1, <3>2
      <4> HIDE DEF f
      <4>2. Len(LinesOf(f)) > 0 /\ Len(LinesOf(f)) \in Nat
        BY <1>1, <4>1, LogIs
      <4>3. OnDisk(f) # 0
        BY <4>1, <4>2 DEF OnDisk, LastLog
      <4> QED
        BY <4>3 DEF f
    <3>3. ASSUME nextFiles'[i] = LastLog, OnDisk(LastLog) = 0
          PROVE  watched.written = 0
      <4>1. watched.written <= disk /\ disk = 0
        BY <3>3 DEF ReadInv, DiskInv, OnDisk, LastLog
      <4>2. LastLog \in Logs /\ watched.written \in 0..Len(LinesOf(LastLog))
        BY <1>1, WatchedIs
      <4>3. Len(LinesOf(LastLog)) \in Nat
        BY <1>1, <4>2, LogIs
      <4> QED
        BY <4>1, <4>2, <4>3
    <3> QED
      BY <3>1, <3>2, <3>3 DEF IsStart, MeshTime, Mesh
  <2> QED
    BY <2>1, <2>6, <2>7 DEF StartsInv, IsStart, Mesh, LastLog
<1>5. CASE Begin
  <2>1. /\ pc = "begin" /\ pc' = "loop" /\ watched' = watched /\ nextFiles' = nextFiles
        /\ switchTime' = IF changeTimes = <<>> THEN None ELSE Head(changeTimes)
        /\ changeTimes' = IF changeTimes = <<>> THEN <<>> ELSE Tail(changeTimes)
    BY <1>5 DEF Begin, ChangeFile
  <2>2. /\ Len(changeTimes) = Len(nextFiles) /\ DOMAIN nextFiles = 1..Len(nextFiles)
        /\ \A i \in DOMAIN nextFiles : IsStart(changeTimes[i], nextFiles[i])
    BY <1>1, <2>1 DEF StartsInv
  <2>3. CASE nextFiles = <<>>
    <3>1. changeTimes = <<>>
      BY <1>1, <2>2, <2>3
    <3> QED
      BY <2>1, <2>3, <3>1 DEF StartsInv
  <2>4. CASE nextFiles # <<>>
    <3> DEFINE n == Len(nextFiles)
    <3>1. n \in Nat /\ n > 0 /\ changeTimes # <<>>
      BY <1>1, <2>2, <2>4
    <3>2. /\ Len(changeTimes') = n - 1 /\ DOMAIN changeTimes' = 1..(n - 1)
          /\ \A i \in 1..(n - 1) : changeTimes'[i] = changeTimes[i + 1]
          /\ switchTime' = changeTimes[1] /\ Head(nextFiles') = nextFiles[1]
      <4>1. /\ Tail(changeTimes) \in Seq(Nat \cup {None})
            /\ Len(Tail(changeTimes)) = n - 1 /\ Head(changeTimes) = changeTimes[1]
            /\ \A i \in 1..(n - 1) : Tail(changeTimes)[i] = changeTimes[i + 1]
        BY <1>1, <2>2, <3>1, HeadTailProperties
      <4> QED
        BY <1>1, <2>1, <2>4, <3>1, <4>1
    <3> HIDE DEF n
    <3>3. IsStart(switchTime', Head(nextFiles')) /\ 1 \in DOMAIN nextFiles
      BY <2>2, <3>1, <3>2 DEF n
    <3>4. ASSUME NEW i \in DOMAIN changeTimes'
          PROVE  IsStart(changeTimes'[i], nextFiles'[i + 1])
      <4>1. i + 1 \in DOMAIN nextFiles /\ changeTimes'[i] = changeTimes[i + 1]
        BY <2>2, <3>1, <3>2 DEF n
      <4> QED
        BY <2>1, <2>2, <4>1
    <3> QED
      BY <2>1, <2>4, <3>2, <3>3, <3>4 DEF StartsInv, IsStart, Mesh, LastLog, n
  <2> QED
    BY <2>3, <2>4
<1>6. CASE Switch
  <2>1. /\ pc = "loop" /\ pc' \in {"loop", "read"} /\ watched' = watched
        /\ nextFiles # <<>> /\ nextFiles' = Tail(nextFiles)
        /\ switchTime' = IF changeTimes = <<>> THEN None ELSE Head(changeTimes)
        /\ changeTimes' = IF changeTimes = <<>> THEN <<>> ELSE Tail(changeTimes)
    BY <1>6 DEF Switch, ChangeFile
  <2> DEFINE n == Len(nextFiles)
  <2>2. /\ Len(changeTimes) = n - 1 /\ n \in Nat /\ n > 0
        /\ \A i \in DOMAIN changeTimes : IsStart(changeTimes[i], nextFiles[i + 1])
    BY <1>1, <2>1 DEF StartsInv
  <2>3. /\ nextFiles' \in Seq(Logs) /\ Len(nextFiles') = n - 1
        /\ \A i \in 1..(n - 1) : nextFiles'[i] = nextFiles[i + 1]
    BY <1>1, <2>1, HeadTailProperties
  <2>4. CASE n = 1
    <3>1. changeTimes = <<>> /\ nextFiles' = <<>>
      BY <1>1, <2>2, <2>3, <2>4
    <3> QED
      BY <2>1, <3>1 DEF StartsInv
  <2>5. CASE n # 1
    <3> HIDE DEF n
    <3>1. n > 1 /\ changeTimes # <<>> /\ nextFiles' # <<>> /\ DOMAIN changeTimes = 1..(n - 1)
      BY <1>1, <2>2, <2>3, <2>5
    <3>2. /\ changeTimes' = Tail(changeTimes) /\ Len(Tail(changeTimes)) = n - 2
          /\ DOMAIN changeTimes' = 1..(n - 2)
          /\ \A i \in 1..(n - 2) : changeTimes'[i] = changeTimes[i + 1]
          /\ switchTime' = changeTimes[1]
      <4>1. /\ Tail(changeTimes) \in Seq(Nat \cup {None})
            /\ Len(Tail(changeTimes)) = (n - 1) - 1 /\ Head(changeTimes) = changeTimes[1]
            /\ \A i \in 1..((n - 1) - 1) : Tail(changeTimes)[i] = changeTimes[i + 1]
        BY <1>1, <2>2, <3>1, HeadTailProperties
      <4> QED
        BY <2>1, <2>2, <3>1, <4>1
    <3>3. Head(nextFiles') = nextFiles[2] /\ 1 \in DOMAIN changeTimes
      BY <2>2, <2>3, <3>1
    <3>4. IsStart(switchTime', Head(nextFiles'))
      BY <2>2, <3>2, <3>3
    <3>5. ASSUME NEW i \in DOMAIN changeTimes'
          PROVE  IsStart(changeTimes'[i], nextFiles'[i + 1])
      <4>1. /\ i + 1 \in DOMAIN changeTimes /\ i + 1 \in 1..(n - 1)
            /\ changeTimes'[i] = changeTimes[i + 1]
        BY <2>2, <3>1, <3>2
      <4>2. nextFiles'[i + 1] = nextFiles[(i + 1) + 1]
        BY <2>3, <4>1
      <4> QED
        BY <2>2, <4>1, <4>2
    <3>6. Len(changeTimes') = Len(nextFiles') - 1
      BY <2>2, <2>3, <3>2
    <3> QED
      BY <2>1, <3>1, <3>4, <3>5, <3>6 DEF StartsInv, IsStart, Mesh, LastLog
  <2> QED
    BY <2>4, <2>5
<1>7. CASE Stay
  BY <1>2, <1>7 DEF Stay, fileVars
<1>8. CASE ReadLine
  BY <1>2, <1>8 DEF ReadLine
<1>9. CASE Handle
  BY <1>2, <1>9 DEF Handle, fileVars
<1>10. CASE Quiet
  BY <1>2, <1>10 DEF Quiet
<1> QED
  BY StepIs, <1>3, <1>4, <1>5, <1>6, <1>7, <1>8, <1>9, <1>10
-------------------------------------------------------------------------
(* Every step keeps the types *)

(* The size of a log is the number of bytes of its lines on the disk.      *)
LEMMA GetSizeIs ==
    ASSUME NEW f
    PROVE  GetSize(f) = Bytes(f, OnDisk(f))
  BY DEF GetSize, Bytes, BytesOf, Total, FoldLeft, FoldLeft, MapThenFoldSet, MapThenFoldSet,
         Max, Max

(* A log that is finished is on the disk.                                  *)
LEMMA OnDiskIs ==
    ASSUME WatchTypeOK, ReadInv, NEW f \in Logs
    PROVE  /\ OnDisk(f) \in 0..Len(LinesOf(f)) /\ GetSize(f) \in Nat
           /\ f # LastLog => OnDisk(f) = Len(LinesOf(f))
<1>1. watched \in Logged /\ disk \in Nat
  BY WatchedIs DEF WatchTypeOK
<1>2. Len(LinesOf(f)) \in Nat
  BY <1>1, LogIs
<1>3. OnDisk(f) \in 0..Len(LinesOf(f)) /\ (f # LastLog => OnDisk(f) = Len(LinesOf(f)))
  <2>1. disk <= Len(LinesOf(LastLog))
    BY DEF ReadInv, DiskInv
  <2>2. f = LastLog => OnDisk(f) = disk
    BY DEF OnDisk, LastLog
  <2>3. f # LastLog => OnDisk(f) = Len(LinesOf(f))
    BY DEF OnDisk, LastLog
  <2> QED
    BY <1>1, <1>2, <2>1, <2>2, <2>3
<1>4. GetSize(f) \in Nat
  <2>1. Bytes(f, OnDisk(f)) \in Nat
    BY <1>1, <1>3, MoreIsLarger
  <2> QED
    BY <2>1, GetSizeIs
<1> QED
  BY <1>3, <1>4

(* Every step keeps the types.                                             *)
LEMMA TypeStep ==
    ASSUME WatchTypeOK, OrderInv, ReadInv, [WatchNext]_watchVars
    PROVE  WatchTypeOK'
<1> DEFINE Pcs == {"construct", "begin", "loop", "read", "line", "stop", "done", "raised"}
<1>1. /\ watched \in Logged /\ disk \in 0..Lines /\ pc \in Pcs
      /\ filename \in Logs \cup {0} /\ nextFiles \in Seq(Logs)
      /\ changeTimes \in Seq(Nat \cup {None}) /\ switchTime \in Nat \cup {None}
      /\ currSize \in Nat /\ bytes \in Nat /\ pos \in 0..Lines
      /\ isTailing \in BOOLEAN /\ goOn \in BOOLEAN /\ wasInterupted \in BOOLEAN
      /\ clock \in Nat \cup {None} /\ pressed \in BOOLEAN
      /\ handled \in Seq(Logs \X (1..Lines))
  BY DEF WatchTypeOK
<1>2. ASSUME watched' = watched, disk' \in 0..Lines, pc' \in Pcs,
             filename' \in Logs \cup {0}, nextFiles' \in Seq(Logs),
             changeTimes' \in Seq(Nat \cup {None}), switchTime' \in Nat \cup {None},
             currSize' \in Nat, bytes' \in Nat, pos' \in 0..Lines,
             isTailing' \in BOOLEAN, goOn' \in BOOLEAN, wasInterupted' \in BOOLEAN,
             clock' \in Nat \cup {None}, pressed' \in BOOLEAN,
             handled' \in Seq(Logs \X (1..Lines))
      PROVE  WatchTypeOK'
  <2>1. Logs' = Logs
    BY <1>2 DEF Logs
  <2> QED
    BY <1>1, <1>2, <2>1 DEF WatchTypeOK
<1>3. Lines \in Nat /\ LastLog \in Logs /\ watched.tail \in Nat
  BY <1>1, WatchedIs
<1>4. pc # "construct" =>
        /\ filename \in Logs
        /\ OnDisk(filename) \in Nat /\ OnDisk(filename) <= Len(LinesOf(filename))
        /\ Len(LinesOf(filename)) <= Lines
  <2> SUFFICES ASSUME pc # "construct"
               PROVE  /\ filename \in Logs
                      /\ OnDisk(filename) \in Nat
                      /\ OnDisk(filename) <= Len(LinesOf(filename))
                      /\ Len(LinesOf(filename)) <= Lines
    OBVIOUS
  <2>1. filename \in Logs
    BY DEF OrderInv
  <2>2. Len(LinesOf(filename)) \in 0..Lines
    BY <1>1, <2>1, LogIs
  <2>3. OnDisk(filename) \in 0..Len(LinesOf(filename))
    BY <2>1, OnDiskIs
  <2> QED
    BY <1>3, <2>1, <2>2, <2>3
<1>5. CASE Write
  <2>1. Len(LinesOf(LastLog)) \in 0..Lines
    BY <1>1, <1>3, LogIs
  <2>2. disk' \in 0..Lines
    BY <1>1, <1>3, <1>5, <2>1 DEF Write, LastLog
  <2> HIDE DEF Pcs
  <2>3. UNCHANGED <<watched, pc, filename, nextFiles, changeTimes, switchTime, currSize,
                    isTailing, pos, bytes, goOn, wasInterupted, clock, pressed, handled>>
    BY <1>5 DEF Write, fileVars, readerVars, analyzerVars
  <2> QED
    BY <1>1, <1>2, <2>2, <2>3
<1>6. CASE Construct
  <2>1. PICK logs \in Bijection(Logs, Logs) :
           /\ filename' = logs[1] /\ nextFiles' = Tail(logs)
           /\ changeTimes' = [i \in 1..(Len(logs) - 1) |-> MeshTime(logs[i + 1])]
    BY <1>6 DEF Construct
  <2> DEFINE N == Len(watched.logs)
  <2>2. Logs = 1..N /\ N \in Nat /\ N > 0
    BY <1>1, WatchedIs
  <2>3. logs \in [Logs -> Logs]
    BY BijectionIs
  <2> HIDE DEF N
  <2>4. logs \in Seq(Logs) /\ Len(logs) = N /\ logs # <<>>
    <3>1. logs \in [1..N -> Logs]
      BY <2>2, <2>3
    <3> QED
      BY <2>2, <3>1, ListIs
  <2>5. filename' \in Logs
    BY <2>1, <2>2, <2>3
  <2>6. nextFiles' \in Seq(Logs)
    BY <2>1, <2>4, HeadTailProperties
  <2>7. changeTimes' \in Seq(Nat \cup {None})
    <3>1. \A f \in Logs : MeshTime(f) \in Nat \cup {None}
      <4> SUFFICES ASSUME NEW f \in Logs
                   PROVE  MeshTime(f) \in Nat \cup {None}
        OBVIOUS
      <4>1. Mesh(f) \in Nat \cup {None}
        BY <1>1, LogIs
      <4> QED
        BY <4>1 DEF MeshTime, Mesh
    <3>2. \A i \in 1..(N - 1) : logs[i + 1] \in Logs
      BY <2>2, <2>3
    <3>3. changeTimes' = [i \in 1..(N - 1) |-> MeshTime(logs[i + 1])]
      BY <2>1, <2>4
    <3>4. N - 1 \in Nat
      BY <2>2
    <3>5. changeTimes' \in [1..(N - 1) -> Nat \cup {None}]
      BY <3>1, <3>2, <3>3
    <3> QED
      BY <3>4, <3>5, ListIs
  <2>8. UNCHANGED <<watched, disk, switchTime, currSize, isTailing, pos, bytes, goOn,
                    wasInterupted, clock, pressed, handled>> /\ pc' \in Pcs
    BY <1>6 DEF Construct, readerVars, analyzerVars
  <2> HIDE DEF Pcs
  <2> QED
    BY <1>1, <1>2, <2>5, <2>6, <2>7, <2>8
<1>7. ASSUME NEW f \in Logs, ChangeFile(f)
      PROVE  /\ filename' = f /\ pos' = 0 /\ currSize' \in Nat
             /\ changeTimes' \in Seq(Nat \cup {None}) /\ switchTime' \in Nat \cup {None}
  <2>1. currSize' \in Nat
    BY <1>7, OnDiskIs DEF ChangeFile
  <2>2. CASE changeTimes = <<>>
    BY <1>1, <1>7, <2>1, <2>2 DEF ChangeFile
  <2>3. CASE changeTimes # <<>>
    <3>1. Tail(changeTimes) \in Seq(Nat \cup {None}) /\ Head(changeTimes) \in Nat \cup {None}
      BY <1>1, <2>3, HeadTailProperties
    <3> QED
      BY <1>7, <2>1, <2>3, <3>1 DEF ChangeFile
  <2> QED
    BY <2>2, <2>3
<1>8. CASE Begin
  <2>1. ChangeFile(filename) /\ filename \in Logs
    BY <1>4, <1>8 DEF Begin
  <2>2. /\ filename' = filename /\ pos' = 0 /\ currSize' \in Nat
        /\ changeTimes' \in Seq(Nat \cup {None}) /\ switchTime' \in Nat \cup {None}
    BY <1>7, <2>1
  <2>3. UNCHANGED <<watched, disk, nextFiles, isTailing, bytes, goOn, wasInterupted, clock,
                    pressed, handled>> /\ pc' \in Pcs
    BY <1>8 DEF Begin, analyzerVars
  <2>4. 0 \in 0..Lines
    BY <1>3
  <2> HIDE DEF Pcs
  <2> QED
    BY <1>1, <1>2, <2>2, <2>3, <2>4
<1>9. CASE Switch
  <2>1. nextFiles # <<>> /\ ChangeFile(Head(nextFiles)) /\ nextFiles' = Tail(nextFiles)
    BY <1>9 DEF Switch
  <2>2. Head(nextFiles) \in Logs /\ nextFiles' \in Seq(Logs)
    BY <1>1, <2>1, HeadTailProperties
  <2>3. /\ filename' \in Logs /\ pos' = 0 /\ currSize' \in Nat
        /\ changeTimes' \in Seq(Nat \cup {None}) /\ switchTime' \in Nat \cup {None}
    BY <1>7, <2>1, <2>2
  <2>4. UNCHANGED <<watched, disk, isTailing, goOn, wasInterupted, clock, pressed, handled>>
        /\ pc' \in Pcs /\ bytes' = 0
    BY <1>9 DEF Switch, analyzerVars
  <2>5. 0 \in 0..Lines
    BY <1>3
  <2> HIDE DEF Pcs
  <2> QED
    BY <1>1, <1>2, <2>2, <2>3, <2>4, <2>5
<1>10. CASE Stay
  <2>1. UNCHANGED <<watched, disk, filename, nextFiles, changeTimes, switchTime, currSize,
                    isTailing, pos, bytes, goOn, wasInterupted, clock, pressed, handled>>
        /\ pc' \in Pcs
    BY <1>10 DEF Stay, fileVars, readerVars, analyzerVars
  <2> HIDE DEF Pcs
  <2> QED
    BY <1>1, <1>2, <2>1
<1>11. CASE ReadLine
  <2> DEFINE L == LinesOf(filename)
  <2>1. /\ pos < OnDisk(filename) /\ pos' = pos + 1 /\ pc = "read"
        /\ bytes' = bytes + L[pos + 1].chars
    BY <1>11 DEF ReadLine
  <2>2. \A n \in 1..Len(L) : L[n].chars \in Nat
    BY <1>1, <1>4, <2>1, LogIs
  <2> HIDE DEF L
  <2>3. pos + 1 \in 1..Lines /\ pos + 1 <= Len(L) /\ Len(L) \in Nat
    <3>1. Len(L) \in Nat
      BY <1>1, <1>4, <2>1, LogIs DEF L
    <3> QED
      BY <1>1, <1>3, <1>4, <2>1, <3>1 DEF L
  <2>4. pos' \in 0..Lines /\ bytes' \in Nat
    BY <1>1, <2>1, <2>2, <2>3
  <2>5. UNCHANGED <<watched, disk, filename, nextFiles, changeTimes, switchTime, currSize,
                    isTailing, goOn, wasInterupted, clock, pressed, handled>> /\ pc' \in Pcs
    BY <1>11 DEF ReadLine
  <2> HIDE DEF Pcs
  <2> QED
    BY <1>1, <1>2, <2>4, <2>5
<1>12. CASE Handle
  <2>1. /\ pc = "line" /\ isTailing' = (isTailing \/ currSize - bytes <= watched.tail)
        /\ handled' = Append(handled, <<filename, pos>>)
        /\ clock' = IF LinesOf(filename)[pos].time = None THEN clock
                    ELSE LinesOf(filename)[pos].time
    BY <1>12 DEF Handle
  <2>2. pos > 0 /\ pos <= OnDisk(filename) /\ filename \in Logs
    BY <1>4, <2>1 DEF ReadInv, OpenInv, Reading
  <2>3. pos \in 1..Lines /\ pos \in 1..Len(LinesOf(filename))
    <3>1. Len(LinesOf(filename)) \in Nat
      BY <1>1, <2>2, LogIs
    <3> QED
      BY <1>1, <1>3, <1>4, <2>1, <2>2, <3>1
  <2>4. handled' \in Seq(Logs \X (1..Lines))
    <3>1. <<filename, pos>> \in Logs \X (1..Lines)
      BY <2>2, <2>3
    <3> QED
      BY <1>1, <2>1, <3>1
  <2>5. LinesOf(filename)[pos].time \in Nat \cup {None}
    BY <1>1, <2>2, <2>3, LogIs
  <2>6. clock' \in Nat \cup {None} /\ isTailing' \in BOOLEAN
    BY <1>1, <2>1, <2>5
  <2>7. UNCHANGED <<watched, disk, filename, nextFiles, changeTimes, switchTime, currSize, pos,
                    bytes, goOn, wasInterupted, pressed>> /\ pc' \in Pcs
    BY <1>12 DEF Handle, fileVars, readerVars
  <2> HIDE DEF Pcs
  <2> QED
    BY <1>1, <1>2, <2>4, <2>6, <2>7
<1>13. CASE Quiet
  <2>1. /\ UNCHANGED <<watched, disk, filename, nextFiles, changeTimes, switchTime, currSize,
                       pos, bytes, isTailing, clock, handled>>
        /\ pc' \in Pcs /\ pressed' \in BOOLEAN /\ goOn' \in BOOLEAN /\ wasInterupted' \in BOOLEAN
    BY <1>1, <1>13 DEF Quiet
  <2> HIDE DEF Pcs
  <2> QED
    BY <1>1, <1>2, <2>1
<1> QED
  BY StepIs, <1>5, <1>6, <1>8, <1>9, <1>10, <1>11, <1>12, <1>13
-------------------------------------------------------------------------
(* Every step keeps what was read and handled *)

(* What depends on the case only.                                          *)
LEMMA SameLogs ==
    ASSUME watched' = watched
    PROVE  \A f : /\ LinesOf(f)' = LinesOf(f) /\ Mesh(f)' = Mesh(f)
                  /\ NextStart(f)' = NextStart(f) /\ LastNeeded(f)' = LastNeeded(f)
                  /\ HasNext(f)' = HasNext(f)
<1> SUFFICES ASSUME NEW f
             PROVE  /\ LinesOf(f)' = LinesOf(f) /\ Mesh(f)' = Mesh(f)
                    /\ NextStart(f)' = NextStart(f) /\ LastNeeded(f)' = LastNeeded(f)
                    /\ HasNext(f)' = HasNext(f)
  OBVIOUS
<1>1. LinesOf(f)' = LinesOf(f) /\ Mesh(f)' = Mesh(f)
  BY DEF LinesOf, Mesh
<1>2. NextStart(f)' = NextStart(f)
  BY DEF NextStart, Older, Logs
<1>3. LastNeeded(f)' = LastNeeded(f)
  <2>1. {n \in DOMAIN LinesOf(f) : LinesOf(f)[n].time > NextStart(f)}'
          = {n \in DOMAIN LinesOf(f) : LinesOf(f)[n].time > NextStart(f)}
    BY <1>1, <1>2
  <2> QED
    BY <1>1, <2>1 DEF LastNeeded
<1>4. HasNext(f)' = HasNext(f)
  BY DEF HasNext, Older, Logs, LastLog
<1> QED
  BY <1>1, <1>2, <1>3, <1>4

(* Nothing more was handled ...                                            *)
LEMMA SameHandled ==
    ASSUME handled' = handled
    PROVE  \A f, n : IsHandled(f, n)' <=> IsHandled(f, n)
BY DEF IsHandled

(* ... or one line more.                                                   *)
LEMMA HandleIs ==
    ASSUME NEW S, handled \in Seq(S), NEW g, NEW p, <<g, p>> \in S,
           handled' = Append(handled, <<g, p>>)
    PROVE  \A f, n : IsHandled(f, n)' <=> IsHandled(f, n) \/ (f = g /\ n = p)
<1>1. /\ Len(handled) \in Nat /\ DOMAIN handled = 1..Len(handled)
      /\ DOMAIN handled' = 1..(Len(handled) + 1)
      /\ handled'[Len(handled) + 1] = <<g, p>>
      /\ \A i \in 1..Len(handled) : handled'[i] = handled[i]
  OBVIOUS
<1> DEFINE N == Len(handled)
<1>2. ASSUME NEW f, NEW n, IsHandled(f, n)'
      PROVE  IsHandled(f, n) \/ (f = g /\ n = p)
  <2>1. PICK i \in 1..(N + 1) : handled'[i] = <<f, n>>
    BY <1>1, <1>2 DEF IsHandled
  <2>2. i \in 1..N \/ i = N + 1
    BY <1>1
  <2> QED
    BY <1>1, <2>1, <2>2 DEF IsHandled
<1>3. ASSUME NEW f, NEW n, IsHandled(f, n)
      PROVE  IsHandled(f, n)'
  <2>1. PICK i \in 1..N : handled[i] = <<f, n>>
    BY <1>1, <1>3 DEF IsHandled
  <2>2. i \in 1..(N + 1) /\ handled'[i] = <<f, n>>
    BY <1>1, <2>1
  <2> QED
    BY <1>1, <2>2 DEF IsHandled
<1>4. ASSUME NEW f, NEW n, f = g, n = p
      PROVE  IsHandled(f, n)'
  <2>1. N + 1 \in 1..(N + 1)
    BY <1>1
  <2> QED
    BY <1>1, <1>4, <2>1 DEF IsHandled
<1> QED
  BY <1>2, <1>3, <1>4

(* What the change to the next log does.                                   *)
LEMMA SwitchIs ==
    ASSUME WatchTypeOK, OrderInv, Switch
    PROVE  /\ watched' = watched /\ disk' = disk /\ handled' = handled /\ clock' = clock
           /\ pos' = 0 /\ bytes' = 0 /\ pc = "loop" /\ pc' \in {"loop", "read"}
           /\ filename \in Logs /\ filename # LastLog /\ filename' \in Logs
           /\ Older(filename, filename') /\ currSize' = GetSize(filename')
           /\ nextFiles # <<>> /\ filename' = Head(nextFiles)
           /\ NextStart(filename) = Mesh(filename') /\ Mesh(filename') \in Nat
           /\ \A f \in Logs : Left(f)' <=> f = filename \/ Left(f)
           /\ FileIsDone
<1>1. /\ watched' = watched /\ disk' = disk /\ handled' = handled /\ clock' = clock
      /\ pos' = 0 /\ bytes' = 0 /\ pc = "loop" /\ pc' \in {"loop", "read"}
      /\ currSize' = GetSize(Head(nextFiles)) /\ filename' = Head(nextFiles)
      /\ nextFiles' = Tail(nextFiles) /\ nextFiles # <<>> /\ FileIsDone
  BY DEF Switch, ChangeFile, analyzerVars
<1>2. /\ filename # LastLog /\ Head(nextFiles) \in Logs /\ Older(filename, Head(nextFiles))
      /\ NextStart(filename) = Mesh(Head(nextFiles)) /\ NextStart(filename) \in Nat
  BY <1>1, NextFileIs
<1>3. filename \in Logs /\ watched \in Logged /\ nextFiles \in Seq(Logs)
  BY <1>1 DEF OrderInv, WatchTypeOK
<1>4. 0 \notin Logs
  <2>1. Logs = 1..Len(watched.logs)
    BY <1>3, WatchedIs
  <2> QED
    BY <2>1
<1> DEFINE n == Len(nextFiles)
           g == Head(nextFiles)
<1>5. /\ n \in Nat /\ n > 0 /\ 1 \in 1..n /\ DOMAIN nextFiles = 1..n /\ g = nextFiles[1]
      /\ DOMAIN nextFiles' = 1..(n - 1)
      /\ \A i \in 1..(n - 1) : nextFiles'[i] = nextFiles[i + 1] /\ i + 1 \in 1..n /\ 1 < i + 1
  <2>1. /\ Len(Tail(nextFiles)) = n - 1 /\ Tail(nextFiles) \in Seq(Logs)
        /\ \A i \in 1..(n - 1) : Tail(nextFiles)[i] = nextFiles[i + 1]
    BY <1>1, <1>3, HeadTailProperties
  <2> QED
    BY <1>1, <1>3, <2>1
<1> HIDE DEF n, g
<1>6. g \in Logs /\ Older(filename, g) /\ filename' = g /\ g # filename
  <2>1. g \in Logs /\ Older(filename, g) /\ filename' = g
    BY <1>1, <1>2 DEF g
  <2>2. ~Older(filename, filename)
    BY <1>3, OlderIs
  <2> QED
    BY <2>1, <2>2
<1>7. \A i \in 1..(n - 1) : nextFiles'[i] # g
  <2>1. \A i \in 1..(n - 1) : Older(g, nextFiles'[i])
    BY <1>1, <1>5 DEF OrderInv
  <2>2. ~Older(g, g)
    BY <1>3, <1>6, OlderIs
  <2> QED
    BY <2>1, <2>2
<1>8. \A i \in 1..n : nextFiles[i] # filename
  <2>1. \A i \in 1..n : Older(filename, nextFiles[i])
    BY <1>1, <1>5 DEF OrderInv
  <2>2. ~Older(filename, filename)
    BY <1>3, OlderIs
  <2> QED
    BY <2>1, <2>2
<1>9. ASSUME NEW f \in Logs
      PROVE  Left(f)' <=> f = filename \/ Left(f)
  <2>1. Left(f)' <=> f # g /\ \A i \in 1..(n - 1) : nextFiles'[i] # f
    BY <1>4, <1>5, <1>6 DEF Left
  <2>2. Left(f) <=> f # filename /\ \A i \in 1..n : nextFiles[i] # f
    BY <1>3, <1>4, <1>5 DEF Left
  <2>3. ASSUME f # g, \A i \in 1..(n - 1) : nextFiles'[i] # f, NEW i \in 1..n
        PROVE  nextFiles[i] # f
    <3>1. i # 1 => i - 1 \in 1..(n - 1) /\ (i - 1) + 1 = i
      BY <1>5
    <3> QED
      BY <1>5, <2>3, <3>1
  <2>4. ASSUME \A i \in 1..n : nextFiles[i] # f
        PROVE  f # g /\ \A i \in 1..(n - 1) : nextFiles'[i] # f
    BY <1>5, <2>4
  <2> QED
    BY <1>5, <1>6, <1>8, <2>1, <2>2, <2>3, <2>4
<1> QED
  BY <1>1, <1>2, <1>3, <1>9

(* Every step keeps what the watcher knows about the lines.                *)
LEMMA ReadStep ==
    ASSUME WatchTypeOK, OrderInv, ReadInv, [WatchNext]_watchVars
    PROVE  ReadInv'
<1>1. /\ watched \in Logged /\ disk \in Nat /\ pos \in Nat /\ bytes \in Nat
      /\ handled \in Seq(Logs \X (1..Lines))
      /\ DiskInv /\ FreshInv /\ OpenInv /\ HandledInv
  BY WatchedIs DEF WatchTypeOK, ReadInv
<1>2. LastLog \in Logs /\ Len(LinesOf(LastLog)) \in Nat /\ watched.written \in Nat
  <2>1. LastLog \in Logs /\ watched.written \in 0..Len(LinesOf(LastLog))
    BY <1>1, WatchedIs
  <2>2. Len(LinesOf(LastLog)) \in Nat
    BY <1>1, <2>1, LogIs
  <2> QED
    BY <2>1, <2>2
<1>3. ASSUME UNCHANGED <<watched, disk>>
      PROVE  DiskInv'
  BY <1>1, <1>3 DEF DiskInv, LinesOf, LastLog
<1>4. ASSUME UNCHANGED <<watched, filename, nextFiles, handled>>
      PROVE  HandledInv'
  BY <1>1, <1>4 DEF HandledInv, IsHandled, Left, Logs, LinesOf
<1>5. ASSUME UNCHANGED <<watched, filename, currSize, handled, pos, bytes>>,
             disk' \in Nat, disk' >= disk,
             Reading' => Reading /\ Done' = Done, pc' = "line" => pc = "line"
      PROVE  OpenInv'
  <2> SUFFICES ASSUME Reading'
               PROVE  OpenInv'
    BY DEF OpenInv
  <2>1. Reading /\ Done' = Done
    BY <1>5
  <2>2. OnDisk(filename)' >= OnDisk(filename) /\ OnDisk(filename) \in Nat
        /\ OnDisk(filename)' \in Nat
    <3>1. filename \in Logs
      BY <2>1 DEF OrderInv, Reading
    <3>2. Len(LinesOf(filename)) \in Nat
      BY <1>1, <3>1, LogIs
    <3> QED
      BY <1>1, <1>5, <3>2 DEF OnDisk, LinesOf
  <2>3. (pos <= OnDisk(filename))' /\ (pc = "line" => pos > 0)'
    BY <1>1, <1>5, <2>1, <2>2 DEF OpenInv
  <2>4. (bytes = Chars(filename, pos))'
        /\ (filename # LastLog => currSize = Bytes(filename, Len(LinesOf(filename))))'
    BY <1>1, <1>5, <2>1 DEF OpenInv, Chars, Bytes, LinesOf, LastLog
  <2>5. (\A n \in 1..Done : IsHandled(filename, n))'
        /\ (\A n : IsHandled(filename, n) => n <= Done)'
    BY <1>1, <1>5, <2>1 DEF OpenInv, IsHandled
  <2> QED
    BY <2>3, <2>4, <2>5 DEF OpenInv
<1>6. CASE Write
  <2>1. /\ disk < Len(LinesOf(LastLog)) /\ disk' = disk + 1
        /\ UNCHANGED <<watched, pc, filename, nextFiles, changeTimes, switchTime, currSize,
                       isTailing, pos, bytes, goOn, wasInterupted, clock, pressed, handled>>
    BY <1>6 DEF Write, fileVars, readerVars, analyzerVars, LastLog
  <2>2. DiskInv'
    BY <1>1, <1>2, <2>1 DEF DiskInv, LinesOf, LastLog
  <2>3. FreshInv'
    BY <1>1, <2>1 DEF FreshInv
  <2>4. OpenInv'
    <3>1. disk' \in Nat /\ disk' >= disk
      BY <1>1, <2>1
    <3>2. Reading' = Reading /\ Done' = Done
      BY <2>1 DEF Reading, Done
    <3> QED
      BY <1>5, <2>1, <3>1, <3>2
  <2> QED
    BY <1>4, <2>1, <2>2, <2>3, <2>4 DEF ReadInv
<1>7. CASE Construct
  <2>1. /\ UNCHANGED <<watched, disk, clock, pos, bytes, handled>>
        /\ pc = "construct" /\ pc' = "begin"
    BY <1>7 DEF Construct, readerVars, analyzerVars
  <2>2. FreshInv' /\ OpenInv'
    BY <1>1, <2>1 DEF FreshInv, OpenInv, Reading
  <2>3. HandledInv'
    BY <1>1, <2>1 DEF HandledInv, IsHandled, FreshInv
  <2> QED
    BY <1>3, <2>1, <2>2, <2>3 DEF ReadInv
<1>8. ASSUME NEW f \in Logs, UNCHANGED <<watched, disk, handled>>,
             filename' = f, pos' = 0, bytes' = 0,
             currSize' = GetSize(f), pc' \in {"loop", "read"}, \A n : ~IsHandled(f, n)
      PROVE  OpenInv'
  <2>1. Done' = 0
    BY <1>8 DEF Done
  <2>2. (\A n \in 1..Done : IsHandled(filename, n))'
        /\ (\A n : IsHandled(filename, n) => n <= Done)'
    BY <1>8, <2>1 DEF IsHandled
  <2>3. (bytes = Chars(filename, pos))'
    <3>1. Chars(f, 0) = 0
      BY <1>1, <1>8, SizesAre
    <3> QED
      BY <1>8, <3>1 DEF Chars, LinesOf
  <2>4. (filename # LastLog => currSize = Bytes(filename, Len(LinesOf(filename))))'
    <3>1. f # LastLog => GetSize(f) = Bytes(f, Len(LinesOf(f)))
      <4>1. f # LastLog => OnDisk(f) = Len(LinesOf(f))
        BY <1>8, OnDiskIs
      <4> QED
        BY <4>1, GetSizeIs
    <3> QED
      BY <1>8, <3>1 DEF Bytes, LinesOf, LastLog
  <2>5. (pos <= OnDisk(filename))'
    <3>1. OnDisk(f) \in 0..Len(LinesOf(f)) /\ Len(LinesOf(f)) \in Nat
      BY <1>1, <1>8, OnDiskIs, LogIs
    <3>2. OnDisk(f) >= 0
      BY <3>1
    <3> QED
      BY <1>8, <3>2 DEF OnDisk, LinesOf
  <2> QED
    BY <1>8, <2>2, <2>3, <2>4, <2>5 DEF OpenInv
<1>9. CASE Begin
  <2>1. /\ pc = "begin" /\ pc' = "loop" /\ ChangeFile(filename)
        /\ UNCHANGED <<watched, disk, nextFiles, bytes, clock, handled>>
    BY <1>9 DEF Begin, analyzerVars
  <2>2. filename' = filename /\ currSize' = GetSize(filename) /\ pos' = 0
    BY <2>1 DEF ChangeFile
  <2>3. FreshInv'
    BY <2>1 DEF FreshInv
  <2>4. OpenInv'
    <3>1. filename \in Logs
      BY <2>1 DEF OrderInv
    <3>2. bytes = 0 /\ \A n : ~IsHandled(filename, n)
      BY <1>1, <2>1 DEF FreshInv, IsHandled
    <3> QED
      BY <1>8, <2>1, <2>2, <3>1, <3>2
  <2> QED
    BY <1>3, <1>4, <2>1, <2>2, <2>3, <2>4 DEF ReadInv
<1>10. CASE Switch
  <2>1. /\ watched' = watched /\ disk' = disk /\ handled' = handled
        /\ pos' = 0 /\ bytes' = 0 /\ pc' \in {"loop", "read"}
        /\ filename \in Logs /\ filename' \in Logs
        /\ Older(filename, filename') /\ currSize' = GetSize(filename')
        /\ nextFiles # <<>> /\ filename' = Head(nextFiles)
        /\ \A f \in Logs : Left(f)' <=> f = filename \/ Left(f)
    BY <1>10, SwitchIs
  <2>2. FreshInv'
    BY <2>1 DEF FreshInv
  <2>3. OpenInv'
    <3> DEFINE g == Head(nextFiles)
    <3>1. \A n : ~IsHandled(g, n)
      <4>1. g # filename
        <5>1. ~Older(filename, filename)
          BY <1>1, <2>1, OlderIs
        <5> QED
          BY <2>1, <5>1
      <4>2. ~Left(g)
        <5>1. nextFiles \in Seq(Logs)
          BY DEF WatchTypeOK
        <5>2. 1 \in DOMAIN nextFiles /\ nextFiles[1] = g
          BY <2>1, <5>1
        <5> HIDE DEF g
        <5> QED
          BY <5>2 DEF Left
      <4> HIDE DEF g
      <4> QED
        BY <1>1, <4>1, <4>2 DEF HandledInv
    <3>2. g \in Logs /\ filename' = g /\ currSize' = GetSize(g)
      BY <2>1
    <3> HIDE DEF g
    <3> QED
      BY <1>8, <2>1, <3>1, <3>2
  <2>4. HandledInv'
    <3>1. /\ \A f, n : IsHandled(f, n)' <=> IsHandled(f, n)
          /\ \A f : LinesOf(f)' = LinesOf(f)
      BY <2>1, SameHandled, SameLogs
    <3>2. Logs' = Logs
      BY <2>1 DEF Logs
    <3>3. \A f, n : IsHandled(f, n)' =>
             f \in Logs' /\ n \in 1..Len(LinesOf(f)') /\ Left(f)'
      BY <1>1, <2>1, <3>1, <3>2 DEF HandledInv
    <3> QED
      BY <3>3 DEF HandledInv
  <2> QED
    BY <1>3, <2>1, <2>2, <2>3, <2>4 DEF ReadInv
<1>11. CASE Stay
  <2>1. /\ UNCHANGED <<watched, disk, filename, nextFiles, currSize, pos, bytes, clock, handled>>
        /\ pc = "loop" /\ pc' = "read"
    BY <1>11 DEF Stay, fileVars, readerVars, analyzerVars
  <2>2. FreshInv'
    BY <2>1 DEF FreshInv
  <2>3. Reading /\ Done' = Done
    BY <2>1 DEF Reading, Done
  <2>4. OpenInv'
    BY <1>1, <1>5, <2>1, <2>3
  <2> QED
    BY <1>3, <1>4, <2>1, <2>2, <2>4 DEF ReadInv
<1>12. CASE ReadLine
  <2>1. /\ UNCHANGED <<watched, disk, filename, nextFiles, currSize, clock, handled>>
        /\ pc = "read" /\ pc' = "line" /\ pos' = pos + 1 /\ pos < OnDisk(filename)
        /\ bytes' = bytes + LinesOf(filename)[pos + 1].chars
    BY <1>12 DEF ReadLine
  <2>2. FreshInv'
    BY <2>1 DEF FreshInv
  <2>3. filename \in Logs /\ Reading /\ Done = pos /\ Done' = pos
    BY <1>1, <2>1 DEF OrderInv, Reading, Done
  <2>4. Len(LinesOf(filename)) \in Nat /\ OnDisk(filename) \in 0..Len(LinesOf(filename))
    BY <1>1, <2>3, OnDiskIs, LogIs
  <2>5. pos \in 0..(Len(LinesOf(filename)) - 1) /\ pos + 1 <= OnDisk(filename)
    BY <1>1, <2>1, <2>4
  <2>6. (bytes = Chars(filename, pos))'
    <3>1. Chars(filename, pos + 1) = Chars(filename, pos) + LinesOf(filename)[pos + 1].chars
      BY <1>1, <2>3, <2>5, SizesAre
    <3>2. bytes' = Chars(filename, pos + 1)
      BY <1>1, <2>1, <2>3, <3>1 DEF OpenInv
    <3> QED
      BY <2>1, <3>2 DEF Chars, LinesOf
  <2>7. (filename # LastLog => currSize = Bytes(filename, Len(LinesOf(filename))))'
    BY <1>1, <2>1, <2>3 DEF OpenInv, Bytes, LinesOf, LastLog
  <2>8. (pos <= OnDisk(filename))' /\ (pc = "line" => pos > 0)'
    BY <1>1, <2>1, <2>5 DEF OnDisk, LinesOf
  <2>9. (\A n \in 1..Done : IsHandled(filename, n))'
        /\ (\A n : IsHandled(filename, n) => n <= Done)'
    BY <1>1, <2>1, <2>3 DEF OpenInv, IsHandled
  <2>10. OpenInv'
    BY <2>6, <2>7, <2>8, <2>9 DEF OpenInv
  <2> QED
    BY <1>3, <1>4, <2>1, <2>2, <2>10 DEF ReadInv
<1>13. CASE Handle
  <2>1. /\ UNCHANGED <<watched, disk, filename, nextFiles, currSize, pos, bytes>>
        /\ pc = "line" /\ pc' = "loop" /\ handled' = Append(handled, <<filename, pos>>)
    BY <1>13 DEF Handle, fileVars, readerVars
  <2>2. FreshInv'
    BY <2>1 DEF FreshInv
  <2>3. filename \in Logs /\ Reading /\ Done = pos - 1 /\ Done' = pos
    BY <1>1, <2>1 DEF OrderInv, Reading, Done
  <2>4. pos > 0 /\ pos <= OnDisk(filename)
    BY <1>1, <2>1, <2>3 DEF OpenInv
  <2>5. Len(LinesOf(filename)) \in 0..Lines /\ OnDisk(filename) \in 0..Len(LinesOf(filename))
        /\ Lines \in Nat
    BY <1>1, <2>3, OnDiskIs, LogIs, WatchedIs
  <2>6. pos \in 1..Len(LinesOf(filename)) /\ pos \in 1..Lines
    BY <1>1, <2>4, <2>5
  <2>7. \A f, n : IsHandled(f, n)' <=> IsHandled(f, n) \/ (f = filename /\ n = pos)
    <3> DEFINE S == Logs \X (1..Lines)
    <3>1. PICK g, p : g = filename /\ p = pos
      OBVIOUS
    <3>2. <<g, p>> \in S
      BY <2>3, <2>6, <3>1
    <3>3. handled \in Seq(S) /\ handled' = Append(handled, <<g, p>>)
      BY <1>1, <2>1, <3>1
    <3> HIDE DEF S
    <3>4. \A f, n : IsHandled(f, n)' <=> IsHandled(f, n) \/ (f = g /\ n = p)
      BY <3>2, <3>3, HandleIs
    <3> QED
      BY <3>1, <3>4
  <2>8. HandledInv'
    <3>1. \A f \in Logs : Left(f)' = Left(f)
      BY <2>1 DEF Left
    <3>2. \A f : LinesOf(f)' = LinesOf(f)
      BY <2>1, SameLogs
    <3>3. Logs' = Logs
      BY <2>1 DEF Logs
    <3>4. \A f, n : IsHandled(f, n)' =>
             /\ f \in Logs' /\ n \in 1..Len(LinesOf(f)')
             /\ f = filename' \/ Left(f)'
      BY <1>1, <2>1, <2>3, <2>6, <2>7, <3>1, <3>2, <3>3 DEF HandledInv
    <3> QED
      BY <3>4 DEF HandledInv
  <2>9. (\A n \in 1..Done : IsHandled(filename, n))'
        /\ (\A n : IsHandled(filename, n) => n <= Done)'
    <3>f. PICK f : f = filename
      OBVIOUS
    <3>1. \A n : IsHandled(f, n)' <=> IsHandled(f, n) \/ n = pos
      BY <2>7, <3>f
    <3>2. \A n \in 1..(pos - 1) : IsHandled(f, n)
      BY <1>1, <2>3, <3>f DEF OpenInv
    <3>3. \A n : IsHandled(f, n) => n <= pos - 1 /\ n \in Nat
      <4>1. \A n : IsHandled(f, n) => n \in 1..Len(LinesOf(f))
        BY <1>1 DEF HandledInv
      <4>2. \A n : IsHandled(f, n) => n <= pos - 1
        BY <1>1, <2>3, <3>f DEF OpenInv
      <4> QED
        BY <4>1, <4>2, <2>5, <3>f
    <3>4. \A n \in 1..pos : IsHandled(f, n)'
      <4>1. \A n \in 1..pos : n \in 1..(pos - 1) \/ n = pos
        BY <1>1
      <4> QED
        BY <3>1, <3>2, <4>1
    <3>5. \A n : IsHandled(f, n)' => n <= pos
      <4> SUFFICES ASSUME NEW n, IsHandled(f, n)'
                   PROVE  n <= pos
        OBVIOUS
      <4>1. CASE n = pos
        BY <1>1, <4>1
      <4>2. CASE IsHandled(f, n)
        <5>1. n <= pos - 1 /\ n \in Nat /\ pos \in Nat
          BY <1>1, <3>3, <4>2
        <5> QED
          BY <5>1
      <4> QED
        BY <3>1, <4>1, <4>2
    <3>6. filename' = filename
      BY <2>1
    <3> QED
      BY <2>3, <3>f, <3>4, <3>5, <3>6 DEF IsHandled
  <2>10. (bytes = Chars(filename, pos))'
    BY <1>1, <2>1, <2>3 DEF OpenInv, Chars, LinesOf
  <2>11. (filename # LastLog => currSize = Bytes(filename, Len(LinesOf(filename))))'
    BY <1>1, <2>1, <2>3 DEF OpenInv, Bytes, LinesOf, LastLog
  <2>12. (pos <= OnDisk(filename))' /\ (pc = "line" => pos > 0)'
    BY <2>1, <2>4 DEF OnDisk, LinesOf
  <2>13. OpenInv'
    BY <2>9, <2>10, <2>11, <2>12 DEF OpenInv
  <2> QED
    BY <1>3, <2>1, <2>2, <2>8, <2>13 DEF ReadInv
<1>14. CASE Quiet
  <2>1. UNCHANGED <<watched, disk, filename, nextFiles, currSize, pos, bytes, clock, handled>>
    BY <1>14 DEF Quiet
  <2>2. /\ pc' \in {"construct", "begin"} => pc' = pc
        /\ pc' = "line" => pc = "line"
        /\ Reading' => Reading /\ Done' = Done
    BY <1>14 DEF Quiet, Reading, Done
  <2>3. FreshInv'
    BY <1>1, <2>1, <2>2 DEF FreshInv
  <2>4. OpenInv'
    BY <1>1, <1>5, <2>1, <2>2
  <2> QED
    BY <1>3, <1>4, <2>1, <2>3, <2>4 DEF ReadInv
<1> QED
  BY StepIs, <1>6, <1>7, <1>9, <1>10, <1>11, <1>12, <1>13, <1>14

(* Every step keeps the order of the lines: the next one comes after the   *)
(* last one that was handled.                                              *)
LEMMA InOrderStep ==
    ASSUME WatchTypeOK, OrderInv, ReadInv, InOrderInv, [WatchNext]_watchVars
    PROVE  InOrderInv'
<1>1. /\ watched \in Logged /\ pos \in Nat /\ handled \in Seq(Logs \X (1..Lines))
      /\ FreshInv /\ OpenInv /\ LinesInOrder
  BY DEF WatchTypeOK, ReadInv, InOrderInv
<1>2. /\ Len(handled) \in Nat /\ DOMAIN handled = 1..Len(handled)
      /\ handled = <<>> <=> Len(handled) = 0
      /\ \A i \in 1..Len(handled) : handled[i] \in Logs \X (1..Lines)
  BY <1>1
<1>3. ASSUME UNCHANGED <<watched, handled>>
      PROVE  LinesInOrder'
  BY <1>1, <1>3 DEF LinesInOrder, Older
<1>4. ASSUME UNCHANGED <<watched, handled, filename, nextFiles>>,
             Reading' => Reading /\ Done' = Done
      PROVE  InOrderInv'
  BY <1>3, <1>4 DEF InOrderInv, Left
<1>5. CASE Write
  BY <1>4, <1>5 DEF Write, Reading, Done, fileVars, readerVars, analyzerVars
<1>6. CASE Construct
  <2>1. UNCHANGED <<watched, handled>> /\ ~Reading'
    BY <1>6 DEF Construct, Reading, analyzerVars
  <2> QED
    BY <1>3, <2>1 DEF InOrderInv
<1>7. CASE Begin
  <2>1. UNCHANGED <<watched, handled>> /\ handled = <<>> /\ Done' = 0
    BY <1>1, <1>7 DEF Begin, ChangeFile, Done, FreshInv, analyzerVars
  <2> QED
    BY <1>3, <2>1 DEF InOrderInv
<1>8. CASE Switch
  <2>1. /\ UNCHANGED <<watched, handled>> /\ Done' = 0 /\ Reading /\ filename \in Logs
        /\ \A f \in Logs : Left(f)' <=> f = filename \/ Left(f)
    BY <1>8, SwitchIs DEF Reading, Done
  <2>2. ASSUME handled # <<>>
        PROVE  Left(handled[Len(handled)][1])'
    <3>1. handled[Len(handled)][1] \in Logs
      BY <1>2, <2>2
    <3>2. \/ handled[Len(handled)] = <<filename, Done>>
          \/ Left(handled[Len(handled)][1])
      BY <2>1, <2>2 DEF InOrderInv
    <3> QED
      BY <2>1, <3>1, <3>2
  <2>3. (Left(handled[Len(handled)][1]))' <=> Left(handled[Len(handled)][1])'
    OBVIOUS
  <2> QED
    BY <1>3, <2>1, <2>2, <2>3 DEF InOrderInv
<1>9. CASE Stay
  BY <1>4, <1>9 DEF Stay, Reading, Done, fileVars, readerVars, analyzerVars
<1>10. CASE ReadLine
  <2>1. /\ UNCHANGED <<watched, handled, filename, nextFiles>>
        /\ pc = "read" /\ pc' = "line" /\ pos' = pos + 1
    BY <1>10 DEF ReadLine
  <2> QED
    BY <1>1, <1>4, <2>1 DEF Reading, Done
<1>11. CASE Handle
  <2>1. /\ pc = "line" /\ pc' = "loop"
        /\ UNCHANGED <<watched, filename, nextFiles, pos>>
        /\ handled' = Append(handled, <<filename, pos>>)
    BY <1>11 DEF Handle, fileVars, readerVars
  <2>2. pos > 0 /\ Reading /\ Done = pos - 1 /\ Done' = pos /\ filename \in Logs
    BY <1>1, <2>1 DEF OpenInv, OrderInv, Reading, Done
  <2> DEFINE N == Len(handled)
  <2>3. /\ Len(handled') = N + 1 /\ DOMAIN handled' = 1..(N + 1)
        /\ handled'[N + 1] = <<filename, pos>> /\ handled' # <<>>
        /\ \A i \in 1..N : handled'[i] = handled[i]
    BY <1>1, <2>1
  <2>4. ASSUME NEW i \in DOMAIN handled'
        PROVE  IF handled'[i][2] > 1
                 THEN i > 1 /\ handled'[i - 1] = <<handled'[i][1], handled'[i][2] - 1>>
                 ELSE i > 1 => Older(handled'[i - 1][1], handled'[i][1])
    <3>1. CASE i \in 1..N
      <4>1. i > 1 => i - 1 \in 1..N
        BY <1>2, <3>1
      <4>2. handled'[i] = handled[i] /\ (i > 1 => handled'[i - 1] = handled[i - 1])
        BY <2>3, <3>1, <4>1
      <4> QED
        BY <1>1, <1>2, <3>1, <4>2 DEF LinesInOrder
    <3>2. CASE i = N + 1
      <4>1. /\ handled'[i] = <<filename, pos>>
            /\ i > 1 => N \in 1..N /\ handled'[i - 1] = handled[N] /\ handled # <<>>
        BY <1>2, <2>3, <3>2
      <4>2. CASE pos > 1
        <5>1. handled # <<>> /\ handled[N] = <<filename, pos - 1>>
          BY <1>1, <2>2, <4>2 DEF InOrderInv
        <5>2. i > 1
          BY <1>2, <3>2, <5>1
        <5> QED
          BY <4>1, <4>2, <5>1, <5>2
      <4>3. CASE ~(pos > 1)
        <5>1. Done = 0
          BY <1>1, <2>2, <4>3
        <5>2. ASSUME i > 1
              PROVE  Older(handled[N][1], filename)
          <6>1. Left(handled[N][1])
            BY <2>2, <4>1, <5>1, <5>2 DEF InOrderInv
          <6>2. handled[N][1] \in Logs
            BY <1>2, <4>1, <5>2
          <6> QED
            BY <2>1, <6>1, <6>2 DEF OrderInv
        <5> QED
          BY <4>1, <4>3, <5>2
      <4> QED
        BY <4>2, <4>3
    <3> QED
      BY <1>2, <2>3, <3>1, <3>2
  <2>5. LinesInOrder'
    BY <2>1, <2>4 DEF LinesInOrder, Older
  <2>6. handled'[Len(handled')] = <<filename', Done'>>
    BY <2>1, <2>2, <2>3
  <2> HIDE DEF N
  <2> QED
    BY <1>1, <2>2, <2>3, <2>5, <2>6 DEF InOrderInv
<1>12. CASE Quiet
  BY <1>4, <1>12 DEF Quiet, Reading, Done
<1> QED
  BY StepIs, <1>5, <1>6, <1>7, <1>8, <1>9, <1>10, <1>11, <1>12
-------------------------------------------------------------------------
(* No line after the start of the next run is handled *)

(* What the watcher takes for the start of the next run is that of a run   *)
(* that began before the watcher was started.                              *)
LEMMA SwitchTimeIs ==
    ASSUME WatchTypeOK, OrderInv, StartsInv, Reading, filename # LastLog
    PROVE  /\ nextFiles # <<>> /\ filename \in Logs /\ NextStart(filename) \in Nat
           /\ switchTime \in {None, NextStart(filename)}
           /\ HasNext(filename) => switchTime = NextStart(filename)
<1> DEFINE g == Head(nextFiles)
<1>1. /\ nextFiles # <<>> /\ g \in Logs /\ filename \in Logs
      /\ NextStart(filename) = Mesh(g) /\ NextStart(filename) \in Nat
      /\ \A h \in Logs : Older(filename, h) => h = g \/ Older(g, h)
  <2>1. pc # "construct"
    BY DEF Reading
  <2>2. filename \in Logs
    BY <2>1 DEF OrderInv
  <2> QED
    BY <2>1, <2>2, NextFileIs
<1>2. IsStart(switchTime, g)
  BY <1>1 DEF StartsInv, Reading
<1> HIDE DEF g
<1>3. watched \in Logged
  BY DEF WatchTypeOK
<1>4. ASSUME HasNext(filename)
      PROVE  g = LastLog => watched.written > 0
  <2>1. PICK h \in Logs : Older(filename, h) /\ (h = LastLog => watched.written > 0)
    BY <1>4 DEF HasNext
  <2>2. ~Older(LastLog, h)
    <3>1. LastLog \in Logs
      BY <1>3, WatchedIs
    <3> QED
      BY <1>3, <2>1, <3>1, OlderIs
  <2> QED
    BY <1>1, <2>1, <2>2
<1>5. switchTime = Mesh(g) \/ (g = LastLog /\ watched.written = 0 /\ switchTime = None)
  BY <1>2 DEF IsStart
<1> QED
  BY <1>1, <1>4, <1>5

(* No line after the first one past the start is handled: Stay is not      *)
(* possible when the time is past switchTime.                              *)
LEMMA PastStep ==
    ASSUME WatchInv, [WatchNext]_watchVars
    PROVE  PastInv'
<1>1. /\ watched \in Logged /\ pos \in Nat /\ handled \in Seq(Logs \X (1..Lines))
      /\ WatchTypeOK /\ OrderInv /\ StartsInv /\ ReadInv /\ PastInv
      /\ FreshInv /\ OpenInv /\ HandledInv
  BY WatchedIs DEF WatchTypeOK, WatchInv, ReadInv
<1>2. ASSUME watched' = watched
      PROVE  /\ Logs' = Logs
             /\ \A f, n : IsPast(f, n)' <=> IsPast(f, n)
             /\ \A f : HasNext(f)' <=> HasNext(f)
             /\ \A f : LinesOf(f)' = LinesOf(f)
  BY <1>2, SameLogs DEF IsPast, Logs
<1>3. ASSUME watched' = watched, handled' = handled
      PROVE  \A f \in Logs' : HasNext(f)' =>
                \A n, m : IsHandled(f, n)' /\ IsHandled(f, m)' /\ IsPast(f, n)' => m <= n
  <2>1. \A f, n : IsHandled(f, n)' <=> IsHandled(f, n)
    BY <1>3, SameHandled
  <2> QED
    BY <1>1, <1>2, <1>3, <2>1 DEF PastInv
<1>4. ASSUME UNCHANGED <<watched, handled, clock>>,
             Reading' => Reading /\ filename' = filename /\ Done' = Done,
             Reading' => pc' = pc \/ pc = "read",
             pc' = "loop" => pos' = pos
      PROVE  PastInv'
  <2>1. \A f \in Logs' : Reading' /\ f = filename' /\ HasNext(f)' =>
           \A n \in 1..Done' : IsPast(f, n)' =>
              pc' = "loop" /\ n = pos' /\ clock' = LinesOf(f)'[n].time
    <3> SUFFICES ASSUME NEW f \in Logs', Reading', f = filename', HasNext(f)',
                        NEW n \in 1..Done', IsPast(f, n)'
                 PROVE  pc' = "loop" /\ n = pos' /\ clock' = LinesOf(f)'[n].time
      OBVIOUS
    <3>1. /\ f \in Logs /\ Reading /\ f = filename /\ HasNext(f) /\ n \in 1..Done
          /\ IsPast(f, n) /\ LinesOf(f)' = LinesOf(f)
      BY <1>2, <1>4
    <3>2. pc = "loop" /\ n = pos /\ clock = LinesOf(f)[n].time
      BY <1>1, <3>1 DEF PastInv
    <3> QED
      BY <1>4, <3>1, <3>2
  <2> QED
    BY <1>3, <1>4, <2>1 DEF PastInv
<1>5. ASSUME UNCHANGED <<watched, handled>>, Reading' => Done' = 0
      PROVE  PastInv'
  BY <1>3, <1>5 DEF PastInv
<1>6. CASE Write
  <2>1. UNCHANGED <<watched, handled, clock, pc, filename, pos>>
    BY <1>6 DEF Write, fileVars, readerVars, analyzerVars
  <2> QED
    BY <1>4, <2>1 DEF Reading, Done
<1>7. CASE Construct
  <2>1. UNCHANGED <<watched, handled>> /\ ~Reading'
    BY <1>7 DEF Construct, analyzerVars, Reading
  <2> QED
    BY <1>5, <2>1
<1>8. CASE Begin
  <2>1. UNCHANGED <<watched, handled>> /\ pos' = 0 /\ pc' = "loop"
    BY <1>8 DEF Begin, ChangeFile, analyzerVars
  <2> QED
    BY <1>5, <2>1 DEF Done
<1>9. CASE Switch
  <2>1. UNCHANGED <<watched, handled>> /\ pos' = 0 /\ pc' \in {"loop", "read"}
    BY <1>9 DEF Switch, ChangeFile, analyzerVars
  <2> QED
    BY <1>5, <2>1 DEF Done
<1>10. CASE Stay
  <2>1. /\ UNCHANGED <<watched, handled, clock, filename, pos>> /\ pc = "loop" /\ pc' = "read"
        /\ FileIsDone => nextFiles = <<>>
    BY <1>10 DEF Stay, fileVars, readerVars, analyzerVars
  <2>2. Reading /\ Done = pos /\ Done' = pos
    BY <2>1 DEF Reading, Done
  <2>3. ASSUME NEW f \in Logs, f = filename, HasNext(f), NEW n \in 1..pos, IsPast(f, n)
        PROVE  FALSE
    <3>1. n = pos /\ clock = LinesOf(f)[n].time
      BY <1>1, <2>2, <2>3 DEF PastInv
    <3>2. filename # LastLog
      <4>1. PICK g \in Logs : Older(f, g)
        BY <2>3 DEF HasNext
      <4> QED
        BY <1>1, <2>3, <4>1, OlderIs
    <3>3. nextFiles # <<>> /\ NextStart(f) \in Nat /\ switchTime = NextStart(f)
      BY <1>1, <2>2, <2>3, <3>2, SwitchTimeIs
    <3>4. n \in 1..Len(LinesOf(f))
      <4>1. IsHandled(filename, n)
        BY <1>1, <2>2, <2>3 DEF OpenInv
      <4> QED
        BY <1>1, <2>3, <4>1 DEF HandledInv
    <3>5. clock \in Nat \cup {None}
      BY <1>1 DEF WatchTypeOK
    <3>6. clock > switchTime
      BY <2>3, <3>1, <3>3 DEF IsPast
    <3>7. clock # None /\ switchTime # None
      BY <3>3, <3>5, <3>6 DEF None
    <3> QED
      BY <2>1, <3>3, <3>6, <3>7 DEF FileIsDone, IsPastTime
  <2>4. \A f \in Logs' : f = filename' /\ HasNext(f)' => \A n \in 1..Done' : ~IsPast(f, n)'
    BY <1>2, <2>1, <2>2, <2>3
  <2> QED
    BY <1>3, <2>1, <2>4 DEF PastInv
<1>11. CASE ReadLine
  <2>1. /\ UNCHANGED <<watched, handled, clock, filename>>
        /\ pc = "read" /\ pc' = "line" /\ pos' = pos + 1
    BY <1>11 DEF ReadLine
  <2>2. Reading /\ Done = pos /\ Done' = pos
    BY <1>1, <2>1 DEF Reading, Done
  <2> QED
    BY <1>4, <2>1, <2>2
<1>12. CASE Handle
  <2>1. /\ UNCHANGED <<watched, filename, pos>> /\ pc = "line" /\ pc' = "loop"
        /\ handled' = Append(handled, <<filename, pos>>)
        /\ clock' = IF LinesOf(filename)[pos].time = None THEN clock
                    ELSE LinesOf(filename)[pos].time
    BY <1>12 DEF Handle, fileVars, readerVars
  <2>2. Reading /\ Done = pos - 1 /\ Done' = pos
    BY <2>1 DEF Reading, Done
  <2>3. filename \in Logs
    BY <1>1, <2>1 DEF OrderInv
  <2>4. pos \in 1..Len(LinesOf(filename)) /\ pos \in 1..Lines
    <3>1. pos > 0 /\ pos <= OnDisk(filename)
      BY <1>1, <2>1, <2>2 DEF OpenInv
    <3>2. Len(LinesOf(filename)) \in 0..Lines /\ Lines \in Nat
          /\ OnDisk(filename) \in 0..Len(LinesOf(filename))
      BY <1>1, <2>3, OnDiskIs, LogIs, WatchedIs
    <3> QED
      BY <1>1, <3>1, <3>2
  <2>5. \A f, n : IsHandled(f, n)' <=> IsHandled(f, n) \/ (f = filename /\ n = pos)
    <3> DEFINE S == Logs \X (1..Lines)
    <3>1. PICK g, p : g = filename /\ p = pos
      OBVIOUS
    <3>2. <<g, p>> \in S
      BY <2>3, <2>4, <3>1
    <3>3. handled \in Seq(S) /\ handled' = Append(handled, <<g, p>>)
      BY <1>1, <2>1, <3>1
    <3> HIDE DEF S
    <3>4. \A f, n : IsHandled(f, n)' <=> IsHandled(f, n) \/ (f = g /\ n = p)
      BY <3>2, <3>3, HandleIs
    <3> QED
      BY <3>1, <3>4
  <2>6. ASSUME NEW f \in Logs, f = filename, HasNext(f), NEW n \in 1..pos, IsPast(f, n)
        PROVE  n = pos /\ clock' = LinesOf(f)[n].time
    <3>1. n = pos
      <4>1. ~(n \in 1..(pos - 1))
        BY <1>1, <2>1, <2>2, <2>6 DEF PastInv
      <4> QED
        BY <1>1, <4>1
    <3>2. LinesOf(f)[n].time # None
      <4>1. PICK g \in Logs : Older(f, g)
        BY <2>6 DEF HasNext
      <4>2. NextStart(f) \in Nat
        BY <1>1, <4>1, NextStartIs
      <4> QED
        BY <2>6, <4>2 DEF IsPast, None
    <3> QED
      BY <2>1, <2>6, <3>1, <3>2
  <2>7. \A f \in Logs' : Reading' /\ f = filename' /\ HasNext(f)' =>
           \A n \in 1..Done' : IsPast(f, n)' =>
              pc' = "loop" /\ n = pos' /\ clock' = LinesOf(f)'[n].time
    BY <1>2, <2>1, <2>2, <2>6
  <2>8. ASSUME NEW f \in Logs, HasNext(f), NEW n, NEW m, IsHandled(f, n)', IsHandled(f, m)',
               IsPast(f, n)
        PROVE  m <= n
    <3>1. CASE f # filename
      <4>1. IsHandled(f, n) /\ IsHandled(f, m)
        BY <2>5, <2>8, <3>1
      <4> QED
        BY <1>1, <2>8, <4>1 DEF PastInv
    <3>2. CASE f = filename
      <4>1. \A k : IsHandled(f, k)' => k \in 1..pos
        <5> SUFFICES ASSUME NEW k, IsHandled(f, k)'
                     PROVE  k \in 1..pos
          OBVIOUS
        <5>1. CASE k = pos
          BY <2>4, <5>1
        <5>2. CASE IsHandled(f, k)
          <6>1. k <= pos - 1
            BY <1>1, <2>2, <3>2, <5>2 DEF OpenInv
          <6>2. k \in 1..Len(LinesOf(f)) /\ Len(LinesOf(f)) \in Nat
            BY <1>1, <5>2, LogIs DEF HandledInv
          <6> QED
            BY <1>1, <6>1, <6>2
        <5> QED
          BY <2>5, <5>1, <5>2
      <4>2. n \in 1..pos /\ m \in 1..pos
        BY <2>8, <4>1
      <4>3. n = pos
        BY <2>6, <2>8, <3>2, <4>2
      <4> QED
        BY <1>1, <4>2, <4>3
    <3> QED
      BY <3>1, <3>2
  <2>9. \A f \in Logs' : HasNext(f)' =>
           \A n, m : IsHandled(f, n)' /\ IsHandled(f, m)' /\ IsPast(f, n)' => m <= n
    BY <1>2, <2>1, <2>8
  <2> QED
    BY <2>7, <2>9 DEF PastInv
<1>13. CASE Quiet
  <2>1. /\ UNCHANGED <<watched, handled, clock, filename, pos>>
        /\ Reading' => Reading /\ Done' = Done
        /\ Reading' => pc' = pc \/ pc = "read"
    BY <1>13 DEF Quiet, Reading, Done
  <2> QED
    BY <1>4, <2>1
<1> QED
  BY StepIs, <1>6, <1>7, <1>8, <1>9, <1>10, <1>11, <1>12, <1>13

(* Of the log that is left nothing after the last line that is needed was  *)
(* read.                                                                   *)
LEMMA LeftInTime ==
    ASSUME WatchInv, pc = "loop", filename # LastLog, HasNext(filename)
    PROVE  /\ filename \in Logs /\ pos \in 0..Len(LinesOf(filename))
           /\ pos <= LastNeeded(filename)
<1>1. PICK f : f = filename
  OBVIOUS
<1>2. /\ watched \in Logged /\ pos \in Nat /\ f \in Logs /\ Reading /\ Done = pos
      /\ WatchTypeOK /\ OrderInv /\ ReadInv /\ OpenInv /\ PastInv
  BY <1>1, WatchedIs DEF WatchTypeOK, WatchInv, ReadInv, OrderInv, Reading, Done
<1>3. PICK g \in Logs : Older(f, g)
  BY <1>1 DEF HasNext
<1>4. pos \in 0..Len(LinesOf(f))
  <2>1. OnDisk(f) \in 0..Len(LinesOf(f)) /\ Len(LinesOf(f)) \in Nat
    BY <1>2, OnDiskIs, LogIs
  <2>2. pos <= OnDisk(f)
    BY <1>1, <1>2 DEF OpenInv
  <2> QED
    BY <1>2, <2>1, <2>2
<1>5. \A m \in 1..(pos - 1) : ~(LinesOf(f)[m].time > NextStart(f))
  <2> SUFFICES ASSUME NEW m \in 1..(pos - 1), IsPast(f, m)
               PROVE  FALSE
    BY DEF IsPast
  <2>1. m \in 1..Done /\ m # pos
    BY <1>2
  <2> QED
    BY <1>1, <1>2, <2>1 DEF PastInv
<1>6. pos <= LastNeeded(f)
  BY <1>2, <1>3, <1>4, <1>5, LastNeededIs
<1> QED
  BY <1>1, <1>2, <1>4, <1>6

(* Hence the time of the analyzer is from a needed line.                   *)
LEMMA TimeStep ==
    ASSUME WatchInv, [WatchNext]_watchVars
    PROVE  WatchTimeInv'
<1>1. /\ watched \in Logged /\ pos \in Nat
      /\ WatchTypeOK /\ OrderInv /\ ReadInv /\ WatchTimeInv /\ FreshInv /\ OpenInv
  BY WatchedIs DEF WatchTypeOK, WatchInv, ReadInv
<1>2. ASSUME UNCHANGED <<watched, clock, filename, nextFiles>>,
             Reading' => Reading /\ Done' = Done
      PROVE  WatchTimeInv'
  <2> SUFFICES ASSUME Reading', filename' # LastLog'
               PROVE  \/ clock' = None
                      \/ \E n \in 1..Done' : ClockFrom(filename, n)'
                      \/ \E f \in Logs' :
                            f # LastLog' /\ Left(f)' /\ \E n \in 1..LastNeeded(f)' : ClockFrom(f, n)'
    BY DEF WatchTimeInv
  <2>1. /\ Reading /\ Done' = Done /\ filename # LastLog /\ LastLog' = LastLog /\ Logs' = Logs
        /\ \A f : LastNeeded(f)' = LastNeeded(f) /\ LinesOf(f)' = LinesOf(f)
        /\ \A f \in Logs : Left(f)' <=> Left(f)
    BY <1>2, SameLogs DEF LastLog, Logs, Left
  <2>2. \A f, n : ClockFrom(f, n)' <=> ClockFrom(f, n)
    BY <1>2, <2>1 DEF ClockFrom
  <2>3. \A n : ClockFrom(filename, n)' <=> ClockFrom(filename, n)
    BY <1>2 DEF ClockFrom, LinesOf
  <2> QED
    BY <1>1, <1>2, <2>1, <2>2, <2>3 DEF WatchTimeInv
<1>3. CASE Write
  <2>1. UNCHANGED <<watched, clock, pc, filename, nextFiles, pos>>
    BY <1>3 DEF Write, fileVars, readerVars, analyzerVars
  <2> QED
    BY <1>2, <2>1 DEF Reading, Done
<1>4. CASE Construct
  <2>1. ~Reading'
    BY <1>4 DEF Construct, Reading
  <2> QED
    BY <2>1 DEF WatchTimeInv
<1>5. CASE Begin
  <2>1. clock' = None
    BY <1>1, <1>5 DEF Begin, analyzerVars, FreshInv
  <2> QED
    BY <2>1 DEF WatchTimeInv
<1>6. CASE Switch
  <2> SUFFICES ASSUME filename' # LastLog'
               PROVE  \/ clock' = None
                      \/ \E f \in Logs' :
                            f # LastLog' /\ Left(f)' /\ \E n \in 1..LastNeeded(f)' : ClockFrom(f, n)'
    BY DEF WatchTimeInv
  <2>1. /\ watched' = watched /\ clock' = clock /\ pc = "loop"
        /\ filename \in Logs /\ filename # LastLog /\ filename' \in Logs
        /\ Older(filename, filename')
        /\ \A f \in Logs : Left(f)' <=> f = filename \/ Left(f)
    BY <1>1, <1>6, SwitchIs
  <2>2. /\ LastLog' = LastLog /\ Logs' = Logs
        /\ \A f : LastNeeded(f)' = LastNeeded(f) /\ LinesOf(f)' = LinesOf(f)
    BY <2>1, SameLogs DEF LastLog, Logs
  <2>3. \A f, n : ClockFrom(f, n)' <=> ClockFrom(f, n)
    BY <2>1, <2>2 DEF ClockFrom
  <2>4. \/ clock = None
        \/ \E n \in 1..pos : ClockFrom(filename, n)
        \/ \E f \in Logs :
              f # LastLog /\ Left(f) /\ \E n \in 1..LastNeeded(f) : ClockFrom(f, n)
    BY <1>1, <2>1 DEF WatchTimeInv, Reading, Done
  <2>5. CASE clock = None
    BY <2>1, <2>5
  <2>6. CASE \E n \in 1..pos : ClockFrom(filename, n)
    <3>1. PICK f : f = filename
      OBVIOUS
    <3>2. HasNext(filename)
      <4>1. filename' # LastLog
        BY <2>2
      <4> QED
        BY <2>1, <4>1 DEF HasNext
    <3>3. pos <= LastNeeded(f) /\ pos \in 0..Len(LinesOf(f))
      BY <2>1, <3>1, <3>2, LeftInTime
    <3>4. LastNeeded(f) \in 0..Len(LinesOf(f)) /\ Len(LinesOf(f)) \in Nat
      <4>1. PICK g \in Logs : Older(f, g)
        BY <2>1, <3>1
      <4>2. f \in Logs
        BY <2>1, <3>1
      <4> QED
        BY <1>1, <4>1, <4>2, LastNeededIs, LogIs
    <3>5. PICK n \in 1..pos : ClockFrom(f, n)
      BY <2>6, <3>1
    <3>6. n \in 1..LastNeeded(f)
      BY <3>3, <3>4, <3>5
    <3> QED
      BY <2>1, <2>2, <2>3, <3>1, <3>5, <3>6
  <2>7. CASE \E f \in Logs :
                f # LastLog /\ Left(f) /\ \E n \in 1..LastNeeded(f) : ClockFrom(f, n)
    BY <2>1, <2>2, <2>3, <2>7
  <2> QED
    BY <2>4, <2>5, <2>6, <2>7
<1>7. CASE Stay
  <2>1. UNCHANGED <<watched, clock, filename, nextFiles, pos>> /\ pc = "loop" /\ pc' = "read"
    BY <1>7 DEF Stay, fileVars, readerVars, analyzerVars
  <2> QED
    BY <1>2, <2>1 DEF Reading, Done
<1>8. CASE ReadLine
  <2>1. /\ UNCHANGED <<watched, clock, filename, nextFiles>>
        /\ pc = "read" /\ pc' = "line" /\ pos' = pos + 1
    BY <1>8 DEF ReadLine
  <2>2. Reading /\ Done = pos /\ Done' = pos
    BY <1>1, <2>1 DEF Reading, Done
  <2> QED
    BY <1>2, <2>1, <2>2
<1>9. CASE Handle
  <2>1. /\ UNCHANGED <<watched, filename, nextFiles, pos>> /\ pc = "line" /\ pc' = "loop"
        /\ clock' = IF LinesOf(filename)[pos].time = None THEN clock
                    ELSE LinesOf(filename)[pos].time
    BY <1>9 DEF Handle, fileVars, readerVars
  <2>2. CASE clock' = clock
    <3> SUFFICES ASSUME filename' # LastLog'
                 PROVE  \/ clock' = None
                        \/ \E n \in 1..pos : ClockFrom(filename, n)'
                        \/ \E f \in Logs' :
                              f # LastLog' /\ Left(f)' /\ \E n \in 1..LastNeeded(f)' : ClockFrom(f, n)'
      BY <2>1 DEF WatchTimeInv, Done
    <3>1. /\ Reading /\ Done = pos - 1 /\ filename # LastLog
          /\ LastLog' = LastLog /\ Logs' = Logs
          /\ \A f : LastNeeded(f)' = LastNeeded(f) /\ LinesOf(f)' = LinesOf(f)
          /\ \A f \in Logs : Left(f)' <=> Left(f)
      BY <2>1, SameLogs DEF LastLog, Logs, Left, Reading, Done
    <3>2. \A f, n : ClockFrom(f, n)' <=> ClockFrom(f, n)
      BY <2>2, <3>1 DEF ClockFrom
    <3>3. \A n : ClockFrom(filename, n)' <=> ClockFrom(filename, n)
      BY <2>1, <2>2 DEF ClockFrom, LinesOf
    <3>4. \A n \in 1..(pos - 1) : n \in 1..pos
      BY <1>1
    <3> QED
      BY <1>1, <2>2, <3>1, <3>2, <3>3, <3>4 DEF WatchTimeInv
  <2>3. CASE clock' # clock
    <3>1. clock' = LinesOf(filename)[pos].time
      BY <2>1, <2>3
    <3>2. pos \in 1..pos /\ Done' = pos
      <4>1. pos > 0
        BY <1>1, <2>1 DEF OpenInv, Reading
      <4> QED
        BY <1>1, <2>1, <4>1 DEF Done
    <3>3. \E n \in 1..Done' : ClockFrom(filename, n)'
      BY <2>1, <3>1, <3>2 DEF ClockFrom, LinesOf
    <3> QED
      BY <3>3 DEF WatchTimeInv
  <2> QED
    BY <2>2, <2>3
<1>10. CASE Quiet
  <2>1. Reading' => Reading /\ Done' = Done
    BY <1>10 DEF Quiet, Reading, Done
  <2>2. UNCHANGED <<watched, clock, filename, nextFiles>>
    BY <1>10 DEF Quiet
  <2> QED
    BY <1>2, <2>1, <2>2
<1> QED
  BY StepIs, <1>3, <1>4, <1>5, <1>6, <1>7, <1>8, <1>9, <1>10
-------------------------------------------------------------------------
(* No line that is needed is missing *)

(* A log that is left was read up to the last line that is needed: at its  *)
(* end because there are as many characters as bytes (Plain), and before   *)
(* only if a line of this log is past the start of the next one (StepsFit).*)
LEMMA ReadEnough ==
    ASSUME WatchInv, Plain, StepsFit, pc = "loop",
           filename # LastLog, FileIsDone
    PROVE  LastNeeded(filename) <= pos
<1>1. PICK f : f = filename
  OBVIOUS
<1>2. /\ watched \in Logged /\ f \in Logs /\ Reading /\ Done = pos /\ pos \in Nat
      /\ clock \in Nat \cup {None}
      /\ WatchTypeOK /\ OrderInv /\ StartsInv /\ ReadInv /\ OpenInv /\ WatchTimeInv
  BY <1>1, WatchedIs DEF WatchTypeOK, WatchInv, ReadInv, OrderInv, Reading, Done
<1>3. PICK g \in Logs : Older(f, g)
  <2>1. LastLog \in Logs
    BY <1>2, WatchedIs
  <2> QED
    BY <1>1, <1>2, <2>1, OlderIs
<1>4. /\ Len(LinesOf(f)) \in Nat /\ pos <= Len(LinesOf(f))
      /\ LastNeeded(f) \in 0..Len(LinesOf(f))
  <2>1. OnDisk(f) \in 0..Len(LinesOf(f)) /\ Len(LinesOf(f)) \in Nat
    BY <1>2, OnDiskIs, LogIs
  <2>2. pos <= OnDisk(f)
    BY <1>1, <1>2 DEF OpenInv
  <2>3. LastNeeded(f) \in 0..Len(LinesOf(f))
    BY <1>2, <1>3, LastNeededIs
  <2> QED
    BY <1>2, <2>1, <2>2, <2>3
<1>5. CASE ~(currSize > bytes)
  <2>1. currSize = Bytes(f, Len(LinesOf(f))) /\ bytes = Chars(f, pos)
    BY <1>1, <1>2 DEF OpenInv
  <2>2. Chars(f, pos) = Bytes(f, pos)
    <3> DEFINE B == [n \in 1..pos |-> LinesOf(f)[n].bytes]
               C == [n \in 1..pos |-> LinesOf(f)[n].chars]
    <3>1. \A n \in 1..pos : LinesOf(f)[n].bytes = LinesOf(f)[n].chars
      <4>1. DOMAIN LinesOf(f) = 1..Len(LinesOf(f))
        BY <1>2, LogIs
      <4>2. \A n \in 1..pos : n \in DOMAIN LinesOf(f)
        BY <1>2, <1>4, <4>1
      <4> QED
        BY <1>2, <4>2 DEF Plain
    <3>2. B = C
      BY <3>1
    <3> QED
      BY <3>2 DEF Chars, Bytes, CharsOf, BytesOf
  <2>3. pos \in 0..Len(LinesOf(f))
    BY <1>2, <1>4
  <2>4. pos < Len(LinesOf(f)) => Bytes(f, pos) < Bytes(f, Len(LinesOf(f)))
    BY <1>2, <2>3, MoreIsLarger
  <2>5. pos = Len(LinesOf(f))
    BY <1>2, <1>4, <1>5, <2>1, <2>2, <2>4
  <2> QED
    BY <1>1, <1>4, <2>5
<1>6. CASE IsPastTime(switchTime)
  <2>1. clock \in Nat /\ switchTime # None /\ clock > switchTime
    BY <1>2, <1>6 DEF IsPastTime
  <2>2. clock > NextStart(f) /\ NextStart(f) \in Nat
    <3>1. switchTime \in {None, NextStart(filename)} /\ NextStart(filename) \in Nat
      BY <1>2, SwitchTimeIs
    <3> QED
      BY <1>1, <2>1, <3>1
  <2>3. clock # None
    BY <1>6 DEF IsPastTime
  <2>4. CASE \E n \in 1..Done : ClockFrom(filename, n)
    <3>1. PICK n \in 1..pos : clock = LinesOf(f)[n].time
      BY <1>1, <1>2, <2>4 DEF ClockFrom
    <3>2. n \in 1..Len(LinesOf(f))
      BY <1>2, <1>4, <3>1
    <3>3. LastNeeded(f) <= n
      BY <1>2, <1>3, <2>2, <3>1, <3>2, LastNeededIs
    <3> QED
      BY <1>1, <1>2, <1>4, <3>1, <3>3
  <2>5. CASE \E h \in Logs :
                h # LastLog /\ Left(h) /\ \E n \in 1..LastNeeded(h) : ClockFrom(h, n)
    <3>1. PICK h \in Logs : h # LastLog /\ Left(h) /\ \E n \in 1..LastNeeded(h) : ClockFrom(h, n)
      BY <2>5
    <3>2. PICK n \in 1..LastNeeded(h) : clock = LinesOf(h)[n].time
      BY <3>1 DEF ClockFrom
    <3>3. Older(h, f)
      BY <1>1, <1>2, <3>1 DEF OrderInv, Reading
    <3>4. LinesOf(h)[n].time <= NextStart(f)
      BY <1>1, <1>2, <3>1, <3>2, <3>3 DEF StepsFit, LastLog
    <3> QED
      BY <2>1, <2>2, <3>2, <3>4
  <2> QED
    BY <1>2, <2>3, <2>4, <2>5 DEF WatchTimeInv
<1> QED
  BY <1>5, <1>6 DEF FileIsDone

(* Hence no needed line of a log that is left is missing.                  *)
LEMMA MissStep ==
    ASSUME WatchInv, [WatchNext]_watchVars
    PROVE  NothingMissing'
<1>1. /\ watched \in Logged /\ pos \in Nat /\ nextFiles \in Seq(Logs)
      /\ handled \in Seq(Logs \X (1..Lines))
      /\ WatchTypeOK /\ OrderInv /\ ReadInv /\ NothingMissing /\ FreshInv /\ OpenInv
  BY WatchedIs DEF WatchTypeOK, WatchInv, ReadInv
<1>2. NothingMissing <=>
        (Plain /\ StepsFit =>
           \A f \in Logs : f # LastLog /\ Left(f) =>
              \A n \in 1..LastNeeded(f) : IsHandled(f, n))
  BY DEF NothingMissing, IsHandled, LastLog
<1>3. ASSUME watched' = watched,
             Plain /\ StepsFit =>
               \A f \in Logs : f # LastLog /\ Left(f)' =>
                  \A n \in 1..LastNeeded(f) : IsHandled(f, n)'
      PROVE  NothingMissing'
  <2>1. /\ Logs' = Logs /\ LastLog' = LastLog
        /\ \A f : /\ LinesOf(f)' = LinesOf(f) /\ LastNeeded(f)' = LastNeeded(f)
                  /\ NextStart(f)' = NextStart(f)
    BY <1>3, SameLogs DEF Logs, LastLog
  <2>2. Plain' => Plain
    BY <2>1 DEF Plain
  <2>3. StepsFit' => StepsFit
    <3>1. \A f, g : Older(f, g)' <=> Older(f, g)
      BY <1>3 DEF Older
    <3>2. StepsFit' <=>
             \A f, g \in Logs' \ {LastLog'} :
                Older(f, g)' => \A n \in 1..LastNeeded(f)' :
                           LinesOf(f)'[n].time <= NextStart(g)'
      BY DEF StepsFit, LastLog
    <3>3. StepsFit <=>
             \A f, g \in Logs \ {LastLog} :
                Older(f, g) => \A n \in 1..LastNeeded(f) :
                           LinesOf(f)[n].time <= NextStart(g)
      BY DEF StepsFit, LastLog
    <3> QED
      BY <2>1, <3>1, <3>2, <3>3
  <2>4. NothingMissing' <=>
        (Plain' /\ StepsFit' =>
           \A f \in Logs' : f # LastLog' /\ Left(f)' =>
              \A n \in 1..LastNeeded(f)' : IsHandled(f, n)')
    BY DEF NothingMissing, IsHandled, LastLog
  <2> QED
    BY <1>3, <2>1, <2>2, <2>3, <2>4
<1>4. ASSUME UNCHANGED <<watched, filename, nextFiles, handled>>
      PROVE  NothingMissing'
  <2>1. \A f, n : IsHandled(f, n)' <=> IsHandled(f, n)
    BY <1>4, SameHandled
  <2>2. \A f : Left(f)' <=> Left(f)
    BY <1>4 DEF Left
  <2> QED
    BY <1>1, <1>2, <1>3, <1>4, <2>1, <2>2
<1>5. CASE Write
  BY <1>4, <1>5 DEF Write, fileVars, analyzerVars
<1>6. CASE Construct
  <2>1. PICK logs \in Bijection(Logs, Logs) :
           filename' = logs[1] /\ nextFiles' = Tail(logs) /\ watched' = watched
    BY <1>6 DEF Construct
  <2> DEFINE N == Len(watched.logs)
  <2>2. Logs = 1..N /\ N \in Nat /\ N > 0
    BY <1>1, WatchedIs
  <2>3. logs \in [Logs -> Logs] /\ \A f \in Logs : \E i \in Logs : logs[i] = f
    BY BijectionIs
  <2> HIDE DEF N
  <2>4. logs \in Seq(Logs) /\ Len(logs) = N /\ logs # <<>>
    <3>1. logs \in [1..N -> Logs]
      BY <2>2, <2>3
    <3> QED
      BY <2>2, <3>1, ListIs
  <2>5. /\ nextFiles' \in Seq(Logs) /\ DOMAIN nextFiles' = 1..(N - 1)
        /\ \A i \in 1..(N - 1) : nextFiles'[i] = logs[i + 1]
    <3>1. /\ Tail(logs) \in Seq(Logs) /\ Len(Tail(logs)) = N - 1
          /\ \A i \in 1..(N - 1) : Tail(logs)[i] = logs[i + 1]
      BY <2>4, HeadTailProperties
    <3> QED
      BY <2>1, <3>1
  <2>6. \A f \in Logs : ~Left(f)'
    <3> SUFFICES ASSUME NEW f \in Logs, f # filename', \A i \in 1..(N - 1) : nextFiles'[i] # f
                 PROVE  FALSE
      BY <2>5 DEF Left
    <3>1. PICK k \in Logs : logs[k] = f
      BY <2>3
    <3>2. k # 1 => k - 1 \in 1..(N - 1) /\ (k - 1) + 1 = k
      BY <2>2
    <3> QED
      BY <2>1, <2>5, <3>1, <3>2
  <2> QED
    BY <1>3, <2>1, <2>6
<1>7. CASE Begin
  BY <1>4, <1>7 DEF Begin, ChangeFile, analyzerVars
<1>8. CASE Switch
  <2>1. /\ watched' = watched /\ handled' = handled /\ pc = "loop"
        /\ filename \in Logs /\ filename # LastLog /\ FileIsDone
        /\ \A f \in Logs : Left(f)' <=> f = filename \/ Left(f)
    BY <1>1, <1>8, SwitchIs
  <2>2. \A f, n : IsHandled(f, n)' <=> IsHandled(f, n)
    BY <2>1, SameHandled
  <2>3. ASSUME Plain, StepsFit, NEW f \in Logs, f = filename, NEW n \in 1..LastNeeded(f)
        PROVE  IsHandled(f, n)
    <3>1. LastNeeded(f) <= pos
      BY <2>1, <2>3, ReadEnough
    <3>2. LastNeeded(f) \in Nat
      <4>1. LastLog \in Logs
        BY <1>1, WatchedIs
      <4>2. Older(f, LastLog)
        BY <1>1, <2>1, <2>3, <4>1, OlderIs
      <4>3. LastNeeded(f) \in 0..Len(LinesOf(f)) /\ Len(LinesOf(f)) \in Nat
        BY <1>1, <4>1, <4>2, LastNeededIs, LogIs
      <4> QED
        BY <4>3
    <3>3. n \in 1..Done
      BY <1>1, <2>1, <3>1, <3>2 DEF Done
    <3> QED
      BY <1>1, <2>1, <2>3, <3>3 DEF OpenInv, Reading
  <2> QED
    BY <1>1, <1>2, <1>3, <2>1, <2>2, <2>3
<1>9. CASE Stay
  BY <1>4, <1>9 DEF Stay, fileVars, analyzerVars
<1>10. CASE ReadLine
  BY <1>4, <1>10 DEF ReadLine
<1>11. CASE Handle
  <2>1. /\ UNCHANGED <<watched, filename, nextFiles, pos>> /\ pc = "line"
        /\ handled' = Append(handled, <<filename, pos>>)
    BY <1>11 DEF Handle, fileVars, readerVars
  <2>2. \A f, n : IsHandled(f, n) => IsHandled(f, n)'
    <3> SUFFICES ASSUME NEW f, NEW n, IsHandled(f, n)
                 PROVE  IsHandled(f, n)'
      OBVIOUS
    <3>1. PICK i \in DOMAIN handled : handled[i] = <<f, n>>
      BY DEF IsHandled
    <3>2. i \in DOMAIN handled' /\ handled'[i] = handled[i]
      BY <1>1, <2>1, <3>1
    <3> QED
      BY <3>1, <3>2 DEF IsHandled
  <2>3. \A f : Left(f)' <=> Left(f)
    BY <2>1 DEF Left
  <2> QED
    BY <1>1, <1>2, <1>3, <2>1, <2>2, <2>3
<1>12. CASE Quiet
  BY <1>4, <1>12 DEF Quiet
<1> QED
  BY StepIs, <1>5, <1>6, <1>7, <1>8, <1>9, <1>10, <1>11, <1>12

(* Every step keeps the inductive invariant.                               *)
LEMMA WatchInvNext ==
    ASSUME WatchInv, [WatchNext]_watchVars
    PROVE  WatchInv'
<1>1. /\ WatchTypeOK /\ OrderInv /\ StartsInv /\ ReadInv /\ PastInv /\ WatchTimeInv
      /\ NothingMissing /\ InOrderInv
  BY DEF WatchInv
<1>2. WatchTypeOK'
  BY <1>1, TypeStep
<1>3. OrderInv'
  BY OrderStep
<1>4. StartsInv'
  BY StartsStep
<1>5. ReadInv'
  BY <1>1, ReadStep
<1>6. PastInv'
  BY PastStep
<1>7. WatchTimeInv'
  BY TimeStep
<1>8. NothingMissing'
  BY MissStep
<1>9. InOrderInv'
  BY <1>1, InOrderStep
<1> QED
  BY <1>2, <1>3, <1>4, <1>5, <1>6, <1>7, <1>8, <1>9 DEF WatchInv
-------------------------------------------------------------------------
(* The theorems about the watcher *)

(* Of two logs at most one time is handled from both, that of the last line*)
(* that was handled of the older one.                                      *)
LEMMA Overlap ==
    ASSUME WatchInv
    PROVE  NoOverlap
<1> SUFFICES ASSUME watched.written > 0, NEW f \in Logs, NEW g \in Logs, f # g,
                    NEW t \in TimesHandled(f) \cap TimesHandled(g),
                    NEW u \in TimesHandled(f) \cap TimesHandled(g)
             PROVE  t = u
  BY DEF NoOverlap
<1>1. watched \in Logged /\ PastInv /\ HandledInv
  BY DEF WatchInv, ReadInv, WatchTypeOK
<1>2. ASSUME NEW h \in Logs, NEW x \in TimesHandled(h)
      PROVE  \E n : /\ IsHandled(h, n) /\ x = LinesOf(h)[n].time
                    /\ n \in 1..Len(LinesOf(h)) /\ x > Mesh(h) /\ x \in Nat
  <2>1. PICK i \in DOMAIN handled : /\ handled[i][1] = h
                                    /\ x = LinesOf(h)[handled[i][2]].time /\ x # None
    BY <1>2 DEF TimesHandled
  <2>2. PICK n : n = handled[i][2]
    OBVIOUS
  <2>3. IsHandled(h, n)
    <3>1. handled \in Seq(Logs \X (1..Lines))
      BY DEF WatchInv, WatchTypeOK
    <3>2. handled[i] \in Logs \X (1..Lines)
      BY <3>1
    <3>3. handled[i] = <<h, n>>
      BY <2>1, <2>2, <3>2
    <3> QED
      BY <3>3 DEF IsHandled
  <2>4. n \in 1..Len(LinesOf(h))
    BY <1>1, <2>3 DEF HandledInv
  <2>5. x > Mesh(h) /\ x \in Nat
    BY <1>1, <2>1, <2>2, <2>4, LogIs
  <2> QED
    BY <2>1, <2>2, <2>3, <2>4, <2>5
<1>3. ASSUME NEW h \in Logs, NEW k \in Logs, Older(h, k),
             NEW x \in TimesHandled(h) \cap TimesHandled(k),
             NEW y \in TimesHandled(h) \cap TimesHandled(k)
      PROVE  x = y
  <2>1. PICK n : /\ IsHandled(h, n) /\ x = LinesOf(h)[n].time
                  /\ n \in 1..Len(LinesOf(h)) /\ x \in Nat
    BY <1>2, <1>3
  <2>2. PICK m : /\ IsHandled(h, m) /\ y = LinesOf(h)[m].time
                  /\ m \in 1..Len(LinesOf(h)) /\ y \in Nat
    BY <1>2, <1>3
  <2>3. x > Mesh(k) /\ y > Mesh(k)
    BY <1>2, <1>3
  <2>4. NextStart(h) \in Nat /\ NextStart(h) <= Mesh(k) /\ Mesh(k) \in Nat
    BY <1>1, <1>3, NextStartIs, OlderIs
  <2>5. IsPast(h, n) /\ IsPast(h, m)
    BY <2>1, <2>2, <2>3, <2>4 DEF IsPast
  <2>6. HasNext(h)
    BY <1>3 DEF HasNext
  <2>7. m <= n /\ n <= m
    BY <1>1, <2>1, <2>2, <2>5, <2>6 DEF PastInv
  <2>8. n \in Nat /\ m \in Nat
    BY <1>1, <1>3, <2>1, <2>2, LogIs
  <2>9. n = m
    BY <2>7, <2>8
  <2> QED
    BY <2>1, <2>2, <2>9
<1>4. Older(f, g) \/ Older(g, f)
  BY <1>1, OlderIs
<1> QED
  BY <1>3, <1>4

(* Concatenated: the analyzers get the lines of the runs in the order of   *)
(* the runs, those of a log from its first on and without a gap; of a log  *)
(* that was left none that is needed is missing, if every character takes a*)
(* byte (Plain) and no run steps past two later starts at once (StepsFit); *)
(* and of two runs they get at most one time from both, unless the last log*)
(* was empty when the watcher was started. This for any number of logs in  *)
(* any order of the files, whenever the last log grows and Ctrl-C is       *)
(* pressed (BasicWatcher.start and LineReader.read).                       *)
THEOREM SpecConcatenated == WatchSpec => []Concatenated
<1>1. WatchInit => WatchInv
  BY WatchInvInit
<1>2. WatchInv /\ [WatchNext]_watchVars => WatchInv'
  BY WatchInvNext
<1>3. WatchInv => Concatenated
  <2> SUFFICES ASSUME WatchInv
               PROVE  Concatenated
    OBVIOUS
  <2>1. NoOverlap
    BY Overlap
  <2> QED
    BY <2>1 DEF WatchInv, InOrderInv, Concatenated
<1> QED
  BY <1>1, <1>2, <1>3, PTL DEF WatchSpec

(* Of a log that is watched calmly as many lines were handled as were read.*)
CalmInv == Calm /\ Reading => Len(handled) = Done

(* There is no other log to change to.                                     *)
LEMMA CalmIs ==
    ASSUME WatchInv, Calm
    PROVE  /\ pc # "construct" => filename = LastLog
           /\ ~Switch
<1>1. watched \in Logged /\ OrderInv /\ WatchTypeOK
  BY DEF WatchInv, WatchTypeOK
<1>2. Logs = 1..1 /\ LastLog \in Logs
  BY <1>1, WatchedIs DEF Calm
<1>3. \A f \in Logs : f = LastLog
  BY <1>2
<1>4. pc # "construct" => filename = LastLog
  BY <1>1, <1>3 DEF OrderInv
<1>5. Switch => filename # LastLog /\ pc = "loop"
  BY <1>1, SwitchIs
<1> QED
  BY <1>4, <1>5

(* Every step keeps this.                                                  *)
LEMMA CalmStep ==
    ASSUME WatchInv, CalmInv, [WatchNext]_watchVars
    PROVE  CalmInv'
<1>1. /\ watched \in Logged /\ pos \in Nat /\ handled \in Seq(Logs \X (1..Lines)) /\ FreshInv
  BY WatchedIs DEF WatchTypeOK, WatchInv, ReadInv
<1>2. ASSUME watched' = watched, Calm /\ Reading' => Len(handled') = Done'
      PROVE  CalmInv'
  BY <1>2 DEF CalmInv, Calm
<1>3. ASSUME watched' = watched, handled' = handled, Reading' => Reading /\ Done' = Done
      PROVE  CalmInv'
  BY <1>2, <1>3 DEF CalmInv
<1>4. CASE Write
  BY <1>3, <1>4 DEF Write, readerVars, analyzerVars, Reading, Done
<1>5. CASE Construct
  BY <1>2, <1>5 DEF Construct, Reading
<1>6. CASE Begin
  <2>1. /\ watched' = watched /\ handled' = handled /\ pc = "begin" /\ pc' = "loop" /\ pos' = 0
    BY <1>6 DEF Begin, ChangeFile, analyzerVars
  <2>2. handled' = <<>> /\ Done' = 0
    BY <1>1, <2>1 DEF FreshInv, Done
  <2> QED
    BY <1>2, <2>1, <2>2
<1>7. CASE Switch
  <2>1. watched' = watched /\ ~Calm
    BY <1>7, CalmIs DEF Switch
  <2> QED
    BY <1>2, <2>1
<1>8. CASE Stay
  BY <1>3, <1>8 DEF Stay, fileVars, readerVars, analyzerVars, Reading, Done
<1>9. CASE ReadLine
  <2>1. /\ watched' = watched /\ handled' = handled
        /\ pc = "read" /\ pc' = "line" /\ pos' = pos + 1
    BY <1>9 DEF ReadLine
  <2>2. Reading /\ Done = pos /\ Done' = pos
    BY <1>1, <2>1 DEF Reading, Done
  <2> QED
    BY <1>3, <2>1, <2>2
<1>10. CASE Handle
  <2>1. /\ watched' = watched /\ pos' = pos /\ pc = "line" /\ pc' = "loop"
        /\ handled' = Append(handled, <<filename, pos>>)
    BY <1>10 DEF Handle, fileVars, readerVars
  <2>2. Reading /\ Done = pos - 1 /\ Done' = pos
    BY <2>1 DEF Reading, Done
  <2>3. Len(handled') = Len(handled) + 1
    BY <1>1, <2>1
  <2>4. Calm => Len(handled') = Done'
    BY <1>1, <2>2, <2>3 DEF CalmInv
  <2> QED
    BY <1>2, <2>1, <2>4
<1>11. CASE Quiet
  <2>1. watched' = watched /\ handled' = handled
    BY <1>11 DEF Quiet
  <2>2. Reading' => Reading /\ Done' = Done
    BY <1>11 DEF Quiet, Reading, Done
  <2> QED
    BY <1>3, <2>1, <2>2
<1> QED
  BY StepIs, <1>4, <1>5, <1>6, <1>7, <1>8, <1>9, <1>10, <1>11

(* What the state maps to: the lines of the log and those that were        *)
(* handled.                                                                *)
Produced == IF Calm THEN disk ELSE 0
Copied == IF Calm THEN [i \in DOMAIN handled |-> handled[i][2]] ELSE <<>>

(* The initial states map to initial states of LineCopy ...                *)
LEMMA CopiesInit ==
    ASSUME WatchInit
    PROVE  Copies!Init
<1>1. Produced = 0 /\ Copied = <<>>
  BY DEF WatchInit, Produced, Copied, Calm
<1> QED
  BY <1>1 DEF Copies!Init, Produced, Copied

(* ... and every step to one of its steps or to a stutter.                 *)
LEMMA CopiesStep ==
    ASSUME WatchInv, CalmInv, [WatchNext]_watchVars
    PROVE  [Copies!Next]_Copies!vars
<1>1. /\ watched \in Logged /\ pos \in Nat /\ handled \in Seq(Logs \X (1..Lines)) /\ disk \in Nat
      /\ OpenInv /\ FreshInv
  BY WatchedIs DEF WatchTypeOK, WatchInv, ReadInv
<1>2. \/ UNCHANGED <<Produced, Copied>>
      \/ Produced < Lines /\ Produced' = Produced + 1 /\ UNCHANGED Copied
      \/ Len(Copied) < Produced /\ Copied' = Append(Copied, Len(Copied) + 1) /\ UNCHANGED Produced
  <2>1. ASSUME UNCHANGED <<watched, disk, handled>>
        PROVE  UNCHANGED <<Produced, Copied>>
    BY <2>1 DEF Produced, Copied, Calm
  <2>2. ASSUME watched' = watched, ~Calm
        PROVE  UNCHANGED <<Produced, Copied>>
    BY <2>2 DEF Produced, Copied, Calm
  <2>3. CASE Write
    <3>1. /\ watched' = watched /\ handled' = handled /\ disk' = disk + 1
          /\ disk < Len(LinesOf(LastLog))
      BY <2>3 DEF Write, analyzerVars, LastLog
    <3>2. disk < Lines
      <4>1. LastLog \in Logs /\ Lines \in Nat
        BY <1>1, WatchedIs
      <4>2. Len(LinesOf(LastLog)) \in 0..Lines
        BY <1>1, <4>1, LogIs
      <4> QED
        BY <1>1, <3>1, <4>1, <4>2
    <3>3. Calm => Produced < Lines /\ Produced' = Produced + 1 /\ UNCHANGED Copied
      BY <3>1, <3>2 DEF Produced, Copied, Calm
    <3> QED
      BY <2>2, <3>1, <3>3
  <2>4. CASE Construct
    BY <2>1, <2>4 DEF Construct, analyzerVars
  <2>5. CASE Begin
    BY <2>1, <2>5 DEF Begin, analyzerVars
  <2>6. CASE Switch
    BY <2>1, <2>6 DEF Switch, analyzerVars
  <2>7. CASE Stay
    BY <2>1, <2>7 DEF Stay, analyzerVars
  <2>8. CASE ReadLine
    BY <2>1, <2>8 DEF ReadLine
  <2>9. CASE Handle
    <3>1. /\ watched' = watched /\ disk' = disk /\ pc = "line"
          /\ handled' = Append(handled, <<filename, pos>>)
      BY <2>9 DEF Handle, fileVars, readerVars
    <3>2. ASSUME Calm
          PROVE  /\ Len(Copied) < Produced /\ Copied' = Append(Copied, Len(Copied) + 1)
                 /\ UNCHANGED Produced
      <4>1. /\ Copied = [i \in DOMAIN handled |-> handled[i][2]] /\ Produced = disk
            /\ Copied' = [i \in DOMAIN handled' |-> handled'[i][2]] /\ Produced' = disk
        BY <3>1, <3>2 DEF Produced, Copied, Calm
      <4>2. Len(handled) = pos - 1 /\ Reading
        BY <3>1, <3>2 DEF CalmInv, Reading, Done
      <4>3. filename = LastLog
        BY <3>1, <3>2, CalmIs
      <4>4. pos <= disk
        BY <1>1, <4>2, <4>3 DEF OpenInv, OnDisk, LastLog
      <4> DEFINE k == Len(handled)
      <4>5. /\ k \in Nat /\ DOMAIN handled = 1..k /\ DOMAIN handled' = 1..(k + 1)
            /\ handled'[k + 1] = <<filename, pos>>
            /\ \A i \in 1..k : handled'[i] = handled[i] /\ handled[i][2] \in 1..Lines
        BY <1>1, <3>1
      <4>6. pos = k + 1
        BY <1>1, <4>2
      <4> HIDE DEF k
      <4>7. Copied \in Seq(1..Lines) /\ Len(Copied) = k
        <5>1. Copied \in [1..k -> 1..Lines]
          BY <4>1, <4>5
        <5> QED
          BY <4>5, <5>1, ListIs
      <4>8. Copied' = Append(Copied, k + 1)
        <5>1. DOMAIN Copied' = 1..(k + 1) /\ Copied' = [i \in 1..(k + 1) |-> handled'[i][2]]
          BY <4>1, <4>5
        <5>2. Append(Copied, k + 1) = [i \in 1..(k + 1) |-> IF i = k + 1 THEN k + 1 ELSE Copied[i]]
          BY <4>5, <4>7
        <5>3. \A i \in 1..(k + 1) :
                 handled'[i][2] = IF i = k + 1 THEN k + 1 ELSE Copied[i]
          <6>1. handled'[k + 1][2] = k + 1
            BY <4>5, <4>6
          <6>2. \A i \in 1..k : handled'[i][2] = Copied[i]
            BY <4>1, <4>5
          <6>3. \A i \in 1..(k + 1) : i = k + 1 \/ i \in 1..k
            BY <4>5
          <6> QED
            BY <6>1, <6>2, <6>3, <4>5
        <5> QED
          BY <5>1, <5>2, <5>3
      <4> QED
        BY <1>1, <4>1, <4>4, <4>5, <4>6, <4>7, <4>8
    <3> QED
      BY <2>2, <3>1, <3>2
  <2>10. CASE Quiet
    BY <2>1, <2>10 DEF Quiet
  <2> QED
    BY StepIs, <2>3, <2>4, <2>5, <2>6, <2>7, <2>8, <2>9, <2>10
<1> QED
  BY <1>2 DEF Copies!Next, Copies!vars, Copies!Produce, Copies!Copy, Produced, Copied

(* The safety part of WatchCopies: watching the one log of a run from its  *)
(* start implements the initial state and every step of the reliable copy  *)
(* of lines, whatever the lines of the log take.                           *)
THEOREM SpecCopiesLines ==
    WatchSpec => Copies!Init /\ [][Copies!Next]_Copies!vars
<1>1. WatchInit => WatchInv /\ CalmInv /\ Copies!Init
  BY WatchInvInit, CopiesInit DEF WatchInit, CalmInv, Reading
<1>2. WatchInv /\ CalmInv /\ [WatchNext]_watchVars => WatchInv' /\ CalmInv'
  BY WatchInvNext, CalmStep
<1>3. WatchInv /\ CalmInv /\ [WatchNext]_watchVars => [Copies!Next]_Copies!vars
  BY CopiesStep
<1> QED
  BY <1>1, <1>2, <1>3, PTL DEF WatchSpec
=========================================================================
