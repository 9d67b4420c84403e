---------------------------- MODULE TimeLines ----------------------------
(***************************************************************************)
(* What the analysis of a log remembers (Basics/TimeLineCollection.py):    *)
(* for every expression a collection of lines, one per name, with a value  *)
(* for each time in times.  The master of a plot has a slave, whose time   *)
(* it sets too.                                                            *)
(*                                                                         *)
(* setTime appends a time only if the time before got a value; else the    *)
(* time before is replaced, and the first value appends the time on        *)
(* demand.  When there are splitThres times the older ones are condensed:  *)
(* of every window of four points only the extremes stay.                  *)
(***************************************************************************)
EXTENDS Integers, Sequences, SequencesExt, FiniteSetsExt

CONSTANT Setups     \* the cases considered, see SetupsAssumption

Kinds == {"first", "last", "min", "max", "average", "sum", "count"}
Collections == {"master", "slave"}

ASSUME SetupsAssumption ==
    \A u \in Setups :
        /\ u.order \in {<<"master">>, <<"master", "slave">>, <<"slave", "master">>}
        /\ u.names # {}                         \* of the lines
        /\ u.maxTime \in Nat /\ u.maxCalls \in Nat  \* bounds: times, values of
                                                \* a name at a time
        /\ u.data \in [1..u.maxTime -> SUBSET Int]     \* values at a time
        /\ u.sparse \in BOOLEAN                 \* times may have no value
        /\ u.thres \in Nat /\ u.thres % 2 = 0   \* splitThres, 0 for none
        /\ u.extendCopy \in BOOLEAN
        /\ u.accumulation \in Kinds             \* of the collection
        /\ u.special \in Kinds                  \* of the names, setAccumulator
        \* values are counted in parts of which all averages are whole numbers
        /\ u.special = "average" =>
              \A t \in 1..u.maxTime : \A v \in u.data[t] :
                  \A k \in 1..u.maxCalls : v % k = 0

VARIABLES
    setup,          \* never changes; setup.order is the one of the analyzers
    time,           \* FoamLogAnalyzer.time
    lines,          \* the collections, see NewCollection
    given,          \* history: per collection and name the values of its time
    dropped         \* history: per collection, a value of its time came in one
                    \* of the two cases in which it is not stored

vars == <<setup, time, lines, given, dropped>>

window == 4

(* Times are counted in parts of the time step of the solver, so that two  *)
(* thirds of them, again and again, are whole numbers.                     *)
Unit == 729

NoTime == -1

defaultValue == 0

(* valid are the names with lastValid; failed: an exception left setTime   *)
(* and transmissionLock is locked for ever; aligned, a history: all splits *)
(* began at a multiple of window.                                          *)
Collection(known, had) ==       \* with lines, with a value at this time
    [cTime : Int, addTimeOnDemand : BOOLEAN, times : Seq(Int),
     values : [known -> Seq(Int)], valid : SUBSET known, occured : [had -> Nat],
     splitLevels : Seq(Nat), failed : BOOLEAN, aligned : BOOLEAN]

NewCollection == [cTime |-> NoTime, addTimeOnDemand |-> FALSE, times |-> <<>>,
                  values |-> <<>>, valid |-> {}, occured |-> <<>>,
                  splitLevels |-> <<>>, failed |-> FALSE, aligned |-> TRUE]

Init ==
    /\ setup \in Setups
    /\ time = 0
    /\ lines = [c \in Collections |-> NewCollection]
    /\ given = [c \in Collections |-> [n \in setup.names |-> <<>>]]
    /\ dropped = [c \in Collections |-> FALSE]
-------------------------------------------------------------------------
(* All lines get one more point. *)
Extend(r) ==
    [r EXCEPT !.times = Append(@, r.cTime),
              !.values = [n \in DOMAIN @ |->
                 Append(@[n], IF setup.extendCopy /\ @[n] # <<>> THEN Last(@[n])
                              ELSE defaultValue)]]

(* The levels, one for each time *)
Levels(r) ==
    r.splitLevels \o [i \in 1..(Len(r.times) - Len(r.splitLevels)) |-> 0]

(* list.index *)
FirstIndex(s, x) == Min({i \in DOMAIN s : s[i] = x}) - 1

(* The range of points that are condensed *)
SplitTill(r) ==
    LET till == (3 * Len(r.times)) \div 4
    IN  IF Levels(r)[till + 1] # 0 THEN FirstIndex(Levels(r), 0) ELSE till

SplitFrom(r) ==
    LET L == Levels(r)
        early == {l \in 0..(L[1] - 1) :
                    /\ \E i \in DOMAIN L : L[i] = l
                    /\ 2 * FirstIndex(L, l) < SplitTill(r)}
    IN  IF early = {} THEN 0 ELSE FirstIndex(L, Min(early))

Windows(r) == (SplitTill(r) - SplitFrom(r) + window - 1) \div window

(* The last window goes beyond splitTill, maybe beyond the end. *)
SplitEnd(r) == SplitFrom(r) + window * Windows(r)

SplitRaises(r) == SplitEnd(r) > Len(r.times)

(* Mutant: the first and the last value of a window. *)
ExtremesEnds(w) == <<w[1], w[window]>>

(* The minimum and the maximum of a window, in their order *)
Extremes(w) ==
    LET lo == Min(ToSet(w))
        hi == Max(ToSet(w))
    IN  IF FirstIndex(w, lo) < FirstIndex(w, hi) THEN <<lo, hi>> ELSE <<hi, lo>>

(* Mutant: the last window is condensed and kept as well. *)
FirstUnsplitEarly(r) == (SplitEnd(r) \div window - 1) * window

(* The points from here on are kept.  SplitEnd is a multiple of window only *)
(* if SplitFrom is one.                                                    *)
FirstUnsplit(r) == (SplitEnd(r) \div window) * window

TwoTimes(w) == <<w[1], w[1] + ((w[window] - w[1]) * 2) \div 3>>
TwoLevels(w) == <<w[1] + 1, w[window] + 1>>

Window(r, s, i) ==
    LET from == SplitFrom(r) + window * (i - 1)
    IN  SubSeq(s, from + 1, from + window)

(* Before the windows, the points of each pair, and the rest *)
Condense(r, s, pairs) ==
    SubSeq(s, 1, SplitFrom(r))
    \o [j \in 1..(2 * Windows(r)) |->
          pairs[(j + 1) \div 2][IF j % 2 = 1 THEN 1 ELSE 2]]
    \o SubSeq(s, FirstUnsplit(r) + 1, Len(s))

CondenseTimes(r) ==
    Condense(r, r.times,
             [i \in 1..Windows(r) |-> TwoTimes(Window(r, r.times, i))])

CondenseLevels(r) ==
    Condense(r, Levels(r),
             [i \in 1..Windows(r) |-> TwoLevels(Window(r, Levels(r), i))])

CondenseValues(r, s) ==
    Condense(r, s, [i \in 1..Windows(r) |-> Extremes(Window(r, s, i))])

(* Mutant: one point later *)
MustSplitLate(r) == setup.thres > 0 /\ Len(r.times) > setup.thres

MustSplit(r) == setup.thres > 0 /\ Len(r.times) >= setup.thres

Split(r) ==
    IF ~MustSplit(r) THEN r
    ELSE IF SplitRaises(r) THEN [r EXCEPT !.failed = TRUE]
    ELSE [r EXCEPT !.times = CondenseTimes(r),
                   !.splitLevels = CondenseLevels(r),
                   !.values = [n \in DOMAIN @ |-> CondenseValues(r, @[n])],
                   !.aligned = @ /\ SplitFrom(r) % window = 0]
-------------------------------------------------------------------------
(* setTime *)

Slaves(c) == IF c = "master" THEN ToSet(setup.order) \ {c} ELSE {}

HasValid(ls, c) == \E d \in {c} \cup Slaves(c) : ls[d].valid # {}

(* Mutant: which names had a value is not forgotten with a new time. *)
SetTimeOfKeepsOccured(r, t, append) ==
    IF r.cTime = t THEN [r EXCEPT !.addTimeOnDemand = FALSE]
    ELSE LET new == [r EXCEPT !.cTime = t, !.addTimeOnDemand = ~append,
                              !.valid = {}]
         IN  IF append THEN Split(Extend(new))
             ELSE IF r.times = <<>> THEN new
             ELSE [new EXCEPT !.times[Len(r.times)] = t]

(* A time that the collection has already cancels addTimeOnDemand.         *)
SetTimeOf(r, t, append) ==
    IF r.cTime = t THEN [r EXCEPT !.addTimeOnDemand = FALSE]
    ELSE LET new == [r EXCEPT !.cTime = t, !.addTimeOnDemand = ~append,
                              !.valid = {}, !.occured = <<>>]
         IN  IF append THEN Split(Extend(new))
             ELSE IF r.times = <<>> THEN new
             ELSE [new EXCEPT !.times[Len(r.times)] = t]

(* The slaves are told to append only if their master did.                *)
SetTime(ls, c, t) ==
    LET append == HasValid(ls, c)
        own == SetTimeOf(ls[c], t, append)
        force == append /\ ls[c].cTime # t
    IN  [d \in Collections |->
           CASE d = c -> own
             [] d \in Slaves(c) /\ ~own.failed -> SetTimeOf(ls[d], t, force)
             [] OTHER -> ls[d]]

(* FoamLogAnalyzer.setTime: the analyzers set the time of their lines.     *)
SetTimes(ls, t) ==
    LET first == SetTime(ls, setup.order[1], t)
    IN  IF Len(setup.order) = 1 \/ \E c \in Collections : first[c].failed
        THEN first ELSE SetTime(first, setup.order[2], t)

Locked == \E c \in Collections : lines[c].failed

(* The time of the collection was set.                                     *)
Told(c) == lines'[c].cTime = time' * Unit

NewTime ==
    /\ ~Locked /\ time < setup.maxTime
    /\ \/ setup.sparse \/ time = 0
       \/ \A c \in ToSet(setup.order) : \A n \in setup.names : given[c][n] # <<>>
    /\ time' = time + 1
    /\ lines' = SetTimes(lines, time' * Unit)
    /\ given' = [c \in Collections |->
         IF Told(c) THEN [n \in setup.names |-> <<>>] ELSE given[c]]
    /\ dropped' = [c \in Collections |-> ~Told(c) /\ dropped[c]]
    /\ UNCHANGED setup
-------------------------------------------------------------------------
(* setValue *)

(* The new value from the old one and the k values before *)
Accumulate(kind, old, val, k) ==
    CASE kind = "first" -> old
      [] kind = "last" -> val
      [] kind = "max" -> Max({val, old})
      [] kind = "min" -> Min({val, old})
      [] kind = "sum" -> val + old
      [] kind = "average" -> (k * old + val) \div (k + 1)
      [] kind = "count" -> k + 1

(* Mutant: a name that is new has one value. *)
GetValuesOne(r, n) ==
    IF n \in DOMAIN r.values THEN r.values[n] ELSE <<defaultValue>>

(* getValues: a name that is new has the default at all times. *)
GetValues(r, n) ==
    IF n \in DOMAIN r.values THEN r.values[n]
    ELSE [i \in DOMAIN r.times |-> defaultValue]

Put(f, n, x) == [m \in DOMAIN f \cup {n} |-> IF m = n THEN x ELSE f[m]]

(* If the time is appended on demand and there are lines, val is the value *)
(* by which one of them was extended.                                      *)
ValueUsed(r, extended, v) ==
    IF r.addTimeOnDemand /\ DOMAIN r.values # {}
    THEN {Last(extended.values[m]) : m \in DOMAIN r.values}
    ELSE {v}

Store(r, n, val) ==
    LET data == GetValues(r, n)
        again == n \in DOMAIN r.occured
        k == IF again THEN r.occured[n] ELSE 0
        new == IF again THEN Accumulate(setup.special, Last(data), val, k)
               ELSE IF setup.accumulation = "count" THEN 1 ELSE val
    IN  IF data = <<>>
        THEN [r EXCEPT !.values = Put(@, n, data), !.valid = @ \cup {n}]
        ELSE [r EXCEPT !.values = Put(@, n, [data EXCEPT ![Len(data)] = new]),
                       !.occured = Put(@, n, k + 1), !.valid = @ \cup {n}]

SetValue(c, n, v) ==
    LET r == lines[c]
        extended == IF r.addTimeOnDemand
                    THEN [Extend(r) EXCEPT !.addTimeOnDemand = FALSE] ELSE r
    IN  /\ ~Locked
        /\ Len(given[c][n]) < setup.maxCalls
        /\ \E val \in ValueUsed(r, extended, v) :
             lines' = [lines EXCEPT ![c] = Store(extended, n, val)]
        /\ given' = [given EXCEPT ![c][n] = Append(@, v)]
        /\ dropped' = [dropped EXCEPT ![c] =
             \/ @
             \/ r.addTimeOnDemand /\ DOMAIN r.values # {}
             \/ extended.times = <<>>]
        /\ UNCHANGED <<setup, time>>

Next == \/ NewTime
        \/ /\ time > 0
           /\ \E c \in ToSet(setup.order) : \E n \in setup.names :
                 \E v \in setup.data[time] : SetValue(c, n, v)

Spec == Init /\ [][Next]_vars
-------------------------------------------------------------------------
(* A plot draws the values of a line over the times: there is one for each *)
(* of them in every line, old or new, split or not.                        *)
SameLength ==
    \A c \in Collections : \A n \in DOMAIN lines[c].values :
        Len(lines[c].values[n]) = Len(lines[c].times)

TypeOK ==
    /\ setup \in Setups /\ time \in 0..setup.maxTime
    /\ DOMAIN lines = Collections
    /\ \A c \in Collections :
         /\ \E known, had \in SUBSET setup.names : lines[c] \in Collection(known, had)
         /\ lines[c].cTime \in {NoTime} \cup {t * Unit : t \in 1..setup.maxTime}
         /\ lines[c].times \in Seq(0..(setup.maxTime * Unit))
         /\ DOMAIN lines[c].occured \subseteq lines[c].valid
    /\ given \in [Collections -> [setup.names -> Seq(Int)]]
    /\ dropped \in [Collections -> BOOLEAN]
    /\ SameLength

(* The reference: what several values at one time amount to. *)
Accumulated(kind, s) ==
    CASE kind = "first" -> Head(s)
      [] kind = "last" -> Last(s)
      [] kind = "max" -> Max(ToSet(s))
      [] kind = "min" -> Min(ToSet(s))
      [] kind = "sum" -> FoldLeft(+, 0, s)
      [] kind = "average" -> FoldLeft(+, 0, s) \div Len(s)
      [] kind = "count" -> Len(s)

Stored(c) ==
    \A n \in lines[c].valid :
        /\ lines[c].values[n] # <<>>
        /\ Last(lines[c].values[n]) = Accumulated(setup.special, given[c][n])

(* The last value of a line is what the values of this time amount to, for *)
(* masters and slaves in any order of the analyzers.  A value is not       *)
(* stored if the time before had none and there are lines, or if a slave   *)
(* has no time yet.  The first value of a time knows only the accumulation *)
(* of the collection: if just one of the two counts, it counts nothing or  *)
(* is lost.                                                                *)
ValuesAreStored ==
    (setup.special = "count" <=> setup.accumulation = "count") =>
        \A c \in Collections : ~dropped[c] => Stored(c)

Ascending(s) == \A i \in 1..(Len(s) - 1) : s[i] <= s[i + 1]

(* With a smaller threshold the last window may reach the last point, or   *)
(* go beyond it.                                                           *)
TooFew == setup.thres \in 1..12

(* The times of a collection ascend to the current one, whichever of them  *)
(* were condensed, as long as all splits began at a multiple of window.    *)
TimesAscend ==
    \A c \in Collections : lines[c].aligned /\ ~TooFew =>
        /\ Ascending(lines[c].times)
        /\ lines[c].times # <<>> => Last(lines[c].times) = lines[c].cTime

(* The number of points stays bounded and no split fails, likewise: after  *)
(* a time without values the line may reach the threshold.                 *)
PointsBounded ==
    \A c \in Collections : lines[c].aligned /\ ~TooFew =>
        /\ ~lines[c].failed
        /\ setup.thres > 0 =>
              /\ Len(lines[c].times) <= setup.thres
              /\ ~setup.sparse => Len(lines[c].times) < setup.thres

(* "the maximum and the minimum of a data-window are preserved": no        *)
(* extreme value is lost when the time changes.                            *)
ExtremesKept ==
    [][\A c \in Collections : \A n \in DOMAIN lines[c].values :
         time' > time /\ lines[c].values[n] # <<>> =>
           /\ Max(ToSet(lines[c].values[n])) <= Max(ToSet(lines'[c].values[n]))
           /\ Min(ToSet(lines[c].values[n])) >= Min(ToSet(lines'[c].values[n]))
      ]_vars
=========================================================================
