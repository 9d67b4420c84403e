------------------------- MODULE OutFilesProofs -------------------------
(***************************************************************************)
(* Proofs about OutFiles for any names, times and limit of open files.     *)
(***************************************************************************)
EXTENDS OutFiles, FiniteSetTheorems, SequenceTheorems, TLAPS

(* A file of the collection that has no handle waits to be appended to:    *)
(* opening it again will not empty it.                                     *)
NothingForgotten == ~closing => files \subseteq open \cup append

(* Every file of the collection was begun. *)
NoneEmpty == \A f \in files : disk[f] # <<>>

(* A collection that was replaced kept to the limit. *)
AbandonedInv ==
    \A i \in DOMAIN abandoned : Cardinality(abandoned[i]) <= maxOpenFiles

(* The inductive invariant: the limit holds for the list, which holds      *)
(* exactly the open files, so it holds for the handles.                    *)
IInv == /\ TypeOK /\ ListIsOpen
        /\ Len(openList) <= maxOpenFiles
        /\ NothingForgotten /\ NoneEmpty
        /\ AbandonedInv
-------------------------------------------------------------------------
(* Lemmas about lists without repetitions *)

(* A new entry at the end. *)
LEMMA AppendDistinct ==
    ASSUME NEW S, NEW s \in Seq(S), IsInjective(s),
           NEW x \in S, x \notin Range(s)
    PROVE  /\ Append(s, x) \in Seq(S)
           /\ IsInjective(Append(s, x))
           /\ Range(Append(s, x)) = Range(s) \cup {x}
           /\ Len(Append(s, x)) = Len(s) + 1
<1> DEFINE t == Append(s, x)
<1>1. /\ t \in Seq(S) /\ Len(t) = Len(s) + 1
      /\ \A i \in 1..Len(s) : t[i] = s[i]
      /\ t[Len(s) + 1] = x
  BY AppendProperties
<1>2. /\ DOMAIN s = 1..Len(s) /\ DOMAIN t = 1..Len(t)
      /\ Len(s) \in Nat
  BY <1>1, LenProperties
<1>3. Range(t) = Range(s) \cup {x}
  BY <1>1, <1>2 DEF Range
<1>4. IsInjective(t)
  BY <1>1, <1>2 DEF IsInjective, Range
<1> QED
  BY <1>1, <1>3, <1>4

(* The list without its first entry. *)
LEMMA TailDistinct ==
    ASSUME NEW S, NEW s \in Seq(S), IsInjective(s), s # <<>>
    PROVE  /\ Tail(s) \in Seq(S)
           /\ IsInjective(Tail(s))
           /\ Range(Tail(s)) = Range(s) \ {Head(s)}
           /\ Head(s) \in Range(s)
           /\ Len(Tail(s)) = Len(s) - 1
<1> DEFINE t == Tail(s)
<1>1. /\ t \in Seq(S) /\ Len(t) = Len(s) - 1
      /\ \A i \in 1..Len(t) : t[i] = s[i + 1]
  BY HeadTailProperties
<1>2. /\ DOMAIN s = 1..Len(s) /\ DOMAIN t = 1..Len(t)
      /\ Len(s) \in Nat \ {0}
  BY <1>1, LenProperties, EmptySeq
<1>3. Head(s) = s[1]
  BY <1>2
<1>4. IsInjective(t)
  BY <1>1, <1>2 DEF IsInjective
<1>5. Range(t) = Range(s) \ {Head(s)}
  <2>2. ASSUME NEW i \in DOMAIN s, s[i] # s[1]
        PROVE  s[i] \in Range(t)
    <3>1. i - 1 \in 1..Len(t)
      BY <1>1, <1>2, <2>2
    <3>2. t[i - 1] = s[i]
      BY <1>1, <1>2, <3>1
    <3> QED
      BY <1>2, <3>1, <3>2 DEF Range
  <2>3. \A i \in DOMAIN t : t[i] \in Range(s) /\ t[i] # s[1]
    BY <1>1, <1>2 DEF Range, IsInjective
  <2> QED
    BY <1>3, <2>2, <2>3 DEF Range
<1>6. Head(s) \in Range(s)
  BY <1>2, <1>3 DEF Range
<1> QED
  BY <1>1, <1>4, <1>5, <1>6

(* The list without one of its entries. *)
LEMMA WithoutDistinct ==
    ASSUME NEW S, NEW s \in Seq(S), IsInjective(s), NEW k \in 1..Len(s)
    PROVE  LET t == SubSeq(s, 1, k-1) \o SubSeq(s, k+1, Len(s))
           IN  /\ t \in Seq(S)
               /\ IsInjective(t)
               /\ Range(t) = Range(s) \ {s[k]}
               /\ Len(t) = Len(s) - 1
<1> DEFINE a == SubSeq(s, 1, k-1)
           b == SubSeq(s, k+1, Len(s))
           t == a \o b
<1>0. /\ DOMAIN s = 1..Len(s) /\ Len(s) \in Nat /\ k \in Nat \ {0}
      /\ \A i \in 1..Len(s) : s[i] \in S
  BY LenProperties
<1>1. /\ a \in Seq(S) /\ Len(a) = k - 1
      /\ \A i \in 1..(k-1) : a[i] = s[i]
  <2>1. \A i \in 1..(k-1) : s[i] \in S
    BY <1>0
  <2>2. /\ SubSeq(s, 1, k-1) \in Seq(S)
        /\ Len(SubSeq(s, 1, k-1)) = IF 1 <= k-1 THEN (k-1)-1+1 ELSE 0
        /\ \A i \in 1..((k-1)-1+1) : SubSeq(s, 1, k-1)[i] = s[1+i-1]
    BY <1>0, <2>1, SubSeqProperties
  <2> QED
    BY <1>0, <2>2
<1>2. /\ b \in Seq(S) /\ Len(b) = Len(s) - k
      /\ \A i \in 1..(Len(s)-k) : b[i] = s[k+i]
  <2>1. \A i \in (k+1)..Len(s) : s[i] \in S
    BY <1>0
  <2>2. /\ SubSeq(s, k+1, Len(s)) \in Seq(S)
        /\ Len(SubSeq(s, k+1, Len(s))) =
               IF k+1 <= Len(s) THEN Len(s)-(k+1)+1 ELSE 0
        /\ \A i \in 1..(Len(s)-(k+1)+1) :
               SubSeq(s, k+1, Len(s))[i] = s[(k+1)+i-1]
    BY <1>0, <2>1, SubSeqProperties
  <2>3. b \in Seq(S) /\ Len(b) = Len(s) - k
    <3>0. k \in Int /\ Len(s) \in Int /\ k <= Len(s)
      BY <1>0
    <3>1. (IF k+1 <= Len(s) THEN Len(s)-(k+1)+1 ELSE 0) = Len(s) - k
      <4>1. CASE k+1 <= Len(s)
        BY <3>0, <4>1
      <4>2. CASE ~(k+1 <= Len(s))
        BY <3>0, <4>2
      <4> QED
        BY <4>1, <4>2
    <3> QED
      BY <2>2, <3>1
  <2>4. ASSUME NEW i \in 1..(Len(s)-k)
        PROVE  b[i] = s[k+i]
    <3>1. i \in 1..(Len(s)-(k+1)+1) /\ (k+1)+i-1 = k+i
      BY <1>0
    <3> QED
      BY <2>2, <3>1
  <2> QED
    BY <2>3, <2>4
<1> HIDE DEF a, b
<1>3. /\ t \in Seq(S) /\ Len(t) = Len(s) - 1
      /\ \A i \in 1..(Len(s)-1) : t[i] = IF i < k THEN s[i] ELSE s[i+1]
  <2>1. /\ t \in Seq(S) /\ Len(t) = Len(a) + Len(b)
        /\ \A i \in 1..(Len(a) + Len(b)) :
               t[i] = IF i <= Len(a) THEN a[i] ELSE b[i - Len(a)]
    BY <1>1, <1>2, ConcatProperties
  <2>2. t \in Seq(S) /\ Len(t) = Len(s) - 1
    BY <1>0, <1>1, <1>2, <2>1
  <2>3. ASSUME NEW i \in 1..(Len(s)-1)
        PROVE  t[i] = IF i < k THEN s[i] ELSE s[i+1]
    <3>1. t[i] = IF i <= k-1 THEN a[i] ELSE b[i - (k-1)]
      BY <1>0, <1>1, <1>2, <2>1
    <3>2. CASE i < k
      BY <1>0, <1>1, <3>1, <3>2
    <3>3. CASE ~(i < k)
      <4>1. i - (k-1) \in 1..(Len(s)-k) /\ k + (i - (k-1)) = i + 1
        BY <1>0, <3>3
      <4>2. b[i - (k-1)] = s[k + (i - (k-1))]
        BY <1>2, <4>1
      <4> QED
        BY <1>0, <3>1, <3>3, <4>1, <4>2
    <3> QED
      BY <3>2, <3>3
  <2> QED
    BY <2>2, <2>3
<1>4. DOMAIN t = 1..(Len(s)-1)
  BY <1>3, LenProperties
<1> HIDE DEF t
<1>5. IsInjective(t)
  <2> SUFFICES ASSUME NEW i \in 1..(Len(s)-1), NEW j \in 1..(Len(s)-1),
                      t[i] = t[j]
               PROVE  i = j
    BY <1>4 DEF IsInjective
  <2> DEFINE p == IF i < k THEN i ELSE i+1
             q == IF j < k THEN j ELSE j+1
  <2>0. p \in DOMAIN s /\ q \in DOMAIN s
    BY <1>0
  <2>1. s[p] = t[i] /\ s[q] = t[j]
    BY <1>3
  <2>2. p = q
    BY <2>0, <2>1 DEF IsInjective
  <2> QED
    BY <1>0, <2>2
<1>6. Range(t) = Range(s) \ {s[k]}
  <2>1. \A i \in DOMAIN t : t[i] \in Range(s) /\ t[i] # s[k]
    BY <1>0, <1>3, <1>4 DEF Range, IsInjective
  <2>2. ASSUME NEW i \in DOMAIN s, s[i] # s[k]
        PROVE  s[i] \in Range(t)
    <3>1. CASE i < k
      BY <1>0, <1>3, <1>4, <3>1 DEF Range
    <3>2. CASE i > k
      <4>1. i - 1 \in DOMAIN t /\ t[i-1] = s[i]
        BY <1>0, <1>3, <1>4, <3>2
      <4> QED
        BY <4>1 DEF Range
    <3> QED
      BY <1>0, <2>2, <3>1, <3>2
  <2> QED
    BY <2>1, <2>2 DEF Range
<1> QED
  BY <1>3, <1>5, <1>6 DEF t, a, b
-------------------------------------------------------------------------
(* What opening a file does to the list, the handles and the files that    *)
(* wait.                                                                   *)
LEMMA AddToOpenListLemma ==
    ASSUME IInv, NEW f \in Files, f \notin open, AddToOpenList(f)
    PROVE  /\ openList' \in Seq(Files)
           /\ open' = Range(openList') /\ IsInjective(openList')
           /\ Len(openList') <= maxOpenFiles
           /\ open' \subseteq open \cup {f} /\ f \in open'
           /\ append \subseteq append' /\ append' \subseteq append \cup open
           /\ open \subseteq open' \cup append'
<1> USE DEF IInv, TypeOK, ListIsOpen
<1>1. ~Listed(f)
  BY DEF Listed
<1>2. Len(openList) \in Nat /\ maxOpenFiles \in Nat \ {0}
  BY OpenAssumption, LenProperties
<1>3. CASE MakesRoom(f)
  <2>1. openList # <<>>
    BY <1>2, <1>3, EmptySeq DEF MakesRoom
  <2> DEFINE rest == Tail(openList)
             first == Head(openList)
  <2>2. /\ rest \in Seq(Files) /\ IsInjective(rest)
        /\ Range(rest) = open \ {first}
        /\ first \in open
        /\ Len(rest) = Len(openList) - 1
    BY <2>1, TailDistinct
  <2>3. /\ open' = (open \ {first}) \cup {f}
        /\ append' = append \cup {first}
        /\ openList' = Append(rest, f)
    BY <1>3, <2>2 DEF AddToOpenList
  <2> HIDE DEF rest, first
  <2>4. /\ openList' \in Seq(Files) /\ IsInjective(openList')
        /\ Range(openList') = Range(rest) \cup {f}
        /\ Len(openList') = Len(rest) + 1
    BY <2>2, <2>3, AppendDistinct
  <2>5. Len(openList') <= maxOpenFiles
    BY <1>2, <2>2, <2>4
  <2> QED
    BY <2>2, <2>3, <2>4, <2>5
<1>4. CASE ~MakesRoom(f)
  <2>1. /\ open' = open \cup {f} /\ append' = append
        /\ openList' = Append(openList, f)
    BY <1>1, <1>4 DEF AddToOpenList
  <2>2. /\ openList' \in Seq(Files) /\ IsInjective(openList')
        /\ Range(openList') = open \cup {f}
        /\ Len(openList') = Len(openList) + 1
    BY <2>1, AppendDistinct
  <2>3. Len(openList) < maxOpenFiles
    BY <1>1, <1>2, <1>4 DEF MakesRoom
  <2> QED
    BY <1>2, <2>1, <2>2, <2>3
<1> QED
  BY <1>3, <1>4
-------------------------------------------------------------------------
(* The file a datum goes to is one of Files. *)
LEMMA FileNameLemma ==
    ASSUME TypeOK, NEW name \in Names, CheckTime[name] < MaxCalls
    PROVE  /\ FileName(name) \in Files
           /\ CheckTime \in [Names -> 0..MaxCalls]
<1>1. CheckTime \in [Names -> 0..MaxCalls]
  BY BoundsAssumption DEF CheckTime, NoCalls, TypeOK
<1>2. CheckTime[name] + 1 \in 1..MaxCalls /\ 1 \in 1..MaxCalls
  BY <1>1, BoundsAssumption
<1> QED
  BY <1>1, <1>2 DEF FileName, Files

(* The open files are the range of the list, so they are not more.         *)
LEMMA OpenBounded ==
    ASSUME TypeOK, ListIsOpen, Len(openList) <= maxOpenFiles
    PROVE  Cardinality(open) <= maxOpenFiles
<1>1. /\ openList \in [1..Len(openList) -> open]
      /\ Len(openList) \in Nat
      /\ \A f \in open : \E k \in 1..Len(openList) : openList[k] = f
  BY LenProperties DEF TypeOK, ListIsOpen, Range
<1>2. openList \in Surjection(1..Len(openList), open)
  BY <1>1 DEF Surjection
<1>3. ExistsSurjection(1..Len(openList), open)
  BY <1>2 DEF ExistsSurjection
<1>4. Cardinality(open) <= Len(openList)
  BY <1>1, <1>3, FS_SurjCardinalityBound
<1>5. IsFiniteSet(open)
  <2>1. IsFiniteSet(1..Len(openList))
    BY <1>1, FS_Interval
  <2> QED
    BY <1>2, <2>1, FS_Surjection
<1>6. Cardinality(open) \in Nat
  BY <1>5, FS_CardinalityType
<1> QED
  BY <1>1, <1>4, <1>6, OpenAssumption

LEMMA InitIInv == Init => IInv
<1> SUFFICES ASSUME Init
             PROVE  IInv
  OBVIOUS
<1> USE DEF Init
<1>1. TypeOK
  <2>1. 0 \in Times /\ called \in [Names -> 0..MaxCalls]
    BY BoundsAssumption DEF Times, NoCalls
  <2>2. /\ <<>> \in Seq(Files) /\ <<>> \in Seq(Times \cup {Title})
        /\ <<>> \in Seq(SUBSET Files)
    BY EmptySeq
  <2>3. disk \in [Files -> Seq(Times \cup {Title})]
    BY <2>2
  <2> QED
    BY <2>1, <2>2, <2>3, BoundsAssumption DEF TypeOK
<1>2. ListIsOpen
  BY DEF ListIsOpen, Range, IsInjective
<1>3. Len(openList) <= maxOpenFiles
  BY OpenAssumption
<1>4. AbandonedInv
  BY DEF AbandonedInv
<1> QED
  BY <1>1, <1>2, <1>3, <1>4 DEF IInv, NothingForgotten, NoneEmpty

(* The files after a datum was written: nothing is left half done.         *)
LEMMA WriteKeepsIInv ==
    ASSUME IInv, NEW name \in Names, Write(name)
    PROVE  IInv'
<1> DEFINE f == FileName(name)
<1>1. f \in Files /\ CheckTime \in [Names -> 0..MaxCalls]
  BY FileNameLemma DEF IInv, Write
<1>2. /\ now' = now /\ singleFile' = singleFile /\ closing' = closing
      /\ lastTime' = now /\ files' = files \cup {f}
      /\ called' = [CheckTime EXCEPT ![name] = @ + 1]
      /\ disk' = [disk EXCEPT ![f] = Append(Opened(f), now)]
      /\ CheckTime[name] < MaxCalls /\ ~closing
      /\ abandoned' = abandoned
  BY DEF Write
<1>3. /\ openList' \in Seq(Files)
      /\ open' = Range(openList') /\ IsInjective(openList')
      /\ Len(openList') <= maxOpenFiles
      /\ open' \subseteq open \cup {f} /\ f \in open'
      /\ append \subseteq append' /\ append' \subseteq append \cup open
      /\ open \subseteq open' \cup append'
  <2>1. CASE f \in open
    <3>1. UNCHANGED <<open, append, openList>>
      BY <2>1 DEF Write
    <3> QED
      BY <2>1, <3>1 DEF IInv, TypeOK, ListIsOpen
  <2>2. CASE f \notin open
    <3>1. AddToOpenList(f)
      BY <2>2 DEF Write
    <3> QED
      BY <1>1, <2>2, <3>1, AddToOpenListLemma
  <2> QED
    BY <2>1, <2>2
<1>4. /\ Append(Opened(f), now) \in Seq(Times \cup {Title})
      /\ Append(Opened(f), now) # <<>>
  <2>1. Opened(f) \in Seq(Times \cup {Title})
    <3>1. disk[f] \in Seq(Times \cup {Title})
      BY <1>1 DEF IInv, TypeOK
    <3>2. <<Title>> \in Seq(Times \cup {Title})
      <4>1. <<>> \in Seq(Times \cup {Title})
        BY EmptySeq
      <4>2. Append(<<>>, Title) \in Seq(Times \cup {Title})
        BY <4>1, AppendProperties
      <4> QED
        BY <4>2
    <3> QED
      BY <3>1, <3>2 DEF Opened
  <2>2. now \in Times \cup {Title}
    BY DEF IInv, TypeOK
  <2> HIDE DEF f
  <2> QED
    BY <2>1, <2>2, AppendProperties
<1> HIDE DEF f
<1>5. TypeOK'
  <2>1. called' \in [Names -> 0..MaxCalls]
    BY <1>1, <1>2, BoundsAssumption
  <2>2. disk' \in [Files -> Seq(Times \cup {Title})]
    BY <1>1, <1>2, <1>4 DEF IInv, TypeOK
  <2>3. open' \subseteq files' /\ append' \subseteq files' /\ files' \subseteq Files
    BY <1>1, <1>2, <1>3 DEF IInv, TypeOK
  <2> QED
    BY <1>2, <1>3, <2>1, <2>2, <2>3 DEF IInv, TypeOK
<1>6. NothingForgotten'
  BY <1>2, <1>3 DEF IInv, NothingForgotten
<1>7. NoneEmpty'
  BY <1>1, <1>2, <1>4 DEF IInv, NoneEmpty, TypeOK
<1> QED
  BY <1>3, <1>5, <1>6, <1>7, <1>2 DEF IInv, ListIsOpen, AbandonedInv

(* Closing one of the open files takes its only entry off the list.        *)
LEMMA CloseFileKeepsIInv ==
    ASSUME IInv, NEW f \in Files, CloseFile(f)
    PROVE  IInv'
<1> USE DEF IInv, TypeOK, ListIsOpen
<1>1. Listed(f)
  BY DEF CloseFile, Listed
<1>2. DOMAIN openList = 1..Len(openList) /\ Len(openList) \in Nat
  BY LenProperties
<1>3. PICK k \in 1..Len(openList) : openList[k] = f
  BY <1>1, <1>2 DEF Listed, Range
<1>4. ASSUME NEW j \in 1..(k-1)
      PROVE  openList[j] # f
  <2>1. j \in 1..Len(openList) /\ j # k
    BY <1>2
  <2> QED
    BY <1>2, <1>3, <2>1 DEF IsInjective
<1>5. k = CHOOSE i \in DOMAIN openList :
              openList[i] = f /\ \A j \in 1..(i-1) : openList[j] # f
  BY <1>2, <1>3, <1>4 DEF IsInjective
<1>6. Without(f) = SubSeq(openList, 1, k-1)
                       \o SubSeq(openList, k+1, Len(openList))
  BY <1>5 DEF Without
<1>7. /\ openList' \in Seq(Files) /\ IsInjective(openList')
      /\ Range(openList') = Range(openList) \ {f}
      /\ Len(openList') = Len(openList) - 1
  <2>1. openList' = Without(f)
    BY <1>1 DEF CloseFile
  <2>2. openList \in Seq(Files) /\ IsInjective(openList)
    OBVIOUS
  <2> HIDE DEF IInv, TypeOK, ListIsOpen
  <2>3. \A i \in 1..Len(openList) :
            LET t == SubSeq(openList, 1, i-1)
                        \o SubSeq(openList, i+1, Len(openList))
            IN  /\ t \in Seq(Files)
                /\ IsInjective(t)
                /\ Range(t) = Range(openList) \ {openList[i]}
                /\ Len(t) = Len(openList) - 1
    BY <2>2, WithoutDistinct
  <2> QED
    BY <1>3, <1>6, <2>1, <2>3
<1>8. Len(openList') <= maxOpenFiles
  BY <1>2, <1>7, OpenAssumption
<1> QED
  BY <1>7, <1>8 DEF CloseFile, NothingForgotten, NoneEmpty, AbandonedInv

LEMMA NextIInv == IInv /\ [Next]_vars => IInv'
<1> SUFFICES ASSUME IInv, [Next]_vars
             PROVE  IInv'
  OBVIOUS
<1>1. ASSUME NEW name \in Names, Write(name)
      PROVE  IInv'
  BY <1>1, WriteKeepsIInv
<1>2. CASE NewTime
  <2>1. now' \in Times
    BY <1>2, BoundsAssumption DEF NewTime, IInv, TypeOK, Times
  <2> QED
    BY <1>2, <2>1
       DEF NewTime, IInv, TypeOK, ListIsOpen, NothingForgotten, NoneEmpty,
           AbandonedInv
<1>3. CASE NewCollection
  <2>1. /\ abandoned \in Seq(SUBSET Files) /\ open \in SUBSET Files
        /\ Cardinality(open) <= maxOpenFiles
    BY OpenBounded DEF IInv, TypeOK
  <2>2. abandoned' = Append(abandoned, open)
    BY <1>3 DEF NewCollection
  <2>3. /\ abandoned' \in Seq(SUBSET Files)
        /\ \A i \in DOMAIN abandoned' :
              IF i \in DOMAIN abandoned THEN abandoned'[i] = abandoned[i]
                                       ELSE abandoned'[i] = open
    BY <2>1, <2>2, AppendProperties, LenProperties
  <2>4. AbandonedInv'
    BY <2>1, <2>3 DEF IInv, AbandonedInv
  <2>5. TypeOK'
    <3>1. <<>> \in Seq(Files)
      BY EmptySeq
    <3> QED
      BY <1>3, <2>3, <3>1, BoundsAssumption
         DEF NewCollection, IInv, TypeOK, Times, NoCalls
  <2>6. ListIsOpen' /\ Len(openList') <= maxOpenFiles
    BY <1>3, OpenAssumption DEF NewCollection, ListIsOpen, Range, IsInjective
  <2> QED
    BY <1>3, <2>4, <2>5, <2>6
       DEF NewCollection, IInv, NothingForgotten, NoneEmpty
<1>4. CASE Close
  BY <1>4 DEF Close, IInv, TypeOK, ListIsOpen, NothingForgotten, NoneEmpty,
           AbandonedInv
<1>5. ASSUME NEW f \in Files, CloseFile(f)
      PROVE  IInv'
  BY <1>5, CloseFileKeepsIInv
<1>6. CASE UNCHANGED vars
  BY <1>6 DEF vars, IInv, TypeOK, ListIsOpen, NothingForgotten, NoneEmpty,
           AbandonedInv
<1>7. CASE CollectGarbage
  <2>1. <<>> \in Seq(SUBSET Files)
    BY EmptySeq
  <2> QED
    BY <1>7, <2>1
       DEF CollectGarbage, IInv, TypeOK, ListIsOpen, NothingForgotten,
           NoneEmpty, AbandonedInv
<1> QED
  BY <1>1, <1>2, <1>3, <1>4, <1>5, <1>6, <1>7 DEF Next

LEMMA SpecIInv == Spec => []IInv
BY InitIInv, NextIInv, PTL DEF Spec

(* The state is well typed; a file with a handle belongs to the collection. *)
THEOREM SpecTypeOK == Spec => []TypeOK
BY SpecIInv, PTL DEF IInv

(* The list by which the collection decides what to close is exactly the   *)
(* list of the files that have a handle.                                   *)
THEOREM SpecListIsOpen == Spec => []ListIsOpen
BY SpecIInv, PTL DEF IInv

(* The limit of handles holds for any number of files and any limit, for   *)
(* the collection in use and for those that were replaced.                 *)
THEOREM SpecHandlesBounded == Spec => []HandlesBounded
<1>1. IInv => HandlesBounded
  BY OpenBounded DEF IInv, HandlesBounded, AbandonedInv
<1> QED
  BY <1>1, SpecIInv, PTL
-------------------------------------------------------------------------
(* No row is later than now.  A row of now in the k-th file of a name was  *)
(* counted, if every datum has a file of its own.                          *)
RowsInv ==
    /\ lastTime <= now
    /\ \A f \in files : \A i \in 2..Len(disk[f]) :
          /\ disk[f][i] \in Times /\ disk[f][i] <= now
          /\ ~singleFile /\ disk[f][i] = now => f[2] <= CheckTime[f[1]]
    /\ OneRowPerTime

(* Conversely, every datum that was counted has its row.                   *)
CallsInv ==
    /\ singleFile => \A f \in files : f[2] = 1
    /\ ~singleFile =>
         \A n \in Names : \A k \in 1..CheckTime[n] :
             <<n, k>> \in files /\ RowsAt(<<n, k>>, now) # {}
    /\ NoGaps

(* What a datum does to the file it goes to: a row is added, and nothing   *)
(* else changes.                                                           *)
LEMMA RowIsAdded ==
    ASSUME IInv, NEW name \in Names, Write(name)
    PROVE  LET f == FileName(name)
           IN  /\ f \in Files /\ files' = files \cup {f}
               /\ \A g \in Files \ {f} : disk'[g] = disk[g]
               /\ f \in files =>
                    /\ Len(disk[f]) \in Nat
                    /\ Len(disk'[f]) = Len(disk[f]) + 1
                    /\ \A i \in 1..Len(disk[f]) : disk'[f][i] = disk[f][i]
               /\ f \notin files => Len(disk'[f]) = 2 /\ disk'[f][1] = Title
               /\ disk'[f][Len(disk'[f])] = now
<1> DEFINE f == FileName(name)
<1>1. f \in Files
  BY FileNameLemma DEF IInv, Write
<1>2. ~closing /\ files' = files \cup {f}
      /\ disk' = [disk EXCEPT ![f] = Append(Opened(f), now)]
  BY DEF Write
<1> HIDE DEF f
<1>3. disk \in [Files -> Seq(Times \cup {Title})] /\ now \in Times
  BY DEF IInv, TypeOK
<1>4. /\ \A g \in Files \ {f} : disk'[g] = disk[g]
      /\ disk'[f] = Append(Opened(f), now)
  BY <1>1, <1>2, <1>3
<1>5. CASE f \in files
  <2>1. Opened(f) = disk[f]
    BY <1>2, <1>5 DEF IInv, NothingForgotten, Opened
  <2>2. disk[f] \in Seq(Times \cup {Title}) /\ now \in Times \cup {Title}
    BY <1>1, <1>3
  <2>3. /\ Len(disk'[f]) = Len(disk[f]) + 1 /\ Len(disk[f]) \in Nat
        /\ \A i \in 1..Len(disk[f]) : disk'[f][i] = disk[f][i]
        /\ disk'[f][Len(disk[f]) + 1] = now
    BY <1>4, <2>1, <2>2, AppendProperties, LenProperties
  <2> QED
    BY <1>1, <1>2, <1>4, <1>5, <2>3 DEF f
<1>6. CASE f \notin files
  <2>1. Opened(f) = <<Title>>
    BY <1>6 DEF IInv, TypeOK, Opened
  <2>2. /\ <<Title>> \in Seq(Times \cup {Title}) /\ Len(<<Title>>) = 1
        /\ <<Title>>[1] = Title /\ now \in Times \cup {Title}
    BY <1>3
  <2>3. /\ Len(disk'[f]) = 2 /\ disk'[f][1] = Title /\ disk'[f][2] = now
    BY <1>4, <2>1, <2>2, AppendProperties
  <2> QED
    BY <1>1, <1>2, <1>4, <1>6, <2>3 DEF f
<1> QED
  BY <1>5, <1>6

(* The count of a name goes up, the others stay, and that of now counts.   *)
LEMMA CallsAreCounted ==
    ASSUME IInv, NEW name \in Names, Write(name)
    PROVE  /\ CheckTime \in [Names -> Nat]
           /\ CheckTime' = [CheckTime EXCEPT ![name] = @ + 1]
           /\ FileName(name) =
                IF singleFile THEN <<name, 1>>
                              ELSE <<name, CheckTime[name] + 1>>
<1>1. CheckTime \in [Names -> Nat]
  <2>1. CheckTime \in [Names -> 0..MaxCalls]
    BY FileNameLemma DEF IInv, Write
  <2>2. 0..MaxCalls \subseteq Nat
    BY BoundsAssumption
  <2> QED
    BY <2>1, <2>2
<1>2. CheckTime' = [CheckTime EXCEPT ![name] = @ + 1]
  <2>1. called' = [CheckTime EXCEPT ![name] = @ + 1] /\ now' = now /\ lastTime' = now
    BY DEF Write
  <2>2. CheckTime' = called'
    BY <2>1 DEF CheckTime
  <2> QED
    BY <2>1, <2>2
<1>3. CheckTime[name] \in Nat
  BY <1>1
<1> HIDE DEF CheckTime
<1> QED
  BY <1>1, <1>2, <1>3 DEF FileName

(* Every step keeps the rows of a file in order. *)
LEMMA RowsStep ==
    ASSUME IInv, RowsInv, [Next]_vars
    PROVE  RowsInv'
<1>0. now \in Nat /\ lastTime \in Nat /\ MaxTime \in Nat
  BY BoundsAssumption DEF IInv, TypeOK, Times
<1>1. ASSUME NEW name \in Names, Write(name)
      PROVE  RowsInv'
  <2> DEFINE f == FileName(name)
  <2>1. /\ f \in Files /\ files' = files \cup {f}
        /\ \A g \in Files \ {f} : disk'[g] = disk[g]
        /\ f \in files =>
             /\ Len(disk[f]) \in Nat
             /\ Len(disk'[f]) = Len(disk[f]) + 1
             /\ \A i \in 1..Len(disk[f]) : disk'[f][i] = disk[f][i]
        /\ f \notin files => Len(disk'[f]) = 2 /\ disk'[f][1] = Title
        /\ disk'[f][Len(disk'[f])] = now
    BY <1>1, RowIsAdded
  <2>2. /\ CheckTime \in [Names -> Nat]
        /\ CheckTime' = [CheckTime EXCEPT ![name] = @ + 1]
        /\ ~singleFile => f = <<name, CheckTime[name] + 1>>
    BY <1>1, CallsAreCounted
  <2>3. now' = now /\ lastTime' = now /\ singleFile' = singleFile
    BY <1>1 DEF Write
  <2> HIDE DEF f
  <2>4. files \subseteq Files /\ now \in Times
    BY DEF IInv, TypeOK
  <2>5. \A n \in Names : CheckTime'[n] \in Nat /\ CheckTime[n] \in Nat
                         /\ CheckTime[n] <= CheckTime'[n]
    BY <2>2
  <2>6. \A g \in Files : g[1] \in Names /\ g[2] \in Nat
    BY BoundsAssumption DEF Files
  (* an old row *)
  <2>7. ASSUME NEW g \in files, NEW i \in 2..Len(disk[g])
        PROVE  /\ disk[g][i] \in Times /\ disk[g][i] <= now
               /\ ~singleFile /\ disk[g][i] = now =>
                    g[2] <= CheckTime'[g[1]] /\ g # f
    <3>1. /\ disk[g][i] \in Times /\ disk[g][i] <= now
          /\ ~singleFile /\ disk[g][i] = now => g[2] <= CheckTime[g[1]]
      BY <2>7 DEF RowsInv
    <3>2. g \in Files /\ g[1] \in Names /\ g[2] \in Nat
      BY <2>4, <2>6
    <3>3. CheckTime'[g[1]] \in Nat /\ CheckTime[g[1]] \in Nat
          /\ CheckTime[g[1]] <= CheckTime'[g[1]]
      BY <2>5, <3>2
    <3>4. ASSUME ~singleFile, g = f
          PROVE  ~(g[2] <= CheckTime[g[1]])
      <4>1. g[1] = name /\ g[2] = CheckTime[name] + 1
        BY <2>2, <3>4
      <4> QED
        BY <4>1, <3>3
    <3> QED
      BY <3>1, <3>2, <3>3, <3>4
  <2>8. ~singleFile => f[2] <= CheckTime'[f[1]]
    <3>1. CASE ~singleFile
      <4>1. f[1] = name /\ f[2] = CheckTime[name] + 1
        BY <2>2, <3>1
      <4>2. CheckTime'[name] = CheckTime[name] + 1 /\ CheckTime[name] \in Nat
        BY <2>2
      <4> QED
        BY <4>1, <4>2
    <3> QED
      BY <3>1
  (* a row after the step *)
  <2>9. ASSUME NEW g \in files', NEW i \in 2..Len(disk'[g])
        PROVE  \/ g = f /\ i = Len(disk'[f])
               \/ g \in files /\ i \in 2..Len(disk[g]) /\ disk'[g][i] = disk[g][i]
    <3>1. CASE g # f
      BY <2>1, <2>4, <3>1
    <3>2. CASE g = f /\ f \in files
      BY <2>1, <3>2
    <3>3. CASE g = f /\ f \notin files
      BY <2>1, <3>3
    <3> QED
      BY <3>1, <3>2, <3>3
  <2>10. ASSUME NEW g \in files', NEW i \in 2..Len(disk'[g])
         PROVE  /\ disk'[g][i] \in Times /\ disk'[g][i] <= now'
                /\ ~singleFile' /\ disk'[g][i] = now' => g[2] <= CheckTime'[g[1]]
    BY <1>0, <2>1, <2>3, <2>4, <2>7, <2>8, <2>9
  <2>11. OneRowPerTime'
    <3> SUFFICES ASSUME ~singleFile, NEW g \in files',
                        NEW i \in 2..Len(disk'[g]), NEW j \in 2..Len(disk'[g]),
                        i < j
                 PROVE  disk'[g][i] < disk'[g][j]
      BY <2>3 DEF OneRowPerTime
    <3>1. Len(disk'[f]) \in Nat
      BY <2>1
    <3>2. ~(g = f /\ i = Len(disk'[f]))
      BY <3>1
    <3>3. g \in files /\ i \in 2..Len(disk[g]) /\ disk'[g][i] = disk[g][i]
      BY <2>9, <3>2
    <3>4. CASE g = f /\ j = Len(disk'[f])
      <4>1. disk[g][i] \in Times /\ disk[g][i] <= now /\ disk[g][i] # now
        BY <2>7, <3>3, <3>4
      <4>2. disk'[g][j] = now
        BY <2>1, <3>4
      <4> QED
        BY <1>0, <3>3, <4>1, <4>2 DEF Times
    <3>5. CASE j \in 2..Len(disk[g]) /\ disk'[g][j] = disk[g][j]
      <4>1. disk[g][i] < disk[g][j]
        BY <3>3, <3>5 DEF RowsInv, OneRowPerTime
      <4> QED
        BY <3>3, <3>5, <4>1
    <3> QED
      BY <2>9, <3>4, <3>5
  <2>12. lastTime' <= now'
    BY <1>0, <2>3
  <2> QED
    BY <2>10, <2>11, <2>12 DEF RowsInv
<1>2. CASE NewTime
  <2>1. now' = now + 1 /\ UNCHANGED <<singleFile, files, disk, lastTime>>
    BY <1>2 DEF NewTime
  <2>2. ASSUME NEW g \in files, NEW i \in 2..Len(disk[g])
        PROVE  /\ disk[g][i] \in Times /\ disk[g][i] <= now'
               /\ disk[g][i] # now'
    <3>1. disk[g][i] \in Times /\ disk[g][i] <= now
      BY <2>2 DEF RowsInv
    <3> QED
      BY <1>0, <2>1, <3>1 DEF Times
  <2>3. lastTime' <= now'
    BY <1>0, <2>1 DEF RowsInv
  <2>4. OneRowPerTime'
    BY <2>1 DEF RowsInv, OneRowPerTime
  <2> QED
    BY <2>1, <2>2, <2>3, <2>4 DEF RowsInv
<1>3. CASE NewCollection
  BY <1>0, <1>3 DEF NewCollection, RowsInv, OneRowPerTime
<1>4. CASE \/ Close \/ (\E f \in Files : CloseFile(f))
          \/ CollectGarbage \/ UNCHANGED vars
  <2>1. UNCHANGED <<now, lastTime, files, disk, singleFile, called>>
    BY <1>4 DEF Close, CloseFile, CollectGarbage, vars
  <2> QED
    BY <2>1 DEF RowsInv, OneRowPerTime, CheckTime, NoCalls
<1> QED
  BY <1>1, <1>2, <1>3, <1>4 DEF Next

(* Every step keeps the files of a name filled one after the other. *)
LEMMA CallsStep ==
    ASSUME IInv, RowsInv, CallsInv, [Next]_vars
    PROVE  CallsInv'
<1>0. now \in Nat /\ lastTime \in Nat /\ MaxTime \in Nat /\ lastTime <= now
  BY BoundsAssumption DEF IInv, TypeOK, Times, RowsInv
<1>1. ASSUME NEW name \in Names, Write(name)
      PROVE  CallsInv'
  <2>0. PICK f : f = FileName(name)
    OBVIOUS
  <2>1. /\ f \in Files /\ files' = files \cup {f}
        /\ \A g \in Files \ {f} : disk'[g] = disk[g]
        /\ f \in files =>
             /\ Len(disk[f]) \in Nat
             /\ Len(disk'[f]) = Len(disk[f]) + 1
             /\ \A i \in 1..Len(disk[f]) : disk'[f][i] = disk[f][i]
        /\ f \notin files => Len(disk'[f]) = 2 /\ disk'[f][1] = Title
        /\ disk'[f][Len(disk'[f])] = now
    BY <1>1, <2>0, RowIsAdded
  <2>2. /\ CheckTime \in [Names -> Nat]
        /\ CheckTime' = [CheckTime EXCEPT ![name] = @ + 1]
        /\ f = IF singleFile THEN <<name, 1>> ELSE <<name, CheckTime[name] + 1>>
    BY <1>1, <2>0, CallsAreCounted
  <2>3. now' = now /\ singleFile' = singleFile
    BY <1>1 DEF Write
  <2>4. files \subseteq Files /\ now \in Times /\ Title \notin Times
    BY TitleAssumption, BoundsAssumption DEF IInv, TypeOK, Times
  <2>5. disk \in [Files -> Seq(Times \cup {Title})]
        /\ disk' \in [Files -> Seq(Times \cup {Title})]
    BY <1>1, WriteKeepsIInv DEF IInv, TypeOK
  <2>6. \A g \in Files : /\ DOMAIN disk[g] = 1..Len(disk[g])
                         /\ DOMAIN disk'[g] = 1..Len(disk'[g])
                         /\ Len(disk[g]) \in Nat /\ Len(disk'[g]) \in Nat
    BY <2>5, LenProperties
  (* rows stay *)
  <2>7. ASSUME NEW g \in files, NEW t \in Times, RowsAt(g, t) # {}
        PROVE  g \in files' /\ RowsAt(g, t)' # {}
    <3>1. PICK i \in DOMAIN disk[g] : disk[g][i] = t
      BY <2>7 DEF RowsAt
    <3>2. i \in DOMAIN disk'[g] /\ disk'[g][i] = t
      BY <2>1, <2>4, <2>6, <3>1
    <3> QED
      BY <2>1, <3>2 DEF RowsAt
  (* and one is new *)
  <2>8. f \in files' /\ RowsAt(f, now)' # {}
    <3>1. Len(disk'[f]) \in DOMAIN disk'[f]
      BY <2>1, <2>6
    <3> QED
      BY <2>1, <2>3, <3>1 DEF RowsAt
  <2>9. ASSUME NEW g \in files', NEW t \in Times, RowsAt(g, t)' # {}
        PROVE  \/ g = f /\ t = now
               \/ g \in files /\ RowsAt(g, t) # {}
    <3>1. PICK i \in DOMAIN disk'[g] : disk'[g][i] = t
      BY <2>9 DEF RowsAt
    <3>2. CASE g # f
      <4>1. g \in files /\ disk'[g] = disk[g]
        BY <2>1, <2>4, <3>2
      <4> QED
        BY <3>1, <4>1 DEF RowsAt
    <3>0. g = f => i \in 1..Len(disk'[f]) /\ disk'[f][i] = t
      BY <2>1, <2>6, <3>1
    <3>3. CASE g = f /\ f \notin files
      <4>1. i \in 1..2 /\ i # 1
        BY <2>1, <2>4, <3>0, <3>3
      <4>2. i = Len(disk'[f])
        BY <2>1, <3>3, <4>1
      <4> QED
        BY <2>1, <3>0, <3>3, <4>2
    <3>4. CASE g = f /\ f \in files
      <4>1. CASE i = Len(disk'[f])
        BY <2>1, <3>0, <3>4, <4>1
      <4>2. CASE i # Len(disk'[f])
        <5>1. i \in DOMAIN disk[f] /\ disk[f][i] = t
          BY <2>1, <2>6, <3>1, <3>4, <4>2
        <5> QED
          BY <3>4, <5>1 DEF RowsAt
      <4> QED
        BY <4>1, <4>2
    <3> QED
      BY <3>2, <3>3, <3>4
  <2>10. singleFile' => \A g \in files' : g[2] = 1
    <3>1. singleFile => f[2] = 1
      BY <2>2
    <3> QED
      BY <2>1, <2>3, <3>1 DEF CallsInv
  <2>11. ASSUME ~singleFile, NEW n \in Names, NEW k \in 1..CheckTime'[n]
         PROVE  <<n, k>> \in files' /\ RowsAt(<<n, k>>, now)' # {}
    <3>1. CASE n = name /\ k = CheckTime[name] + 1
      BY <2>2, <2>8, <2>11, <3>1 DEF RowsAt
    <3>2. CASE ~(n = name /\ k = CheckTime[name] + 1)
      <4>1. k \in 1..CheckTime[n]
        <5>1. CASE n = name
          <6>1. CheckTime'[n] = CheckTime[n] + 1 /\ CheckTime[n] \in Nat
            BY <2>2, <5>1
          <6> QED
            BY <3>2, <5>1, <6>1
        <5>2. CASE n # name
          BY <2>2, <5>2
        <5> QED
          BY <5>1, <5>2
      <4>2. <<n, k>> \in files /\ RowsAt(<<n, k>>, now) # {}
        BY <2>11, <4>1 DEF CallsInv
      <4> QED
        BY <2>3, <2>4, <2>7, <4>2 DEF RowsAt
    <3> QED
      BY <3>1, <3>2
  <2>12. ASSUME NEW n \in Names, NEW k \in 2..MaxCalls, NEW t \in Times,
                <<n, k>> \in files', RowsAt(<<n, k>>, t)' # {}
         PROVE  <<n, k-1>> \in files' /\ RowsAt(<<n, k-1>>, t)' # {}
    <3>1. CASE <<n, k>> \in files /\ RowsAt(<<n, k>>, t) # {}
      <4>1. <<n, k-1>> \in files /\ RowsAt(<<n, k-1>>, t) # {}
        BY <3>1 DEF CallsInv, NoGaps
      <4> QED
        BY <2>7, <4>1
    <3>2. CASE <<n, k>> = f /\ t = now
      <4>1. k # 1
        OBVIOUS
      <4>2. ~singleFile /\ n = name /\ k = CheckTime[name] + 1
        BY <2>2, <3>2, <4>1
      <4>3. k - 1 \in 1..CheckTime[n]
        BY <2>2, <4>2
      <4>4. <<n, k-1>> \in files /\ RowsAt(<<n, k-1>>, now) # {}
        BY <4>2, <4>3 DEF CallsInv
      <4> QED
        BY <2>7, <3>2, <4>4
    <3> QED
      BY <2>9, <2>12, <3>1, <3>2
  <2>13. NoGaps'
    BY <2>12 DEF NoGaps, RowsAt
  <2> QED
    BY <2>3, <2>10, <2>11, <2>13 DEF CallsInv, RowsAt
<1>2. CASE NewTime
  <2>1. now' = now + 1 /\ UNCHANGED <<singleFile, files, disk, lastTime>>
    BY <1>2 DEF NewTime
  <2>2. CheckTime' = NoCalls
    BY <1>0, <2>1 DEF CheckTime, NoCalls
  <2>3. \A n \in Names : CheckTime'[n] = 0
    BY <2>2 DEF NoCalls
  <2> HIDE DEF CheckTime
  <2>4. \A n \in Names : 1..CheckTime'[n] = {}
    BY <2>3
  <2>5. NoGaps'
    BY <2>1 DEF CallsInv, NoGaps, RowsAt
  <2> QED
    BY <2>1, <2>4, <2>5 DEF CallsInv
<1>3. CASE NewCollection
  <2>1. files' = {} /\ called' = NoCalls
    BY <1>3 DEF NewCollection
  <2>2. CheckTime' = NoCalls
    BY <2>1 DEF CheckTime, NoCalls
  <2>3. \A n \in Names : CheckTime'[n] = 0
    BY <2>2 DEF NoCalls
  <2> HIDE DEF CheckTime
  <2>4. \A n \in Names : 1..CheckTime'[n] = {}
    BY <2>3
  <2> QED
    BY <2>1, <2>4 DEF CallsInv, NoGaps
<1>4. CASE \/ Close \/ (\E f \in Files : CloseFile(f))
          \/ CollectGarbage \/ UNCHANGED vars
  <2>1. UNCHANGED <<now, lastTime, files, disk, singleFile, called>>
    BY <1>4 DEF Close, CloseFile, CollectGarbage, vars
  <2> QED
    BY <2>1 DEF CallsInv, NoGaps, RowsAt, CheckTime, NoCalls
<1> QED
  BY <1>1, <1>2, <1>3, <1>4 DEF Next

(* Both hold together, on top of the inductive invariant. *)
LEMMA SpecRows == Spec => [](RowsInv /\ CallsInv)
<1>1. Init => RowsInv /\ CallsInv
  <2> SUFFICES ASSUME Init
               PROVE  RowsInv /\ CallsInv
    OBVIOUS
  <2>1. files = {} /\ CheckTime = NoCalls /\ lastTime = 0 /\ now = 0
    BY DEF Init, CheckTime
  <2>2. \A n \in Names : CheckTime[n] = 0
    BY <2>1 DEF NoCalls
  <2> HIDE DEF CheckTime
  <2>3. \A n \in Names : 1..CheckTime[n] = {}
    BY <2>2
  <2> QED
    BY <2>1, <2>3 DEF RowsInv, CallsInv, OneRowPerTime, NoGaps
<1>2. IInv /\ RowsInv /\ CallsInv /\ [Next]_vars => RowsInv' /\ CallsInv'
  BY RowsStep, CallsStep
<1> QED
  BY <1>1, <1>2, SpecIInv, PTL DEF Spec

(* No two data of one time are in one file, and rows are in the order of   *)
(* their times, for any names and any limit of open files.                 *)
THEOREM SpecOneRowPerTime == Spec => []OneRowPerTime
<1>1. RowsInv /\ CallsInv => OneRowPerTime
  BY DEF RowsInv
<1> QED
  BY <1>1, SpecRows, PTL

(* The files of a name are filled in their order, at every time.           *)
THEOREM SpecNoGaps == Spec => []NoGaps
<1>1. RowsInv /\ CallsInv => NoGaps
  BY DEF CallsInv
<1> QED
  BY <1>1, SpecRows, PTL
-------------------------------------------------------------------------
(* A step of OutFiles adds one row to one table, begins all of them anew   *)
(* or changes none.                                                        *)
LEMMA StepRefines ==
    IInv /\ [Next]_vars => [Written!Next]_(Written!vars)
<1> SUFFICES ASSUME IInv, [Next]_vars
             PROVE  [Written!Next]_(Written!vars)
  OBVIOUS
<1> DEFINE table == [f \in Files |-> IF f \in files THEN Tail(disk[f])
                                                    ELSE <<>>]
<1>1. ASSUME NEW name \in Names, Write(name)
      PROVE  Written!Next
  <2>0. FileName(name) \in Files
    BY <1>1, FileNameLemma DEF IInv, Write
  <2>1. PICK f \in Files : f = FileName(name)
    BY <2>0
  <2>2. /\ files' = files \cup {f} /\ ~closing
        /\ disk' = [disk EXCEPT ![f] = Append(Opened(f), now)]
    BY <1>1, <2>1 DEF Write
  <2>3. now \in Times /\ disk \in [Files -> Seq(Times \cup {Title})]
    BY DEF IInv, TypeOK
  <2>4. Tail(Append(Opened(f), now)) = Append(table[f], now)
    <3>1. CASE f \in files
      <4>1. Opened(f) = disk[f]
        BY <2>2, <3>1 DEF Opened, IInv, NothingForgotten
      <4>2. disk[f] \in Seq(Times \cup {Title}) /\ disk[f] # <<>>
        BY <2>1, <2>3, <3>1 DEF IInv, NoneEmpty
      <4>3. Tail(Append(disk[f], now)) = Append(Tail(disk[f]), now)
        BY <4>2, HeadTailAppend
      <4>4. table[f] = Tail(disk[f])
        BY <2>1, <3>1
      <4> QED
        BY <4>1, <4>3, <4>4
    <3>2. CASE f \notin files
      <4>1. Opened(f) = <<Title>>
        BY <3>2 DEF Opened, IInv, TypeOK
      <4>2. table[f] = <<>>
        BY <2>1, <3>2
      <4>3. Tail(Append(<<Title>>, now)) = Append(<<>>, now)
        <5>1. <<Title>> \in Seq({Title})
          OBVIOUS
        <5>2. <<Title>> # <<>> /\ Tail(<<Title>>) = <<>>
          OBVIOUS
        <5> QED
          BY <5>1, <5>2, HeadTailAppend
      <4> QED
        BY <4>1, <4>2, <4>3
    <3> QED
      BY <3>1, <3>2
  <2>5. disk'[f] = Append(Opened(f), now)
    BY <2>1, <2>2, <2>3
  <2>6. \A g \in Files : g # f => disk'[g] = disk[g]
    BY <2>2, <2>3
  <2>7. table' = [table EXCEPT ![f] = Append(@, now)]
    <3>1. \A g \in Files : table'[g] = IF g = f THEN Append(table[g], now)
                                                ELSE table[g]
      <4> SUFFICES ASSUME NEW g \in Files
                   PROVE  table'[g] = IF g = f THEN Append(table[g], now)
                                               ELSE table[g]
        OBVIOUS
      <4>1. table'[g] = IF g \in files' THEN Tail(disk'[g]) ELSE <<>>
        OBVIOUS
      <4>2. table[g] = IF g \in files THEN Tail(disk[g]) ELSE <<>>
        OBVIOUS
      <4> HIDE DEF table
      <4>3. CASE g = f
        BY <2>2, <2>4, <2>5, <4>1, <4>3
      <4>4. CASE g # f
        BY <2>2, <2>6, <4>1, <4>2, <4>4
      <4> QED
        BY <4>3, <4>4
    <3> QED
      BY <3>1
  <2>8. Written!AddRow(f)
    BY <2>3, <2>7 DEF Written!AddRow
  <2> QED
    BY <2>1, <2>8 DEF Written!Next
<1>2. CASE NewTime
  BY <1>2 DEF NewTime, Written!vars
<1>3. CASE NewCollection
  BY <1>3 DEF NewCollection, Written!Next, Written!Discard
<1>4. CASE Close
  BY <1>4 DEF Close, Written!vars
<1>5. ASSUME NEW f \in Files, CloseFile(f)
      PROVE  UNCHANGED Written!vars
  BY <1>5 DEF CloseFile, Written!vars
<1>6. CASE UNCHANGED vars
  BY <1>6 DEF vars, Written!vars
<1>7. CASE CollectGarbage
  BY <1>7 DEF CollectGarbage, Written!vars
<1> QED
  BY <1>1, <1>2, <1>3, <1>4, <1>5, <1>6, <1>7 DEF Next

(* Closing files at the limit and opening them again never loses a row.    *)
THEOREM OutFilesRefines == Spec => DataTablesSpec
<1>1. Init => Written!Init
  BY DEF Init, Written!Init
<1> QED
  BY <1>1, StepRefines, SpecIInv, PTL DEF Spec, DataTablesSpec, Written!Spec
=========================================================================
