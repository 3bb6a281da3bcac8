----------------------------- MODULE PartsProofs -----------------------------
(****************************************************************************)
(* Proofs about the parts of a process that MCParts puts side by side, for   *)
(* any sizes: the memory of the rings, the rings, the pool of database       *)
(* connections, the arrays of the scripts, the start of the processes, and    *)
(* the numbers.                                                             *)
(****************************************************************************)
EXTENDS MCParts, Arithmetic, SequenceTheorems, TLAPS

(****************************************************************************)
(* Silkworm never hands an element of memory out twice: proofs for any       *)
(* number of rings, any size of arena and any sizes of requests.             *)
(*                                                                          *)
(* Ranges come back into arena 0 whatever arena they are from, because       *)
(* release() takes the place in the await_list for the number of the arena.  *)
(* What keeps the newest arena right is that its one free range reaches to   *)
(* its end and lies behind every range handed out: a range joins it only at  *)
(* its front.                                                                *)
(****************************************************************************)

Spans == [first : Nat, second : Nat]
Lists == [{1} -> Spans]
Ranges == [arena : Nat, index : {0}, first : Nat, offset : Needs]

RangesTyped ==
    /\ silk \in Seq(Lists) /\ silk # << >>
    /\ mulberry \in [Permits -> Ranges \cup {NoPermit}]

End(p) == mulberry[p].first + mulberry[p].offset

Newest == silk[Len(silk)][1]

\* The free range of the newest arena is its end.
FreeIsTheEnd ==
    /\ Newest.first + Newest.second = Total
    /\ \A p \in Live :
          /\ mulberry[p].arena < Len(silk)
          /\ mulberry[p].arena + 1 = Len(silk) => End(p) <= Newest.first

RangesInv == RangesTyped /\ FreeIsTheEnd /\ NeverShared

-----------------------------------------------------------------------------

\* An await_list has one entry: nothing is in front of it.
LEMMA OneEntry ==
    ASSUME NEW list \in Lists
    PROVE  /\ DOMAIN list = {1}
           /\ Entry(list, 1) = 1
<1>1. {k \in 1..1 - 1 : list[k].second # 0} = {}
  OBVIOUS
<1>2. Cardinality({}) = 0
  BY FS_EmptySet
<1> QED
  BY <1>1, <1>2 DEF Entry, Lists

LEMMA RangeParts ==
    ASSUME NEW m \in Ranges
    PROVE  /\ m.arena \in Nat /\ m.index = 0 /\ m.first \in Nat
           /\ m.offset \in Nat /\ m.offset >= 1 /\ Total \in Nat
<1>1. m.arena \in Nat /\ m.index = 0 /\ m.first \in Nat /\ m.offset \in Needs
  BY DEF Ranges
<1>2. m.offset \in 1..Total /\ Total \in Nat
  BY <1>1, StorageAssumption
<1> QED
  BY <1>1, <1>2

LEMMA FitsFirst ==
    ASSUME NEW list \in Lists, NEW need \in Needs, NEW n \in DOMAIN list,
           Fits(list, need, n)
    PROVE  /\ n = 1
           /\ list[1].second >= need
  BY DEF Fits, Lists

\* What is cut off leaves a list of one range with the same end.
LEMMA CarveKeepsTheEnd ==
    ASSUME NEW list \in Lists, NEW need \in Nat, list[1].second >= need
    PROVE  /\ Carve(list, 1, need) \in Lists
           /\ Carve(list, 1, need)[1] =
                Span(list[1].first + need, list[1].second - need)
<1>1. list[1] \in Spans
  BY DEF Lists
<1>2. list[1].first \in Nat /\ list[1].second \in Nat
  BY <1>1 DEF Spans
<1>3. list[1].second - need \in Nat /\ list[1].first + need \in Nat
  BY <1>2
<1>4. Span(list[1].first + need, list[1].second - need) \in Spans
  BY <1>3 DEF Span, Spans
<1> QED
  BY <1>4 DEF Carve, Lists

LEMMA FreshList ==
    /\ Fresh \in Lists
    /\ Fresh[1].first = 0
    /\ Fresh[1].second = Total
<1>1. DOMAIN Fresh = {1} /\ Fresh[1] = Span(0, Total)
  BY DEF Fresh
<1>2. Span(0, Total) \in Spans
  BY StorageAssumption DEF Span, Spans
<1>3. Fresh = [n \in {1} |-> Span(0, Total)]
  BY <1>1 DEF Fresh
<1> QED
  BY <1>1, <1>2, <1>3 DEF Lists, Span

\* A range that comes back leaves the list a list, and either leaves it as it is
\* or joins its range.
LEMMA JoinedList ==
    ASSUME NEW list \in Lists, NEW m \in Ranges
    PROVE  /\ Joined(list, m) \in Lists
           /\ \/ Joined(list, m) = list
              \/ /\ m.first = list[1].first + list[1].second
                 /\ Joined(list, m)[1] =
                      Span(list[1].first, list[1].second + m.offset)
              \/ /\ m.first + m.offset = list[1].first
                 /\ Joined(list, m)[1] = Span(m.first, list[1].second + m.offset)
<1>1. DOMAIN list = {1} /\ Entry(list, 1) = 1
  BY OneEntry
<1>2. CASE Touched(list, m) = {}
  BY <1>2 DEF Joined
<1>3. CASE Touched(list, m) # {}
  <2>1. Touched(list, m) = {1}
    BY <1>1, <1>3 DEF Touched
  <2>2. FirstTouched(list, m) = 1
    BY <2>1 DEF FirstTouched
  <2>3. Joined(list, m) = [list EXCEPT ![1] =
            Span(IF m.first = list[1].first + list[1].second
                  THEN list[1].first ELSE m.first,
                 list[1].second + m.offset)]
    BY <1>1, <1>3, <2>2 DEF Joined
  <2>4. Touches(list[1], m)
    BY <2>1 DEF Touched
  <2>5. list[1] \in Spans /\ m.first \in Nat /\ m.offset \in Needs
    BY DEF Lists, Ranges
  <2>6. list[1].first \in Nat /\ list[1].second + m.offset \in Nat
    <3>1. list[1].first \in Nat /\ list[1].second \in Nat
      BY <2>5 DEF Spans
    <3>2. m.offset \in Nat
      BY RangeParts
    <3> QED
      BY ONLY <3>1, <3>2
  <2>7. \A f \in Nat, o \in Nat : Span(f, o) \in Spans
    BY DEF Span, Spans
  <2>8. Joined(list, m) \in Lists
    BY <2>3, <2>5, <2>6, <2>7 DEF Lists
  <2>9. Joined(list, m)[1] = Span(IF m.first = list[1].first + list[1].second
                                  THEN list[1].first ELSE m.first,
                                  list[1].second + m.offset)
    BY <2>3 DEF Lists
  <2> QED
    BY <2>4, <2>8, <2>9 DEF Touches
<1> QED
  BY <1>2, <1>3

-----------------------------------------------------------------------------

LEMMA InitRanges == StorageInit => RangesInv
<1> SUFFICES ASSUME StorageInit PROVE RangesInv
  OBVIOUS
<1> USE FreshList
<1>1. silk \in Seq(Lists) /\ silk # << >> /\ Len(silk) = 1 /\ silk[1] = Fresh
  BY DEF StorageInit
<1>2. Live = {}
  BY DEF StorageInit, Live
<1>3. RangesTyped
  BY <1>1 DEF RangesTyped, StorageInit
<1>4. FreeIsTheEnd
  BY <1>1, <1>2, StorageAssumption DEF FreeIsTheEnd, Newest
<1> QED
  BY <1>2, <1>3, <1>4 DEF RangesInv, NeverShared

\* A request that cuts the free range of the newest arena gets what no ring has,
\* and the range that stays still reaches to the end.
LEMMA RankingIInv ==
    ASSUME RangesInv, NEW p \in Permits, mulberry[p] = NoPermit,
           NEW need \in Needs, Ranking(p, need)
    PROVE  RangesInv'
<1> DEFINE a == Len(silk)
<1>1. RangesTyped /\ FreeIsTheEnd /\ NeverShared
  BY DEF RangesInv
<1>2. a \in Nat /\ a >= 1 /\ a \in DOMAIN silk /\ silk[a] \in Lists
  BY <1>1 DEF RangesTyped
<1>3. need \in Nat /\ need >= 1 /\ need <= Total
  BY StorageAssumption
<1>4. PICK n \in DOMAIN silk[a] :
        /\ Fits(silk[a], need, n)
        /\ silk' = [silk EXCEPT ![a] = Carve(silk[a], n, need)]
        /\ mulberry' = [mulberry EXCEPT
              ![p] = Mulberry(a - 1, n, silk[a][n].first, need)]
  BY DEF Ranking
<1>5. n = 1 /\ silk[a][1].second >= need
  BY <1>2, <1>4, FitsFirst
<1> DEFINE f == silk[a][1].first
<1> DEFINE o == silk[a][1].second
<1>6. f \in Nat /\ o \in Nat
  BY <1>2 DEF Lists, Spans
<1>7. /\ Carve(silk[a], 1, need) \in Lists
      /\ Carve(silk[a], 1, need)[1] = Span(f + need, o - need)
  BY <1>2, <1>3, <1>5, CarveKeepsTheEnd
<1>8. /\ silk' \in Seq(Lists) /\ silk' # << >> /\ Len(silk') = a
      /\ Newest' = Span(f + need, o - need)
  BY <1>1, <1>2, <1>4, <1>5, <1>7 DEF RangesTyped, Newest
<1>9. Mulberry(a - 1, 1, f, need) \in Ranges
  BY <1>2, <1>6 DEF Mulberry, Ranges
<1>10. mulberry' \in [Permits -> Ranges \cup {NoPermit}]
  BY <1>1, <1>4, <1>5, <1>9 DEF RangesTyped
<1>11. /\ mulberry'[p].arena = a - 1 /\ mulberry'[p].first = f
       /\ mulberry'[p].offset = need
  BY <1>1, <1>4, <1>5 DEF RangesTyped, Mulberry
<1>12. \A q \in Permits : q # p => mulberry'[q] = mulberry[q]
  BY <1>1, <1>4 DEF RangesTyped
<1>13. f + o = Total
  BY <1>1 DEF FreeIsTheEnd, Newest
<1>14. \A q \in Live' : q # p =>
          /\ q \in Live /\ mulberry'[q] = mulberry[q]
          /\ mulberry[q] \in Ranges
          /\ mulberry[q].arena < a
          /\ mulberry[q].arena + 1 = a =>
                mulberry[q].first + mulberry[q].offset <= f
  BY <1>1, <1>12 DEF Live, RangesTyped, FreeIsTheEnd, Newest, End
<1> HIDE DEF a, f, o
<1>15. FreeIsTheEnd'
  <2>1. (Newest.first + Newest.second = Total)'
    BY <1>3, <1>6, <1>8, <1>13 DEF Span
  <2>2. ASSUME NEW q \in Live' 
        PROVE  /\ mulberry'[q].arena < a
               /\ mulberry'[q].arena + 1 = a =>
                     mulberry'[q].first + mulberry'[q].offset <= f + need
    <3>1. CASE q = p
      BY <1>2, <1>3, <1>6, <1>11, <3>1
    <3>2. CASE q # p
      <4>1. mulberry[q].first \in Nat /\ mulberry[q].offset \in Nat
        BY <1>14, <3>2, RangeParts
      <4> QED
        BY <1>3, <1>6, <1>14, <3>2, <4>1
    <3> QED
      BY <3>1, <3>2
  <2>3. Newest'.first = f + need
    BY <1>8 DEF Span
  <2> QED
    BY <1>8, <2>1, <2>2, <2>3 DEF FreeIsTheEnd, End
<1>16. NeverShared'
  <2>1. ASSUME NEW q \in Live'
        PROVE  mulberry'[q].first + mulberry'[q].offset <= Total
    <3>1. CASE q = p
      BY <1>3, <1>5, <1>6, <1>11, <1>13, <3>1 DEF a, o, f
    <3>2. CASE q # p
      BY <1>1, <1>14, <3>2 DEF NeverShared
    <3> QED
      BY <3>1, <3>2
  <2>2. ASSUME NEW q \in Live', NEW r \in Live', q # r,
               mulberry'[q].arena = mulberry'[r].arena
        PROVE  \/ mulberry'[q].first + mulberry'[q].offset <= mulberry'[r].first
               \/ mulberry'[r].first + mulberry'[r].offset <= mulberry'[q].first
    <3>1. CASE q = p
      <4>1. r # p /\ mulberry[r].arena = a - 1 /\ mulberry[r].arena \in Nat
        BY <1>11, <1>14, <2>2, <3>1 DEF Ranges
      <4> QED
        BY <1>2, <1>11, <1>14, <3>1, <4>1
    <3>2. CASE r = p
      <4>1. q # p /\ mulberry[q].arena = a - 1 /\ mulberry[q].arena \in Nat
        BY <1>11, <1>14, <2>2, <3>2 DEF Ranges
      <4> QED
        BY <1>2, <1>11, <1>14, <3>2, <4>1
    <3>3. CASE q # p /\ r # p
      BY <1>1, <1>14, <2>2, <3>3 DEF NeverShared
    <3> QED
      BY <3>1, <3>2, <3>3
  <2> QED
    BY <2>1, <2>2 DEF NeverShared
<1> QED
  BY <1>8, <1>10, <1>15, <1>16 DEF RangesInv, RangesTyped

\* The first range of a new arena.
LEMMA RankingNewIInv ==
    ASSUME RangesInv, NEW p \in Permits, mulberry[p] = NoPermit,
           NEW need \in Needs, RankingNew(p, need)
    PROVE  RangesInv'
<1> DEFINE a == Len(silk)
<1>1. RangesTyped /\ FreeIsTheEnd /\ NeverShared
  BY DEF RangesInv
<1>2. a \in Nat /\ a >= 1
  BY <1>1 DEF RangesTyped
<1>3. need \in Nat /\ need >= 1 /\ need <= Total /\ Total \in Nat
  BY StorageAssumption
<1>4. /\ silk' = Append(silk, Carve(Fresh, 1, need))
      /\ mulberry' = [mulberry EXCEPT ![p] = Mulberry(a, 1, 0, need)]
  BY DEF RankingNew
<1>5. /\ Carve(Fresh, 1, need) \in Lists
      /\ Carve(Fresh, 1, need)[1] = Span(0 + need, Total - need)
  BY <1>3, FreshList, CarveKeepsTheEnd
<1>6. /\ silk' \in Seq(Lists) /\ silk' # << >> /\ Len(silk') = a + 1
      /\ Newest' = Span(need, Total - need)
  BY <1>1, <1>2, <1>3, <1>4, <1>5 DEF RangesTyped, Newest
<1>7. Mulberry(a, 1, 0, need) \in Ranges
  BY <1>2 DEF Mulberry, Ranges
<1>8. mulberry' \in [Permits -> Ranges \cup {NoPermit}]
  BY <1>1, <1>4, <1>7 DEF RangesTyped
<1>9. /\ mulberry'[p].arena = a /\ mulberry'[p].first = 0
      /\ mulberry'[p].offset = need
  BY <1>1, <1>4 DEF RangesTyped, Mulberry
<1>10. \A q \in Live' : q # p =>
          /\ q \in Live /\ mulberry'[q] = mulberry[q]
          /\ mulberry[q].arena < a /\ mulberry[q].arena \in Nat
  BY <1>1, <1>4 DEF Live, RangesTyped, FreeIsTheEnd, Ranges
<1> HIDE DEF a
<1>11. FreeIsTheEnd'
  <2>1. Newest'.first = need /\ Newest'.second = Total - need
    BY <1>6 DEF Span
  <2>2. ASSUME NEW q \in Live'
        PROVE  /\ mulberry'[q].arena < a + 1
               /\ mulberry'[q].arena + 1 = a + 1 =>
                     mulberry'[q].first + mulberry'[q].offset <= need
    BY <1>2, <1>3, <1>9, <1>10
  <2> QED
    BY <1>3, <1>6, <2>1, <2>2 DEF FreeIsTheEnd, End
<1>12. NeverShared'
  <2>1. ASSUME NEW q \in Live'
        PROVE  mulberry'[q].first + mulberry'[q].offset <= Total
    BY <1>1, <1>3, <1>9, <1>10 DEF NeverShared
  <2>2. ASSUME NEW q \in Live', NEW r \in Live', q # r,
               mulberry'[q].arena = mulberry'[r].arena
        PROVE  \/ mulberry'[q].first + mulberry'[q].offset <= mulberry'[r].first
               \/ mulberry'[r].first + mulberry'[r].offset <= mulberry'[q].first
    <3>1. q # p /\ r # p
      BY <1>2, <1>9, <1>10, <2>2
    <3> QED
      BY <1>1, <1>10, <2>2, <3>1 DEF NeverShared
  <2> QED
    BY <2>1, <2>2 DEF NeverShared
<1> QED
  BY <1>6, <1>8, <1>11, <1>12 DEF RangesInv, RangesTyped

\* A range that comes back goes to the first arena.  If that is the newest, the
\* range is joined only if it lies just before the free one, and then no other
\* ring's range can lie behind it.
LEMMA ReleaseIInv ==
    ASSUME RangesInv, NEW p \in Permits, Release(p)
    PROVE  RangesInv'
<1> DEFINE a == Len(silk)
<1> DEFINE m == mulberry[p]
<1>1. RangesTyped /\ FreeIsTheEnd /\ NeverShared
  BY DEF RangesInv
<1>2. a \in Nat /\ a >= 1 /\ 1 \in DOMAIN silk /\ silk[1] \in Lists
  BY <1>1 DEF RangesTyped
<1>3. p \in Live /\ m \in Ranges
  BY <1>1 DEF Release, Live, RangesTyped
<1>4. /\ m.arena \in Nat /\ m.index = 0 /\ m.first \in Nat
      /\ m.offset \in Nat /\ m.offset >= 1
  BY <1>3, RangeParts
<1>5. /\ mulberry' = [mulberry EXCEPT ![p] = NoPermit]
      /\ silk' = [silk EXCEPT ![1] = Joined(silk[1], m)]
  BY <1>2, <1>4 DEF Release
<1>6. /\ Joined(silk[1], m) \in Lists
      /\ \/ Joined(silk[1], m) = silk[1]
         \/ /\ m.first = silk[1][1].first + silk[1][1].second
            /\ Joined(silk[1], m)[1] =
                 Span(silk[1][1].first, silk[1][1].second + m.offset)
         \/ /\ m.first + m.offset = silk[1][1].first
            /\ Joined(silk[1], m)[1] = Span(m.first, silk[1][1].second + m.offset)
  BY <1>2, <1>3, JoinedList
<1>7. silk' \in Seq(Lists) /\ silk' # << >> /\ Len(silk') = a
  BY <1>1, <1>2, <1>5, <1>6 DEF RangesTyped
<1>8. mulberry' \in [Permits -> Ranges \cup {NoPermit}]
  BY <1>1, <1>5 DEF RangesTyped
<1>9. \A q \in Live' : q # p /\ q \in Live /\ mulberry'[q] = mulberry[q]
  BY <1>1, <1>5 DEF Live, RangesTyped
<1>10. NeverShared'
  BY <1>1, <1>9 DEF NeverShared
<1>11. \A q \in Live : /\ mulberry[q].arena < a
                       /\ mulberry[q].first \in Nat /\ mulberry[q].offset \in Nat
                       /\ mulberry[q].offset >= 1
  <2>1. ASSUME NEW q \in Live
        PROVE  mulberry[q].arena < a /\ mulberry[q] \in Ranges
    BY <1>1 DEF FreeIsTheEnd, RangesTyped, Live
  <2> QED
    BY <2>1, RangeParts
<1>12. FreeIsTheEnd'
  <2>1. CASE a = 1
    <3> DEFINE f == silk[1][1].first
    <3> DEFINE o == silk[1][1].second
    <3>1. f \in Nat /\ o \in Nat
      BY <1>2 DEF Lists, Spans
    <3>2. Newest = silk[1][1] /\ f + o = Total
      BY <1>1, <2>1 DEF Newest, FreeIsTheEnd
    <3>3. Newest' = Joined(silk[1], m)[1]
      BY <1>2, <1>5, <1>7, <2>1 DEF Newest
    <3>4. \A q \in Live : /\ mulberry[q].arena = 0
                          /\ mulberry[q].first + mulberry[q].offset <= f
      BY <1>1, <1>3, <1>11, <2>1, <3>2 DEF FreeIsTheEnd, End, RangesTyped, Live, Ranges
    <3>5. m.first + m.offset <= f
      BY <1>3, <3>4
    <3>6. \/ Newest' = silk[1][1]
          \/ m.first + m.offset = f /\ Newest' = Span(m.first, o + m.offset)
      BY <1>4, <1>6, <3>1, <3>3, <3>5
    <3>7. CASE Newest' = silk[1][1]
      BY <1>7, <1>9, <1>11, <2>1, <3>2, <3>4, <3>7 DEF FreeIsTheEnd, End
    <3>8. CASE m.first + m.offset = f /\ Newest' = Span(m.first, o + m.offset)
      <4>1. Newest'.first = m.first /\ Newest'.second = o + m.offset
        BY <3>8 DEF Span
      <4>2. Newest'.first + Newest'.second = Total
        BY <1>4, <3>1, <3>2, <3>8, <4>1
      <4>3. ASSUME NEW q \in Live'
            PROVE  mulberry[q].first + mulberry[q].offset <= m.first
        <5>1. q # p /\ q \in Live
          BY <1>9
        <5>2. \/ mulberry[q].first + mulberry[q].offset <= m.first
              \/ m.first + m.offset <= mulberry[q].first
          BY <1>1, <1>3, <3>4, <5>1 DEF NeverShared
        <5> HIDE DEF m, f, o
        <5>3. ~(m.first + m.offset <= mulberry[q].first)
          BY <1>4, <1>11, <3>1, <3>4, <3>8, <5>1
        <5> QED
          BY <5>2, <5>3
      <4> QED
        BY <1>7, <1>9, <1>11, <4>1, <4>2, <4>3 DEF FreeIsTheEnd, End
    <3> QED
      BY <3>6, <3>7, <3>8
  <2>2. CASE a > 1
    <3>1. Newest' = Newest
      BY <1>1, <1>2, <1>5, <1>7, <2>2 DEF Newest, RangesTyped
    <3> QED
      BY <1>1, <1>7, <1>9, <3>1 DEF FreeIsTheEnd, End
  <2>3. a = 1 \/ a > 1
    <3>1. a \in Nat /\ a >= 1
      BY <1>2
    <3> HIDE DEF a
    <3> QED
      BY ONLY <3>1
  <2> QED
    BY <2>1, <2>2, <2>3
<1> QED
  BY <1>7, <1>8, <1>10, <1>12 DEF RangesInv, RangesTyped

LEMMA NextRanges == RangesInv /\ [StorageNext]_storageVars => RangesInv'
<1> SUFFICES ASSUME RangesInv, [StorageNext]_storageVars PROVE RangesInv'
  OBVIOUS
<1>1. ASSUME NEW p \in Permits, MakeShare(p) PROVE RangesInv'
  BY <1>1, RankingIInv, RankingNewIInv DEF MakeShare
<1>2. ASSUME NEW p \in Permits, Release(p) PROVE RangesInv'
  BY <1>2, ReleaseIInv
<1>3. CASE UNCHANGED storageVars
  BY <1>3 DEF storageVars, RangesInv, RangesTyped, FreeIsTheEnd, NeverShared, Newest, Live, End
<1> QED
  BY <1>1, <1>2, <1>3 DEF StorageNext

LEMMA RangesTypes == RangesInv => StorageTypeOK
<1> SUFFICES ASSUME RangesInv PROVE StorageTypeOK
  OBVIOUS
<1>1. RangesTyped /\ FreeIsTheEnd /\ NeverShared
  BY DEF RangesInv
<1>2. \A b \in DOMAIN silk : silk[b] \in Lists
  BY <1>1 DEF RangesTyped
<1>3. ASSUME NEW p \in Live
      PROVE  mulberry[p] \in [arena : 0.._current_id, index : {0},
                              first : 0..Total, offset : Needs]
  <2>1. mulberry[p] \in Ranges /\ mulberry[p].arena < Len(silk)
    BY <1>1 DEF RangesTyped, Live, FreeIsTheEnd
  <2>2. mulberry[p].offset \in Nat /\ mulberry[p].first \in Nat /\ Total \in Nat
    BY <2>1, RangeParts
  <2>3. mulberry[p].first + mulberry[p].offset <= Total
    BY <1>1 DEF NeverShared
  <2>4. mulberry[p].first \in 0..Total
    BY <2>2, <2>3
  <2>5. mulberry[p].arena \in 0.._current_id
    BY <1>1, <2>1 DEF Ranges, RangesTyped, _current_id
  <2> QED
    BY <2>1, <2>4, <2>5 DEF Ranges
<1> QED
  BY <1>2, <1>3 DEF StorageTypeOK, Lists, Spans

-----------------------------------------------------------------------------

\* Every await_list has one entry, so every index is 0 (Silkworm::ranking(),
\* release()), for all rings, arenas and requests.
THEOREM StorageTypesHold == StorageSpec => []StorageTypeOK
<1> QED
  BY InitRanges, NextRanges, RangesTypes, PTL DEF StorageSpec

\* Two rings never share an element, and none goes beyond its arena, although
\* release() gives ranges back to the wrong arena and loses some.
THEOREM StorageNeverShared == StorageSpec => []NeverShared
<1>1. RangesInv => NeverShared
  BY DEF RangesInv
<1> QED
  BY InitRanges, NextRanges, <1>1, PTL DEF StorageSpec

-----------------------------------------------------------------------------
(****************************************************************************)
(* A ring keeps the rows that were inserted last: proofs for any number of   *)
(* rows and columns and any contents.  Kept is the sequence of rows from the  *)
(* tail to the row last written; the indices of an empty ring are equal, and *)
(* those of a ring with rows never are.                                     *)
(****************************************************************************)

\* What MAJOR numbers: each element of the range once.
LEMMA CellsApart ==
    ASSUME NEW w \in Nat \ {0}, NEW r1 \in Nat, NEW r2 \in Nat,
           NEW c1 \in 0..w - 1, NEW c2 \in 0..w - 1, r1 * w + c1 = r2 * w + c2
    PROVE  r1 = r2 /\ c1 = c2
<1>1. ASSUME NEW a \in Nat, NEW b \in Nat, NEW c \in 0..w - 1, NEW d \in 0..w - 1,
             a < b
      PROVE  a * w + c < b * w + d
  <2>1. w * a + w <= w * b
    BY <1>1, Multiples
  <2>2. w * a = a * w /\ w * b = b * w /\ a * w \in Int /\ b * w \in Int
    OBVIOUS
  <2> DEFINE aw == a * w
             bw == b * w
  <2>3. aw \in Int /\ bw \in Int /\ aw + w <= bw
    BY <2>1, <2>2
  <2> HIDE DEF aw, bw
  <2>4. aw + c < bw + d
    BY <2>3
  <2> QED
    BY <2>4 DEF aw, bw
<1>2. r1 = r2
  <2>1. ~(r1 < r2)
    BY <1>1
  <2>2. ~(r2 < r1)
    BY <1>1
  <2> QED
    BY <2>1, <2>2
<1>3. r1 * w \in Int
  OBVIOUS
<1> DEFINE x == r1 * w
<1>4. x \in Int /\ x + c1 = x + c2
  BY <1>2, <1>3
<1> HIDE DEF x
<1>5. c1 = c2
  BY <1>4
<1> QED
  BY <1>2, <1>5

LEMMA CellInRange ==
    ASSUME NEW w \in Nat \ {0}, NEW n \in Nat, NEW r \in 0..n - 1, NEW c \in 0..w - 1
    PROVE  r * w + c \in 0..n * w - 1
<1>1. w * r + w <= w * n
  BY Multiples
<1>2. w * r = r * w /\ w * n = n * w /\ r * w \in Nat /\ n * w \in Nat
  OBVIOUS
<1> DEFINE rw == r * w
           nw == n * w
<1>3. rw \in Nat /\ nw \in Nat /\ rw + w <= nw
  BY <1>1, <1>2
<1> HIDE DEF rw, nw
<1>4. rw + c \in 0..nw - 1
  BY <1>3
<1> QED
  BY <1>4 DEF rw, nw

LEMMA RingSizes == Rows \in Nat /\ Rows >= 2 /\ Cols \in Nat /\ Cols >= 1 /\ 0 \in Cells
  BY SilkPermitAssumption

LEMMA MajorIs ==
    ASSUME major \in {"row", "column"}
    PROVE  /\ \A r \in Places, c \in Columns : MAJOR(r, c) \in 0..Rows * Cols - 1
           /\ \A r1, r2 \in Places, c1, c2 \in Columns :
                MAJOR(r1, c1) = MAJOR(r2, c2) => r1 = r2 /\ c1 = c2
<1>1. ASSUME NEW r \in Places, NEW c \in Columns
      PROVE  MAJOR(r, c) \in 0..Rows * Cols - 1
  <2>1. CASE major = "row"
    BY <2>1, RingSizes, CellInRange DEF MAJOR, Places, Columns
  <2>2. CASE major = "column"
    <3>1. c * Rows + r \in 0..Cols * Rows - 1
      BY RingSizes, CellInRange DEF Places, Columns
    <3>2. Cols * Rows = Rows * Cols
      BY RingSizes
    <3> QED
      BY <2>2, <3>1, <3>2 DEF MAJOR
  <2> QED
    BY <2>1, <2>2
<1>2. ASSUME NEW r1 \in Places, NEW r2 \in Places, NEW c1 \in Columns,
             NEW c2 \in Columns, MAJOR(r1, c1) = MAJOR(r2, c2)
      PROVE  r1 = r2 /\ c1 = c2
  <2>1. CASE major = "row"
    <3>1. r1 * Cols + c1 = r2 * Cols + c2
      BY <1>2, <2>1 DEF MAJOR
    <3>2. /\ Cols \in Nat \ {0} /\ r1 \in Nat /\ r2 \in Nat
          /\ c1 \in 0..Cols - 1 /\ c2 \in 0..Cols - 1
      BY RingSizes DEF Places, Columns
    <3> QED
      BY <3>1, <3>2, CellsApart
  <2>2. CASE major = "column"
    <3>1. c1 * Rows + r1 = c2 * Rows + r2
      BY <1>2, <2>2 DEF MAJOR
    <3>2. /\ Rows \in Nat \ {0} /\ c1 \in Nat /\ c2 \in Nat
          /\ r1 \in 0..Rows - 1 /\ r2 \in 0..Rows - 1
      BY RingSizes DEF Places, Columns
    <3> QED
      BY <3>1, <3>2, CellsApart
  <2> QED
    BY <2>1, <2>2
<1> QED
  BY <1>1, <1>2

\* A row that is stored is what lies in its place; the others stay.
LEMMA StoredRow ==
    ASSUME data \in [0..Rows * Cols - 1 -> Cells], major \in {"row", "column"},
           NEW row \in Places, NEW values \in RowsOfCells,
           data' = Stored(row, values), major' = major
    PROVE  /\ data' \in [0..Rows * Cols - 1 -> Cells]
           /\ \A r \in Places : fixed(r)' = IF r = row THEN values ELSE fixed(r)
<1>1. ASSUME NEW r \in Places, NEW c \in Columns
      PROVE  data'[MAJOR(r, c)] = IF r = row THEN values[c] ELSE data[MAJOR(r, c)]
  <2>1. MAJOR(r, c) \in DOMAIN data
    BY MajorIs
  <2> DEFINE n == MAJOR(r, c)
  <2>2. data'[n] = IF \E col \in Columns : n = MAJOR(row, col)
                   THEN values[CHOOSE col \in Columns : n = MAJOR(row, col)]
                   ELSE data[n]
    BY <2>1 DEF Stored
  <2>3. CASE r = row
    <3>1. \A col \in Columns : n = MAJOR(row, col) <=> col = c
      BY <2>3, MajorIs
    <3>2. (CHOOSE col \in Columns : n = MAJOR(row, col)) = c
      BY <3>1
    <3> QED
      BY <2>2, <2>3, <3>1, <3>2
  <2>4. CASE r # row
    <3>1. \A col \in Columns : n # MAJOR(row, col)
      BY <2>4, MajorIs
    <3> QED
      BY <2>2, <2>4, <3>1
  <2> QED
    BY <2>3, <2>4
<1>2. ASSUME NEW r \in Places
      PROVE  fixed(r)' = IF r = row THEN values ELSE fixed(r)
  <2>1. fixed(r)' = [col \in Columns |-> data'[MAJOR(r, col)]]
    BY DEF fixed, MAJOR
  <2>2. values = [col \in Columns |-> values[col]]
    BY DEF RowsOfCells
  <2> QED
    BY <1>1, <2>1, <2>2 DEF fixed
<1>3. data' \in [0..Rows * Cols - 1 -> Cells]
  <2>1. ASSUME NEW n \in DOMAIN data, \E col \in Columns : n = MAJOR(row, col)
        PROVE  values[CHOOSE col \in Columns : n = MAJOR(row, col)] \in Cells
    <3>1. (CHOOSE col \in Columns : n = MAJOR(row, col)) \in Columns
      BY <2>1
    <3> QED
      BY <3>1 DEF RowsOfCells
  <2>2. data' = [n \in DOMAIN data |->
                   IF \E col \in Columns : n = MAJOR(row, col)
                   THEN values[CHOOSE col \in Columns : n = MAJOR(row, col)]
                   ELSE data[n]]
    BY DEF Stored
  <2>3. \A n \in DOMAIN data :
          (IF \E col \in Columns : n = MAJOR(row, col)
           THEN values[CHOOSE col \in Columns : n = MAJOR(row, col)]
           ELSE data[n]) \in Cells
    BY <2>1
  <2> QED
    BY <2>2, <2>3
<1> QED
  BY <1>2, <1>3

\* So is one element.
LEMMA StoredCell ==
    ASSUME data \in [0..Rows * Cols - 1 -> Cells], major \in {"row", "column"},
           NEW row \in Places, NEW col \in Columns, NEW value \in Cells,
           data' = [data EXCEPT ![MAJOR(row, col)] = value], major' = major
    PROVE  /\ data' \in [0..Rows * Cols - 1 -> Cells]
           /\ \A r \in Places :
                fixed(r)' = IF r = row THEN [fixed(row) EXCEPT ![col] = value]
                            ELSE fixed(r)
<1>1. ASSUME NEW r \in Places, NEW c \in Columns
      PROVE  data'[MAJOR(r, c)] =
                IF r = row /\ c = col THEN value ELSE data[MAJOR(r, c)]
  <2>1. MAJOR(r, c) \in DOMAIN data
    BY MajorIs
  <2>2. MAJOR(r, c) = MAJOR(row, col) <=> r = row /\ c = col
    BY MajorIs
  <2> QED
    BY <2>1, <2>2
<1>2. ASSUME NEW r \in Places
      PROVE  fixed(r)' = IF r = row THEN [fixed(row) EXCEPT ![col] = value]
                         ELSE fixed(r)
  <2>1. fixed(r)' = [c \in Columns |-> data'[MAJOR(r, c)]]
    BY DEF fixed, MAJOR
  <2>2. [fixed(row) EXCEPT ![col] = value] =
          [c \in Columns |-> IF c = col THEN value ELSE data[MAJOR(row, c)]]
    BY DEF fixed
  <2>3. CASE r = row
    BY <1>1, <2>1, <2>2, <2>3
  <2>4. CASE r # row
    BY <1>1, <2>1, <2>4 DEF fixed
  <2> QED
    BY <2>3, <2>4
<1> QED
  BY <1>2

-----------------------------------------------------------------------------

\* Indices go round.
LEMMA OnwardIs ==
    ASSUME NEW index \in Places, NEW num \in Places
    PROVE  /\ Onward(index, num) =
                IF index + num < Rows THEN index + num ELSE index + num - Rows
           /\ Onward(index, num) \in Places
<1>1. Rows \in Nat \ {0} /\ index \in 0..Rows - 1 /\ num \in 0..Rows - 1
  BY RingSizes DEF Places
<1>2. CASE index + num < Rows
  <2>1. index + num \in 0..Rows - 1
    BY <1>1, <1>2
  <2>2. (index + num) % Rows = index + num
    BY <1>1, <2>1, ModSmall
  <2> QED
    BY <1>1, <1>2, <2>1, <2>2 DEF Onward, Places
<1>3. CASE ~(index + num < Rows)
  <2>1. PICK n \in Nat : n = index + num
    BY <1>1
  <2>2. PICK r \in 0..Rows - 1 : r = n - Rows
    BY <1>1, <1>3, <2>1
  <2>3. n = Rows * 1 + r /\ 1 \in Int
    BY <1>1, <2>1, <2>2
  <2>4. n % Rows = r
    BY <1>1, <2>3, ModUnique
  <2>5. Onward(index, num) = r
    BY <2>1, <2>4 DEF Onward
  <2> QED
    BY <1>1, <1>3, <2>1, <2>2, <2>5 DEF Places
<1> QED
  BY <1>2, <1>3

Size == IF NotInit THEN 0 ELSE hash_row + 1

\* The rows that are kept: as many as lie from the tail to the row last written.
RowsHold ==
    /\ Size \in 0..Rows
    /\ NotInit => tail = 0 /\ writed = 0 /\ writing = 0
    /\ ~NotInit => /\ hash_row \in Places
                   /\ writing = IF writed = Rows - 1 THEN 0 ELSE writed + 1
                   /\ Place(Size) = writed
    /\ Place(1) = tail
    /\ \A n \in 1..Rows : Place(n) \in Places
    /\ \A n, k \in 1..Rows : Place(n) = Place(k) => n = k
    /\ Kept \in Seq(RowsOfCells) /\ Len(Kept) = Size
    /\ \A n \in 1..Size : Kept[n] = fixed(Place(n))

LEMMA KeptRows == PermitTypeOK => RowsHold
<1> SUFFICES ASSUME PermitTypeOK PROVE RowsHold
  OBVIOUS
<1>1. /\ Rows \in Nat /\ Rows >= 2
      /\ writing \in 0..Rows - 1 /\ writed \in 0..Rows - 1 /\ tail \in 0..Rows - 1
      /\ \/ writing = 0 /\ writed = 0 /\ tail = 0
         \/ writing = 0 /\ writed = Rows - 1
         \/ writing = writed + 1
  BY RingSizes DEF PermitTypeOK, Places
<1>2. /\ Size \in 0..Rows
      /\ NotInit => tail = 0 /\ writed = 0 /\ writing = 0
      /\ ~NotInit => /\ hash_row \in Places
                     /\ writing = IF writed = Rows - 1 THEN 0 ELSE writed + 1
                     /\ Place(Size) = writed
  BY <1>1 DEF Size, NotInit, hash_row, Places, Place
<1>3. /\ Place(1) = tail
      /\ \A n \in 1..Rows : Place(n) \in Places
      /\ \A n, k \in 1..Rows : Place(n) = Place(k) => n = k
  BY <1>1 DEF Place, Places
<1>4. ASSUME NEW r \in Places
      PROVE  fixed(r) \in RowsOfCells
  BY MajorIs DEF fixed, RowsOfCells, PermitTypeOK
<1>5. /\ Kept \in [1..Size -> RowsOfCells]
      /\ \A n \in 1..Size : Kept[n] = fixed(Place(n))
  <2>1. Kept = [n \in 1..Size |-> fixed(Place(n))]
    BY DEF Kept, Size
  <2>2. \A n \in 1..Size : n \in 1..Rows
    BY <1>1, <1>2
  <2> QED
    BY <1>3, <1>4, <2>1, <2>2
<1>6. Kept \in Seq(RowsOfCells) /\ Len(Kept) = Size
  <2>1. Size \in Nat
    BY <1>1, <1>2
  <2>2. DOMAIN Kept = 1..Size
    BY <1>5
  <2> QED
    BY <1>5, <2>1, <2>2
<1> QED
  BY <1>2, <1>3, <1>5, <1>6 DEF RowsHold

\* A change of one row, or of none, that leaves the indices alone.
LEMMA SameRows ==
    ASSUME PermitTypeOK, PermitTypeOK',
           writing' = writing, writed' = writed, tail' = tail,
           NEW n \in 1..Size, NEW row \in RowsOfCells,
           \A r \in Places : fixed(r)' = IF r = Place(n) THEN row ELSE fixed(r)
    PROVE  Kept' = [Kept EXCEPT ![n] = row] /\ n \in DOMAIN Kept /\ n \in 1..Rows
<1>1. RowsHold
  BY KeptRows
<1>2. RowsHold'
  BY KeptRows, PTL
<1>3. Size' = Size /\ \A k : Place(k)' = Place(k)
  BY DEF Size, NotInit, hash_row, Place
<1>4. /\ Kept' \in Seq(RowsOfCells) /\ Len(Kept') = Size
      /\ \A k \in 1..Size : Kept'[k] = fixed(Place(k))'
  BY <1>2, <1>3 DEF RowsHold
<1>5. /\ Kept \in Seq(RowsOfCells) /\ Len(Kept) = Size /\ Size \in 0..Rows
      /\ \A k \in 1..Size : Kept[k] = fixed(Place(k))
  BY <1>1 DEF RowsHold
<1>6. n \in 1..Len(Kept)
  BY <1>5
<1> DEFINE new == [Kept EXCEPT ![n] = row]
<1>7. /\ new \in Seq(RowsOfCells) /\ Len(new) = Size
      /\ \A k \in 1..Size : new[k] = IF k = n THEN row ELSE Kept[k]
  BY <1>5, <1>6, ExceptSeq
<1>8. \A k \in 1..Size : Kept'[k] = new[k]
  <2> SUFFICES ASSUME NEW k \in 1..Size PROVE Kept'[k] = new[k]
    OBVIOUS
  <2>1. k \in 1..Rows /\ n \in 1..Rows
    BY <1>5, RingSizes
  <2>2. Place(k) \in Places /\ (Place(k) = Place(n) => k = n)
    BY <1>1, <2>1 DEF RowsHold
  <2>3. Kept'[k] = fixed(Place(k))'
    BY <1>4
  <2>4. fixed(Place(k))' = IF Place(k) = Place(n) THEN row ELSE fixed(Place(k))
    <3>1. PICK p : p = Place(k)
      OBVIOUS
    <3>2. Place(k)' = p
      BY <1>3, <3>1
    <3>3. fixed(Place(k))' = fixed(p)'
      BY <3>2 DEF fixed, MAJOR
    <3> QED
      BY <2>2, <3>1, <3>3
  <2> QED
    BY <1>5, <1>7, <2>2, <2>3, <2>4
<1> HIDE DEF new
<1>9. Kept' = new
  BY <1>4, <1>7, <1>8, SeqEqual
<1> QED
  BY <1>5, <1>6, <1>9, RingSizes DEF new

\* The row of an age, counted from the oldest.
LEMMA RealRowIs ==
    ASSUME PermitTypeOK, NEW age \in Nat, ~NotInit, age <= hash_row
    PROVE  /\ Size - age \in 1..Size /\ RealRow(age) = Place(Size - age)
           /\ RealRow(age) \in Places
<1>1. /\ Rows \in Nat /\ Rows >= 2
      /\ writed \in 0..Rows - 1 /\ tail \in 0..Rows - 1
      /\ hash_row \in 0..Rows - 1 /\ Size = hash_row + 1
  BY RingSizes, KeptRows DEF PermitTypeOK, Places, RowsHold, Size
<1>2. Size - age \in 1..Size
  BY <1>1
<1>3. CASE writed < age
  <2>1. Rows - age + writed \in 0..Rows - 1
    BY <1>1, <1>3
  <2>2. (Rows - age + writed) % Rows = Rows - age + writed
    BY <1>1, <2>1, ModSmall
  <2>3. RealRow(age) = Rows - age + writed
    BY <1>3, <2>2 DEF RealRow
  <2> QED
    BY <1>1, <1>2, <1>3, <2>1, <2>3 DEF Place, Size, hash_row, Places
<1>4. CASE ~(writed < age)
  <2>1. RealRow(age) = writed - age
    BY <1>4 DEF RealRow
  <2> QED
    BY <1>1, <1>2, <1>4, <2>1 DEF Place, Size, hash_row, Places
<1> QED
  BY <1>3, <1>4

-----------------------------------------------------------------------------

\* push()
LEMMA PushStep ==
    ASSUME PermitTypeOK, NEW age \in Places, NEW col \in Columns, NEW value \in Cells,
           Push(age, col, value)
    PROVE  PermitTypeOK' /\ R!RecentNext
<1>1. ~NotInit /\ age \in Nat /\ age <= hash_row
  BY RingSizes DEF Push, Reached, Places
<1> DEFINE n == Size - age
<1>2. n \in 1..Size /\ RealRow(age) = Place(n) /\ Place(n) \in Places
  BY <1>1, RealRowIs
<1> HIDE DEF n
<1> DEFINE row == [fixed(Place(n)) EXCEPT ![col] = value]
<1>3. PICK p \in Places : p = Place(n)
  BY <1>2
<1>4. /\ data \in [0..Rows * Cols - 1 -> Cells] /\ major \in {"row", "column"}
      /\ data' = [data EXCEPT ![MAJOR(p, col)] = value] /\ major' = major
  BY <1>2, <1>3 DEF Push, PermitTypeOK
<1>5. /\ data' \in [0..Rows * Cols - 1 -> Cells]
      /\ \A r \in Places :
           fixed(r)' = IF r = p THEN [fixed(p) EXCEPT ![col] = value] ELSE fixed(r)
  BY <1>4, StoredCell
<1>6. PermitTypeOK'
  BY <1>5 DEF Push, PermitTypeOK
<1>7. row \in RowsOfCells
  BY <1>2, MajorIs DEF fixed, RowsOfCells, PermitTypeOK
<1>8. \A r \in Places : fixed(r)' = IF r = Place(n) THEN row ELSE fixed(r)
  BY <1>3, <1>5
<1> HIDE DEF row
<1>9. Kept' = [Kept EXCEPT ![n] = row] /\ n \in DOMAIN Kept /\ n \in 1..Rows
  BY <1>2, <1>6, <1>7, <1>8, SameRows DEF Push
<1>10. R!Change(n, row)
  BY <1>9 DEF R!Change, Push
<1> QED
  BY <1>6, <1>7, <1>9, <1>10 DEF R!RecentNext

LEMMA PushRowStep ==
    ASSUME PermitTypeOK, NEW age \in Places, NEW values \in RowsOfCells,
           PushRow(age, values)
    PROVE  PermitTypeOK' /\ R!RecentNext
<1>1. ~NotInit /\ age \in Nat /\ age <= hash_row
  BY RingSizes DEF PushRow, Reached, Places
<1> DEFINE n == Size - age
<1>2. n \in 1..Size /\ RealRow(age) = Place(n) /\ Place(n) \in Places
  BY <1>1, RealRowIs
<1> HIDE DEF n
<1>3. PICK p \in Places : p = Place(n)
  BY <1>2
<1>4. /\ data \in [0..Rows * Cols - 1 -> Cells] /\ major \in {"row", "column"}
      /\ data' = Stored(p, values) /\ major' = major
  BY <1>2, <1>3 DEF PushRow, PermitTypeOK
<1>5. /\ data' \in [0..Rows * Cols - 1 -> Cells]
      /\ \A r \in Places : fixed(r)' = IF r = p THEN values ELSE fixed(r)
  BY <1>4, StoredRow
<1>6. PermitTypeOK'
  BY <1>5 DEF PushRow, PermitTypeOK
<1>8. \A r \in Places : fixed(r)' = IF r = Place(n) THEN values ELSE fixed(r)
  BY <1>3, <1>5
<1>9. Kept' = [Kept EXCEPT ![n] = values] /\ n \in DOMAIN Kept /\ n \in 1..Rows
  BY <1>2, <1>6, <1>8, SameRows DEF PushRow
<1>10. R!Change(n, values)
  BY <1>9 DEF R!Change, PushRow
<1> QED
  BY <1>6, <1>9, <1>10 DEF R!RecentNext

\* The oldest rows are given up: the others are what is left.
LEMMA Forgets ==
    ASSUME PermitTypeOK, NEW num \in Places, ~NotInit, num <= hash_row,
           data' = data, major' = major, writing' = writing, writed' = writed,
           overlap' = overlap, tail' = Onward(tail, num)
    PROVE  /\ PermitTypeOK' /\ num < Len(Kept)
           /\ Kept' = SubSeq(Kept, num + 1, Len(Kept))
<1>1. RowsHold
  BY KeptRows
<1>2. /\ Rows \in Nat /\ Rows >= 2 /\ num \in 0..Rows - 1
      /\ writed \in 0..Rows - 1 /\ tail \in 0..Rows - 1
      /\ hash_row \in 0..Rows - 1 /\ Size = hash_row + 1 /\ Size \in 1..Rows
  BY <1>1, RingSizes DEF RowsHold, PermitTypeOK, Places, Size
<1>3. tail \in Places /\ num \in Places
  BY DEF PermitTypeOK
<1>4. /\ tail' = IF tail + num < Rows THEN tail + num ELSE tail + num - Rows
      /\ tail' \in Places
  BY <1>3, OnwardIs
<1>5. PermitTypeOK'
  BY <1>4, <1>1 DEF PermitTypeOK, RowsHold, NotInit
<1>6. RowsHold'
  BY <1>5, KeptRows, PTL
<1>7. /\ Size' = Size - num
      /\ \A k \in 1..Rows : k + num <= Size => Place(k)' = Place(k + num)
  BY <1>2, <1>4 DEF Size, NotInit, hash_row, Place
<1>8. /\ Kept' \in Seq(RowsOfCells) /\ Len(Kept') = Size - num
      /\ \A k \in 1..Size - num : Kept'[k] = fixed(Place(k))'
  BY <1>6, <1>7 DEF RowsHold
<1>9. /\ Kept \in Seq(RowsOfCells) /\ Len(Kept) = Size
      /\ \A k \in 1..Size : Kept[k] = fixed(Place(k))
  BY <1>1 DEF RowsHold
<1> DEFINE rest == SubSeq(Kept, num + 1, Size)
<1>10. /\ rest \in Seq(RowsOfCells) /\ Len(rest) = Size - num
       /\ \A k \in 1..Size - num : rest[k] = Kept[num + k]
  <2>1. \A k \in num + 1..Size : Kept[k] \in RowsOfCells
    BY <1>2, <1>9, ElementOfSeq
  <2>2. /\ rest \in Seq(RowsOfCells)
        /\ Len(rest) = IF num + 1 <= Size THEN Size - (num + 1) + 1 ELSE 0
        /\ \A k \in 1..Size - (num + 1) + 1 : rest[k] = Kept[(num + 1) + k - 1]
    <3>1. num + 1 \in Int /\ Size \in Int
      BY <1>2
    <3> QED
      BY <2>1, <3>1, SubSeqProperties
  <2> HIDE DEF rest
  <2>3. Size - (num + 1) + 1 = Size - num /\ num + 1 <= Size
    BY <1>2
  <2>4. \A k \in 1..Size - num : (num + 1) + k - 1 = num + k
    BY <1>2
  <2> QED
    BY <2>2, <2>3, <2>4
<1>11. \A k \in 1..Size - num : Kept'[k] = rest[k]
  <2> SUFFICES ASSUME NEW k \in 1..Size - num PROVE Kept'[k] = rest[k]
    OBVIOUS
  <2>1. k + num \in 1..Size /\ k \in 1..Rows /\ k + num <= Size /\ num + k = k + num
    BY <1>2
  <2>2. PICK p : p = Place(k + num)
    OBVIOUS
  <2>3. Place(k)' = p
    BY <1>7, <2>1, <2>2
  <2>4. fixed(Place(k))' = fixed(p)
    BY <2>3 DEF fixed, MAJOR
  <2> QED
    BY <1>8, <1>9, <1>10, <2>1, <2>2, <2>4
<1> HIDE DEF rest
<1>12. Kept' = rest
  <2>1. Len(Kept') = Len(rest) /\ \A k \in 1..Len(Kept') : Kept'[k] = rest[k]
    BY <1>8, <1>10, <1>11
  <2> QED
    BY <1>8, <1>10, <2>1, SeqEqual
<1> QED
  BY <1>2, <1>5, <1>9, <1>12 DEF rest

LEMMA CursorStep ==
    ASSUME PermitTypeOK, Cursor
    PROVE  PermitTypeOK' /\ R!RecentNext
<1>1. ~NotInit /\ hash_row >= 1 /\ 1 \in Places
  <2>1. /\ Rows \in Nat /\ Rows >= 2 /\ writed \in 0..Rows - 1 /\ tail \in 0..Rows - 1
        /\ writed # tail
    BY RingSizes DEF Cursor, PermitTypeOK, Places
  <2>2. ~NotInit
    BY <2>1, KeptRows DEF RowsHold
  <2>3. hash_row >= 1 /\ 1 \in Places
    BY <2>1 DEF hash_row, Places
  <2> QED
    BY <2>2, <2>3
<1>2. /\ PermitTypeOK' /\ 1 < Len(Kept) /\ Kept' = SubSeq(Kept, 1 + 1, Len(Kept))
  BY <1>1, Forgets DEF Cursor
<1>3. R!GiveUp(1) /\ 1 \in 1..Rows
  BY <1>2, RingSizes DEF R!GiveUp, Cursor
<1> QED
  BY <1>2, <1>3 DEF R!RecentNext

LEMMA CursorManyStep ==
    ASSUME PermitTypeOK, NEW num \in 0..Rows, CursorMany(num)
    PROVE  PermitTypeOK' /\ (R!RecentNext \/ UNCHANGED <<Kept, overlap>>)
<1> DEFINE real == IF writed > tail THEN writed - tail ELSE Rows - tail + writed
           n == IF num > real THEN real ELSE num
<1>1. ~NotInit /\ real = hash_row /\ hash_row \in Places
  BY RingSizes, KeptRows DEF CursorMany, PermitTypeOK, Places, RowsHold, hash_row, NotInit
<1>2. n \in Places /\ n <= hash_row /\ n \in 0..Rows
  BY <1>1, RingSizes DEF Places
<1>3. tail' = Onward(tail, n)
  BY DEF CursorMany
<1> HIDE DEF n, real
<1>4. /\ PermitTypeOK' /\ n < Len(Kept) /\ Kept' = SubSeq(Kept, n + 1, Len(Kept))
  BY <1>1, <1>2, <1>3, Forgets DEF CursorMany
<1>5. CASE n = 0
  <2>1. Kept \in Seq(RowsOfCells)
    BY KeptRows DEF RowsHold
  <2>2. Kept' = Kept
    BY <1>4, <1>5, <2>1, SubSeqFull
  <2> QED
    BY <1>4, <2>2 DEF CursorMany
<1>6. CASE n # 0
  <2>1. n \in 1..Rows /\ R!GiveUp(n)
    BY <1>2, <1>4, <1>6, RingSizes DEF R!GiveUp, CursorMany
  <2> QED
    BY <1>4, <2>1 DEF R!RecentNext
<1> QED
  BY <1>5, <1>6

\* insert()
LEMMA InsertStep ==
    ASSUME PermitTypeOK, NEW values \in RowsOfCells, Insert(values)
    PROVE  PermitTypeOK' /\ R!RecentNext
<1>1. RowsHold
  BY KeptRows
<1>2. /\ Rows \in Nat /\ Rows >= 2 /\ 1 \in 0..Rows - 1
      /\ writing \in 0..Rows - 1 /\ writed \in 0..Rows - 1 /\ tail \in 0..Rows - 1
      /\ \/ writing = 0 /\ writed = 0 /\ tail = 0
         \/ writing = 0 /\ writed = Rows - 1
         \/ writing = writed + 1
      /\ writing \in Places
  BY RingSizes DEF PermitTypeOK, Places
<1> DEFINE next == IF writed = Rows - 1 THEN 0 ELSE writed + 1
           full == next = tail
<1>3. /\ Onward(writed, 1) = next
      /\ writing' = IF writing = Rows - 1 THEN 0 ELSE writing + 1
      /\ writed' = writing
      /\ full => overlap
      /\ tail' = IF ~full THEN tail ELSE IF tail = Rows - 1 THEN 0 ELSE tail + 1
      /\ overlap' = overlap
  <2>1. \A x \in Places : Onward(x, 1) = IF x = Rows - 1 THEN 0 ELSE x + 1
    <3> SUFFICES ASSUME NEW x \in Places
                 PROVE  Onward(x, 1) = IF x = Rows - 1 THEN 0 ELSE x + 1
      OBVIOUS
    <3>1. Onward(x, 1) = IF x + 1 < Rows THEN x + 1 ELSE x + 1 - Rows
      BY <1>2, OnwardIs DEF Places
    <3> QED
      BY <1>2, <3>1 DEF Places
  <2>2. writed \in Places /\ writing \in Places /\ tail \in Places
    BY <1>2 DEF Places
  <2>3. Onward(writed, 1) = next /\ writing' = IF writing = Rows - 1 THEN 0 ELSE writing + 1
    BY <2>1, <2>2 DEF Insert
  <2>4. writed' = writing
    BY <1>2, <2>3 DEF Insert
  <2> QED
    BY <2>1, <2>2, <2>3, <2>4 DEF Insert
<1>4. /\ data' \in [0..Rows * Cols - 1 -> Cells]
      /\ \A r \in Places : fixed(r)' = IF r = writing THEN values ELSE fixed(r)
  <2>1. /\ data \in [0..Rows * Cols - 1 -> Cells] /\ major \in {"row", "column"}
        /\ data' = Stored(writing, values) /\ major' = major
    BY DEF Insert, PermitTypeOK
  <2>2. PICK w \in Places : w = writing
    BY <1>2
  <2>3. data' = Stored(w, values)
    BY <2>1, <2>2
  <2>4. /\ data' \in [0..Rows * Cols - 1 -> Cells]
        /\ \A r \in Places : fixed(r)' = IF r = w THEN values ELSE fixed(r)
    BY <2>1, <2>3, StoredRow
  <2> QED
    BY <2>2, <2>4
<1>5. PermitTypeOK'
  <2>1. tail' \in 0..Rows - 1 /\ writing' \in 0..Rows - 1 /\ writed' \in 0..Rows - 1
    BY <1>2, <1>3
  <2>2. \/ writing' = 0 /\ writed' = Rows - 1
        \/ writing' = writed' + 1
    BY <1>2, <1>3
  <2>3. major' \in {"row", "column"} /\ overlap' \in BOOLEAN
    BY DEF Insert, PermitTypeOK
  <2> QED
    BY <1>4, <2>1, <2>2, <2>3 DEF PermitTypeOK, Places
<1>6. RowsHold'
  BY <1>5, KeptRows, PTL
<1> DEFINE old == IF full THEN 1 ELSE 0
<1>7. /\ full <=> Size = Rows
      /\ Size' = Size + 1 - old /\ Size \in 0..Rows /\ Size' \in 1..Rows
      /\ \A k \in 1..Rows : k = Size' => Place(k)' = writing
      /\ \A k \in 1..Rows : k < Size' => /\ Place(k)' = Place(k + old)
                                        /\ Place(k)' # writing
                                        /\ k + old \in 1..Size
  <2>1. /\ full <=> Size = Rows
        /\ Size' = Size + 1 - old /\ Size \in 0..Rows /\ Size' \in 1..Rows
    BY <1>2, <1>3 DEF Size, NotInit, hash_row
  <2>2. \A k \in 1..Rows : k = Size' => Place(k)' = writing
    <3>1. ~NotInit'
      BY <2>1 DEF Size
    <3>2. Place(Size)' = writing
      BY <1>3, <1>6, <3>1 DEF RowsHold
    <3> QED
      BY <3>2 DEF Place
  <2>3. \A k \in 1..Rows : k < Size' => Place(k)' = Place(k + old) /\ k + old \in 1..Size
    BY <1>2, <1>3, <2>1 DEF Place, NotInit, Size, hash_row
  <2>4. \A k \in 1..Rows : k < Size' => Place(k)' # writing
    <3> SUFFICES ASSUME NEW k \in 1..Rows, k < Size' PROVE Place(k)' # writing
      OBVIOUS
    <3>1. PICK z \in 1..Rows : z = Size'
      BY <2>1
    <3>2. Place(z)' = writing /\ z # k
      BY <2>2, <3>1
    <3>3. Place(k)' = Place(z)' => k = z
      BY <1>6 DEF RowsHold
    <3> QED
      BY <3>2, <3>3
  <2> QED
    BY <2>1, <2>2, <2>3, <2>4
<1>8. /\ Kept' \in Seq(RowsOfCells) /\ Len(Kept') = Size'
      /\ \A k \in 1..Size' : Kept'[k] = fixed(Place(k))'
  BY <1>6 DEF RowsHold
<1>9. /\ Kept \in Seq(RowsOfCells) /\ Len(Kept) = Size
      /\ \A k \in 1..Size : Kept[k] = fixed(Place(k))
  BY <1>1 DEF RowsHold
<1>10. R!Full <=> full
  BY <1>7, <1>9 DEF R!Full
<1> DEFINE room == IF full THEN Tail(Kept) ELSE Kept
           all == Append(room, values)
<1>11. /\ room \in Seq(RowsOfCells) /\ Len(room) = Size - old
       /\ \A k \in 1..Size - old : room[k] = Kept[k + old]
  <2>1. CASE full
    <3>1. Kept # << >>
      BY <1>2, <1>7, <1>9, <2>1
    <3>2. /\ Tail(Kept) \in Seq(RowsOfCells) /\ Len(Tail(Kept)) = Len(Kept) - 1
          /\ \A k \in 1..Len(Tail(Kept)) : Tail(Kept)[k] = Kept[k + 1]
      BY <1>9, <3>1, HeadTailProperties
    <3> QED
      BY <1>9, <2>1, <3>2
  <2>2. CASE ~full
    BY <1>7, <1>9, <2>2
  <2> QED
    BY <2>1, <2>2
<1> HIDE DEF room, full, old
<1>12. /\ all \in Seq(RowsOfCells) /\ Len(all) = Size'
       /\ \A k \in 1..Size' : all[k] = IF k < Size' THEN Kept[k + old] ELSE values
  <2>1. /\ all \in Seq(RowsOfCells) /\ Len(all) = Len(room) + 1
        /\ \A k \in 1..Len(room) : all[k] = room[k]
        /\ all[Len(room) + 1] = values
    BY <1>11, AppendProperties
  <2> HIDE DEF all
  <2>2. Len(room) + 1 = Size' /\ Len(room) = Size - old /\ Len(room) \in Nat
    BY <1>7, <1>11 DEF old
  <2> QED
    BY <1>11, <2>1, <2>2, <1>7
<1> HIDE DEF all
<1>13. \A k \in 1..Size' : Kept'[k] = all[k]
  <2> SUFFICES ASSUME NEW k \in 1..Size' PROVE Kept'[k] = all[k]
    OBVIOUS
  <2>1. k \in 1..Rows /\ (k < Size' \/ k = Size')
    BY <1>2, <1>7
  <2>2. PICK p : p = Place(k)'
    OBVIOUS
  <2>3. fixed(Place(k))' = fixed(p)'
    BY <2>2 DEF fixed, MAJOR
  <2>4. p \in Places
    BY <1>6, <2>1, <2>2 DEF RowsHold, Places
  <2>5. Kept'[k] = IF p = writing THEN values ELSE fixed(p)
    BY <1>4, <1>8, <2>3, <2>4
  <2>6. CASE k < Size'
    BY <1>7, <1>9, <1>12, <2>1, <2>2, <2>5, <2>6
  <2>7. CASE k = Size'
    <3>1. p = writing
      BY <1>7, <2>1, <2>2, <2>7
    <3> QED
      BY <1>12, <2>5, <2>7, <3>1
  <2> QED
    BY <2>1, <2>6, <2>7
<1>14. Kept' = all
  <2>1. Len(Kept') = Len(all) /\ \A k \in 1..Len(Kept') : Kept'[k] = all[k]
    BY <1>8, <1>12, <1>13
  <2> QED
    BY <1>8, <1>12, <2>1, SeqEqual
<1>15. R!Add(values)
  <2>1. all = IF R!Full THEN Append(Tail(Kept), values) ELSE Append(Kept, values)
    BY <1>10 DEF all, room
  <2>2. R!Full => overlap
    BY <1>3, <1>10 DEF full
  <2> QED
    BY <1>3, <1>14, <2>1, <2>2 DEF R!Add
<1> QED
  BY <1>5, <1>15 DEF R!RecentNext

LEMMA PermitStep ==
    PermitTypeOK /\ [PermitNext]_permitVars
        => PermitTypeOK' /\ [R!RecentNext]_<<Kept, overlap>>
<1> SUFFICES ASSUME PermitTypeOK, [PermitNext]_permitVars
             PROVE  PermitTypeOK' /\ (R!RecentNext \/ UNCHANGED <<Kept, overlap>>)
  OBVIOUS
<1>1. ASSUME NEW values \in RowsOfCells, Insert(values)
      PROVE  PermitTypeOK' /\ R!RecentNext
  BY <1>1, InsertStep
<1>2. ASSUME NEW values \in RowsOfCells, NEW age \in Places, PushRow(age, values)
      PROVE  PermitTypeOK' /\ R!RecentNext
  BY <1>2, PushRowStep
<1>3. ASSUME NEW age \in Places, NEW col \in Columns, NEW value \in Cells,
             Push(age, col, value)
      PROVE  PermitTypeOK' /\ R!RecentNext
  BY <1>3, PushStep
<1>4. ASSUME Cursor
      PROVE  PermitTypeOK' /\ R!RecentNext
  BY <1>4, CursorStep
<1>5. ASSUME NEW num \in 0..Rows, CursorMany(num)
      PROVE  PermitTypeOK' /\ (R!RecentNext \/ UNCHANGED <<Kept, overlap>>)
  BY <1>5, CursorManyStep
<1>6. ASSUME NEW on \in BOOLEAN, over_load(on)
      PROVE  PermitTypeOK' /\ R!RecentNext
  <2>1. Kept' = Kept
    BY <1>6 DEF over_load, Kept, NotInit, hash_row, fixed, MAJOR, Place
  <2>2. R!Allow(on)
    BY <1>6, <2>1 DEF R!Allow, over_load
  <2> QED
    BY <1>6, <2>2 DEF R!RecentNext, over_load, PermitTypeOK
<1>7. CASE UNCHANGED permitVars
  <2>1. Kept' = Kept
    BY <1>7 DEF permitVars, Kept, NotInit, hash_row, fixed, MAJOR, Place
  <2> QED
    BY <1>7, <2>1 DEF permitVars, PermitTypeOK
<1> QED
  BY <1>1, <1>2, <1>3, <1>4, <1>5, <1>6, <1>7 DEF PermitNext

LEMMA PermitStarts == PermitInit => PermitTypeOK /\ R!RecentInit
<1> SUFFICES ASSUME PermitInit PROVE PermitTypeOK /\ R!RecentInit
  OBVIOUS
<1>1. PermitTypeOK
  <2>1. data \in [0..Rows * Cols - 1 -> Cells]
    BY RingSizes DEF PermitInit
  <2>2. {writing, writed, tail} \subseteq Places
    BY RingSizes DEF PermitInit, Places
  <2> QED
    BY <2>1, <2>2 DEF PermitInit, PermitTypeOK
<1>2. NotInit
  BY DEF PermitInit, NotInit
<1>3. Kept \in Seq(RowsOfCells) /\ Len(Kept) = 0
  BY <1>1, <1>2, KeptRows DEF RowsHold, Size
<1>4. Kept = << >>
  BY <1>3, EmptySeq
<1> QED
  BY <1>1, <1>4 DEF R!RecentInit, PermitInit

\* A ring of any number of rows and columns keeps what is inserted in its order
\* and gives up only its oldest rows, when it is told to or may write over them
\* (SilkPermit's insert(), push() and cursor()).
THEOREM RingsKeepWhatIsRecent == PermitSpec => ImplementsRecent
<1> QED
  BY PermitStarts, PermitStep, PTL DEF PermitSpec, ImplementsRecent, R!RecentSpec

\* Whatever was written is read: by its age, from the oldest on, and element by
\* element, with rows or columns together (read(), tail(), at(), fetch()).
THEOREM RingsReadWhatTheyKeep == PermitSpec => []PermitInv
<1>1. PermitTypeOK => ReadsTheKept
  <2> SUFFICES ASSUME PermitTypeOK PROVE ReadsTheKept
    OBVIOUS
  <2>1. RowsHold
    BY KeptRows
  <2>2. /\ Rows \in Nat /\ Rows >= 2 /\ Cols \in Nat /\ Size \in 0..Rows
        /\ Len(Kept) = Size /\ DOMAIN Kept = 1..Size
        /\ \A n \in 1..Size : Kept[n] = fixed(Place(n))
        /\ NotInit => Size = 0
        /\ ~NotInit => Size = hash_row + 1 /\ hash_row \in 0..Rows - 1
    <3>1. Kept \in Seq(RowsOfCells) /\ Len(Kept) = Size
      BY <2>1 DEF RowsHold
    <3>2. DOMAIN Kept = 1..Size
      BY <3>1, LenProperties
    <3> QED
      BY <2>1, <3>1, <3>2, RingSizes DEF RowsHold, Size, Places
  <2>3. ASSUME NEW age \in 0..Rows
        PROVE  ReadRow(age) = IF age < Len(Kept) THEN Kept[Len(Kept) - age] ELSE NoRow
    <3>1. CASE NotInit \/ age > hash_row
      BY <2>2, <3>1 DEF ReadRow
    <3>2. CASE ~NotInit /\ ~(age > hash_row)
      <4>1. age \in Nat /\ age <= hash_row
        BY <2>2, <3>2
      <4>2. Size - age \in 1..Size /\ RealRow(age) = Place(Size - age)
        BY <3>2, <4>1, RealRowIs
      <4> QED
        BY <2>2, <3>2, <4>1, <4>2 DEF ReadRow
    <3> QED
      BY <3>1, <3>2
  <2>4. ASSUME NEW n \in 0..Rows
        PROVE  Oldest(n) = IF n \in DOMAIN Kept THEN Kept[n] ELSE NoRow
    <3>1. CASE NotInit \/ n = 0 \/ hash_row + 1 < n
      BY <2>2, <3>1 DEF Oldest
    <3>2. CASE ~NotInit /\ n # 0 /\ ~(hash_row + 1 < n)
      <4> DEFINE age == hash_row + 1 - n
      <4>1. age \in Nat /\ age <= hash_row /\ Size - age = n /\ n \in 1..Size
        BY <2>2, <3>2
      <4> HIDE DEF age
      <4>2. RealRow(age) = Place(n)
        BY <3>2, <4>1, RealRowIs
      <4>3. Oldest(n) = fixed(RealRow(age))
        BY <3>2 DEF Oldest, age
      <4> QED
        BY <2>2, <4>1, <4>2, <4>3
    <3> QED
      BY <3>1, <3>2
  <2>5. ASSUME NEW age \in 0..Rows, NEW col \in Columns
        PROVE  Element(age, col) = IF age < Len(Kept) THEN ReadRow(age)[col] ELSE 0
    <3>1. col < Cols
      BY <2>2 DEF Columns
    <3>2. age < Len(Kept) <=> ~NotInit /\ ~(age > hash_row)
      BY <2>2
    <3>3. age < Len(Kept) => ~(age >= Rows)
      BY <2>2
    <3>4. CASE age < Len(Kept)
      <4>1. ReadRow(age)[col] = data[MAJOR(RealRow(age), col)]
        BY <3>2, <3>4 DEF ReadRow, fixed
      <4>2. age \in Int /\ col \in Int
        BY <2>2 DEF Columns
      <4> QED
        BY <2>2, <3>1, <3>2, <3>3, <3>4, <4>1, <4>2 DEF Element
    <3>5. CASE ~(age < Len(Kept))
      BY <3>2, <3>5 DEF Element
    <3> QED
      BY <3>4, <3>5
  <2>6. Reads(Rows) = Len(Kept) /\ (Len(Kept) < Rows => Tails(Rows) = Len(Kept))
    BY <2>2 DEF Reads, Tails
  <2>7. Kept # << >> /\ writing # 0 => fixed(Writed) = Kept[Len(Kept)]
    <3> SUFFICES ASSUME Kept # << >>, writing # 0 PROVE fixed(Writed) = Kept[Len(Kept)]
      OBVIOUS
    <3>1. Size # 0
      BY <2>1, EmptySeq DEF RowsHold
    <3>2. ~NotInit /\ Size \in 1..Size
      BY <2>2, <3>1
    <3>3. Place(Size) = writed
      BY <2>1, <3>2 DEF RowsHold
    <3> QED
      BY <2>2, <3>2, <3>3 DEF Writed
  <2> QED
    BY <2>3, <2>4, <2>5, <2>6, <2>7 DEF ReadsTheKept
<1> QED
  BY <1>1, PermitStarts, PermitStep, PTL DEF PermitSpec, PermitInv

-----------------------------------------------------------------------------
(****************************************************************************)
(* A connection of PGConnectPool has one user, a result set gives its own    *)
(* rows once, and what is put back is clean, for any threads and any size of *)
(* pool: unless the pool grew between the two looks of somebody's ptr().     *)
(****************************************************************************)

Users ==
    [at : {"idle", "ptr", "at", "lost", "has", "rows", "read"}, idx : Nat,
     vector : Nat, conn : Nat, moved : BOOLEAN]

UsersTyped ==
    /\ pool \in Seq(BOOLEAN)
    /\ user \in [Threads -> Users]

Placed(t) == user[t].at # "idle"

\* The place of a thread is marked, and is nobody else's.
Marked ==
    /\ \A t \in Threads : Placed(t) =>
          user[t].idx \in DOMAIN pool /\ pool[user[t].idx] = FALSE
    /\ \A t, u \in Threads :
          t # u /\ Placed(t) /\ Placed(u) => user[t].idx # user[u].idx

\* Who looked at the vector twice without its growing has the connection of its
\* place.
Found == \A t \in Threads : Holds(t) /\ ~user[t].moved => user[t].conn = user[t].idx

UsersInv == UsersTyped /\ Marked /\ Found

-----------------------------------------------------------------------------

LEMMA InitUsers == DatabaseInit => UsersInv
<1> SUFFICES ASSUME DatabaseInit PROVE UsersInv
  OBVIOUS
<1>1. Idle \in Users /\ Idle.at = "idle"
  BY DEF Idle, Users
<1>2. user \in [Threads -> Users] /\ \A t \in Threads : user[t].at = "idle"
  BY <1>1 DEF DatabaseInit
<1>3. pool \in Seq(BOOLEAN)
  BY DatabaseAssumption DEF DatabaseInit
<1> QED
  BY <1>2, <1>3 DEF UsersInv, UsersTyped, Marked, Found, Placed, Holds

LEMMA MarkedPlace ==
    ASSUME NEW s \in Seq(BOOLEAN), NEW k \in DOMAIN s, NEW b \in BOOLEAN
    PROVE  LET r == [s EXCEPT ![k] = b]
           IN  /\ r \in Seq(BOOLEAN) /\ DOMAIN r = DOMAIN s
               /\ r[k] = b /\ \A j \in DOMAIN s : j # k => r[j] = s[j]
  BY ExceptSeq

LEMMA NewPlace ==
    ASSUME NEW s \in Seq(BOOLEAN)
    PROVE  LET r == Append(s, FALSE)
               k == Len(s) + 1
           IN  /\ r \in Seq(BOOLEAN) /\ k \in Nat
               /\ k \in DOMAIN r /\ k \notin DOMAIN s /\ r[k] = FALSE
               /\ \A j \in DOMAIN s : j \in DOMAIN r /\ r[j] = s[j]
<1>1. Len(s) \in Nat /\ DOMAIN s = 1..Len(s)
  OBVIOUS
<1>2. /\ Append(s, FALSE) \in Seq(BOOLEAN)
      /\ Len(Append(s, FALSE)) = Len(s) + 1
      /\ \A j \in 1..Len(s) : Append(s, FALSE)[j] = s[j]
      /\ Append(s, FALSE)[Len(s) + 1] = FALSE
  BY AppendProperties
<1>3. DOMAIN Append(s, FALSE) = 1..Len(s) + 1
  BY <1>2
<1> QED
  BY <1>1, <1>2, <1>3

\* What a step does to the places of the others is nothing.
LEMMA NotHis ==
    ASSUME UsersTyped, NEW t \in Threads, NEW r \in Users,
           user' = [user EXCEPT ![t] = r]
    PROVE  /\ user' \in [Threads -> Users]
           /\ user'[t] = r
           /\ \A u \in Threads : u # t => user'[u] = user[u]
  BY DEF UsersTyped

\* getId() marks a place nobody has: it was free, or is new.
LEMMA GetIdIInv ==
    ASSUME UsersInv, NEW t \in Threads, GetId(t)
    PROVE  UsersInv'
<1>1. UsersTyped /\ Marked /\ Found
  BY DEF UsersInv
<1>2. PICK idx \in Nat :
        /\ Takes(t, idx)
        /\ pool' \in Seq(BOOLEAN)
        /\ \A k \in DOMAIN pool : k \in DOMAIN pool'
        /\ \A k \in DOMAIN pool : k # idx => pool'[k] = pool[k]
        /\ idx \in DOMAIN pool' /\ pool'[idx] = FALSE
        /\ ~(idx \in DOMAIN pool /\ pool[idx] = FALSE)
  <2>1. CASE \E idx \in DOMAIN pool :
             /\ pool[idx] /\ \A k \in 1..idx - 1 : ~pool[k]
             /\ pool' = [pool EXCEPT ![idx] = FALSE] /\ UNCHANGED pg
             /\ Takes(t, idx)
    <3>1. PICK idx \in DOMAIN pool :
             /\ pool[idx] /\ \A k \in 1..idx - 1 : ~pool[k]
             /\ pool' = [pool EXCEPT ![idx] = FALSE] /\ UNCHANGED pg
             /\ Takes(t, idx)
      BY <2>1
    <3>2. pool \in Seq(BOOLEAN) /\ idx \in Nat /\ pool[idx] # FALSE
      BY <1>1, <3>1 DEF UsersTyped
    <3> QED
      BY <3>1, <3>2, MarkedPlace
  <2>2. CASE /\ \A k \in DOMAIN pool : ~pool[k]
             /\ pool' = Append(pool, FALSE) /\ pg' = Append(pg, Pgsql)
             /\ Takes(t, Len(pool) + 1)
    <3>1. pool \in Seq(BOOLEAN)
      BY <1>1 DEF UsersTyped
    <3> QED
      BY <2>2, <3>1, NewPlace
  <2> QED
    BY <2>1, <2>2 DEF GetId
<1> DEFINE r == [Idle EXCEPT !.at = "ptr", !.idx = idx]
<1>3. r \in Users /\ r.at = "ptr" /\ r.idx = idx
  BY DEF Idle, Users
<1>4. user' = [user EXCEPT ![t] = r]
  BY <1>2 DEF Takes
<1> HIDE DEF r
<1>5. /\ user' \in [Threads -> Users] /\ user'[t] = r
      /\ \A u \in Threads : u # t => user'[u] = user[u]
  BY <1>1, <1>3, <1>4, NotHis
<1>6. \A u \in Threads : Placed(u) => user[u].idx \in DOMAIN pool /\ user[u].idx # idx
  BY <1>1, <1>2 DEF Marked
<1>7. Marked'
  BY <1>1, <1>2, <1>3, <1>5, <1>6 DEF Marked, Placed
<1>8. Found'
  BY <1>1, <1>3, <1>5 DEF Found, Holds
<1> QED
  BY <1>2, <1>5, <1>7, <1>8 DEF UsersInv, UsersTyped

\* A step that leaves pool and places alone: what remains to be seen is that the
\* connection of the thread is that of its place.
LEMMA StaysIInv ==
    ASSUME UsersInv, NEW t \in Threads, NEW r \in Users,
           user' = [user EXCEPT ![t] = r], pool' = pool,
           Placed(t), r.idx = user[t].idx,
           r.at \in {"has", "rows", "read"} /\ ~r.moved => r.conn = r.idx
    PROVE  UsersInv'
<1>1. UsersTyped /\ Marked /\ Found
  BY DEF UsersInv
<1>2. /\ user' \in [Threads -> Users] /\ user'[t] = r
      /\ \A u \in Threads : u # t => user'[u] = user[u]
  BY <1>1, NotHis
<1>3. \A u \in Threads : user'[u].idx = user[u].idx /\ (Placed(u)' => Placed(u))
  BY <1>2 DEF Placed
<1>4. Marked'
  BY <1>1, <1>3 DEF Marked
<1>5. Found'
  BY <1>1, <1>2 DEF Found, Holds
<1> QED
  BY <1>1, <1>2, <1>4, <1>5 DEF UsersInv, UsersTyped

LEMMA PtrIInv ==
    ASSUME UsersInv, NEW t \in Threads, Ptr(t)
    PROVE  UsersInv'
<1> DEFINE r == [user[t] EXCEPT !.at = "at", !.vector = Len(pool)]
<1>1. user[t] \in Users /\ Len(pool) \in Nat
  BY DEF UsersInv, UsersTyped
<1>2. r \in Users /\ r.at = "at" /\ r.idx = user[t].idx
  BY <1>1 DEF Users
<1>3. user' = [user EXCEPT ![t] = r] /\ pool' = pool /\ Placed(t)
  BY DEF Ptr, Placed
<1> HIDE DEF r
<1> QED
  BY <1>2, <1>3, StaysIInv

LEMMA PtrAtIInv ==
    ASSUME UsersInv, NEW t \in Threads, PtrAt(t)
    PROVE  UsersInv'
<1>1. user[t] \in Users /\ Len(pool) \in Nat
  BY DEF UsersInv, UsersTyped
<1>2. PICK conn \in IF user[t].vector = Len(pool) THEN {user[t].idx}
                    ELSE 0..Len(pool) :
        user' = [user EXCEPT ![t].at = IF conn = 0 THEN "lost" ELSE "has",
                             ![t].conn = conn,
                             ![t].moved = user[t].vector # Len(pool)]
  BY DEF PtrAt
<1> DEFINE r == [user[t] EXCEPT !.at = IF conn = 0 THEN "lost" ELSE "has",
                                !.conn = conn,
                                !.moved = user[t].vector # Len(pool)]
<1>3. conn \in Nat
  BY <1>1 DEF Users
<1>4. /\ r \in Users /\ r.idx = user[t].idx /\ r.conn = conn
      /\ r.moved = (user[t].vector # Len(pool))
  BY <1>1, <1>3 DEF Users
<1>5. ~r.moved => r.conn = r.idx
  BY <1>4
<1>6. user' = [user EXCEPT ![t] = r] /\ pool' = pool /\ Placed(t)
  BY <1>2, ZenonT(40) DEF PtrAt, Placed
<1> HIDE DEF r
<1> QED
  BY <1>4, <1>5, <1>6, StaysIInv

\* Steps of who has a connection and keeps it.
LEMMA KeepsIInv ==
    ASSUME UsersInv, NEW t \in Threads, Holds(t), pool' = pool,
           NEW at \in {"has", "rows", "read"}, user' = [user EXCEPT ![t].at = at]
    PROVE  UsersInv'
<1> DEFINE r == [user[t] EXCEPT !.at = at]
<1>1. user[t] \in Users /\ Found
  BY DEF UsersInv, UsersTyped
<1>2. /\ r \in Users /\ r.idx = user[t].idx /\ r.conn = user[t].conn
      /\ r.moved = user[t].moved
  BY <1>1 DEF Users
<1>3. user' = [user EXCEPT ![t] = r] /\ Placed(t)
  BY DEF Placed, Holds
<1>4. ~r.moved => r.conn = r.idx
  BY <1>1, <1>2 DEF Found
<1> HIDE DEF r
<1> QED
  BY <1>2, <1>3, <1>4, StaysIInv

\* release() frees a place nobody else has.
LEMMA GiveBackIInv ==
    ASSUME UsersInv, NEW t \in Threads, GiveBack(t)
    PROVE  UsersInv'
<1>1. UsersTyped /\ Marked /\ Found
  BY DEF UsersInv
<1>2. Placed(t)
  BY DEF GiveBack, Placed
<1>3. pool' = [pool EXCEPT ![user[t].idx] = TRUE] /\ user' = [user EXCEPT ![t] = Idle]
  BY DEF GiveBack
<1>4. Idle \in Users /\ Idle.at = "idle"
  BY DEF Idle, Users
<1>5. /\ user' \in [Threads -> Users] /\ user'[t] = Idle
      /\ \A u \in Threads : u # t => user'[u] = user[u]
  BY <1>1, <1>3, <1>4, NotHis
<1>6. pool \in Seq(BOOLEAN) /\ user[t].idx \in DOMAIN pool
  BY <1>1, <1>2 DEF UsersTyped, Marked
<1>7. /\ pool' \in Seq(BOOLEAN) /\ DOMAIN pool' = DOMAIN pool
      /\ \A k \in DOMAIN pool : k # user[t].idx => pool'[k] = pool[k]
  BY <1>3, <1>6, MarkedPlace
<1>8. \A u \in Threads : Placed(u)' => u # t /\ Placed(u) /\ user'[u] = user[u]
  BY <1>4, <1>5 DEF Placed
<1>9. Marked'
  BY <1>1, <1>2, <1>7, <1>8 DEF Marked
<1>10. Found'
  BY <1>1, <1>4, <1>5 DEF Found, Holds
<1> QED
  BY <1>5, <1>7, <1>9, <1>10 DEF UsersInv, UsersTyped

LEMMA NextUsers == UsersInv /\ [DatabaseNext]_databaseVars => UsersInv'
<1> SUFFICES ASSUME UsersInv, [DatabaseNext]_databaseVars PROVE UsersInv'
  OBVIOUS
<1>1. CASE pool' = pool /\ user' = user
  BY <1>1 DEF UsersInv, UsersTyped, Marked, Found, Placed, Holds
<1>2. CASE UNCHANGED databaseVars
  BY <1>1, <1>2 DEF databaseVars
<1>3. ASSUME NEW t \in Threads, GetId(t) \/ Ptr(t) \/ PtrAt(t) \/ GiveBack(t)
      PROVE  UsersInv'
  BY <1>3, GetIdIInv, PtrIInv, PtrAtIInv, GiveBackIInv
<1>4. ASSUME NEW t \in Threads, SelectSQL(t) PROVE UsersInv'
  <2>1. Holds(t) /\ pool' = pool
    BY <1>4 DEF SelectSQL, Has, Holds
  <2>2. user' = user \/ user' = [user EXCEPT ![t].at = "rows"]
    BY <1>4 DEF SelectSQL
  <2> QED
    BY <1>1, <2>1, <2>2, KeepsIInv
<1>5. ASSUME NEW t \in Threads, LastRow(t) \/ DoneReading(t) PROVE UsersInv'
  <2>1. Holds(t) /\ pool' = pool
    BY <1>5 DEF LastRow, DoneReading, Holds
  <2>2. user' = [user EXCEPT ![t].at = "read"] \/ user' = [user EXCEPT ![t].at = "has"]
    BY <1>5 DEF LastRow, DoneReading
  <2> QED
    BY <2>1, <2>2, KeepsIInv
<1>6. ASSUME NEW t \in Threads,
             \/ PGResult(t) \/ Build(t) \/ InsertCommit(t)
             \/ UpdateCommit(t) \/ NewSession(t)
      PROVE  UsersInv'
  <2>1. pool' = pool /\ user' = user
    BY <1>6 DEF PGResult, Build, InsertCommit, UpdateCommit, NewSession, Building
  <2> QED
    BY <1>1, <2>1
<1> QED
  BY <1>2, <1>3, <1>4, <1>5, <1>6 DEF DatabaseNext

-----------------------------------------------------------------------------

\* Two threads work with one connection (PGConnectPool::getId(), ptr()) only if
\* the vector grew under one of them, for any threads and any pool.
THEOREM DatabaseOneUser == DatabaseSpec => []OneUser
<1>1. UsersInv => OneUser
  <2> SUFFICES ASSUME UsersInv, NEW t \in Threads, NEW u \in Threads, t # u,
                      Holds(t), Holds(u), ~user[t].moved, ~user[u].moved
               PROVE  user[t].conn # user[u].conn
    BY DEF OneUser
  <2>1. user[t].conn = user[t].idx /\ user[u].conn = user[u].idx
    BY DEF UsersInv, Found
  <2>2. user[t].idx # user[u].idx
    BY DEF UsersInv, Marked, Placed, Holds
  <2> QED
    BY <2>1, <2>2
<1> QED
  BY InitUsers, NextUsers, <1>1, PTL DEF DatabaseSpec
-----------------------------------------------------------------------------
(* What a connection keeps from one call to the next. *)

RowsLeft == [1..Fields -> Nat]

Works == [building : BOOLEAN, built : RowsLeft, rows : Seq(RowsLeft)]

Statements ==
    [transaction : {"none", "aborted"}, fields : 0..2, set : 0..2,
     ntuples : Nat, _idx : Nat, _begin : Nat, _end : 0..Fields - 1, strayed : BOOLEAN]

MarksKept ==
    /\ pg \in Seq(Statements) /\ Len(pg) = Len(pool)
    /\ work \in [Threads -> Works]

\* A thread has a connection of the pool: its own, unless that is known to have
\* strayed.
PoolReached ==
    \A t \in Threads : Holds(t) =>
        /\ user[t].conn \in DOMAIN pg
        /\ Mine(t).strayed \/ user[t].conn = user[t].idx

\* Who is not reading has collected nothing, and builds no statement elsewhere.
AtRest ==
    \A t \in Threads :
        /\ work[t].building => user[t].at = "has"
        /\ user[t].at \notin {"rows", "read"} => work[t].rows = << >>

\* Half a statement has a thread that builds it.
BuiltBy(k) == \E t \in Threads : Holds(t) /\ user[t].conn = k /\ work[t].building

Forgotten ==
    \A k \in DOMAIN pg : ~pg[k].strayed =>
        /\ pg[k].fields = 0 \/ pg[k].set = 0
        /\ pg[k].fields # 0 \/ pg[k].set # 0 => BuiltBy(k)

Upto(n) == [r \in 1..n |-> [c \in 1..Fields |-> r]]

\* The loop over the result p has come to its column _end of row _begin; the row
\* that is being built is collected when the next one begins.
CursorOf(p, w) ==
    /\ p._begin <= p.ntuples
    /\ p._end > 0 => p._begin < p.ntuples
    /\ \/ /\ p._idx = p._begin
          /\ p._end = 0 => p._begin = 0
          /\ \A c \in 1..p._end : w.built[c] = p._begin + 1
       \/ /\ p._idx + 1 = p._begin /\ p._end = 0
          /\ \A c \in 1..Fields : w.built[c] = p._begin
    /\ w.rows = Upto(p._idx)

Cursors ==
    \A t \in Threads : user[t].at = "rows" /\ ~Mine(t).strayed
                          => CursorOf(Mine(t), work[t])

Collected ==
    \A t \in Threads : user[t].at = "read" /\ ~Mine(t).strayed
                          => work[t].rows = Upto(Mine(t).ntuples)

ConnInv == MarksKept /\ PoolReached /\ AtRest /\ Forgotten /\ Cursors /\ Collected

LEMMA PgsqlIs ==
    /\ Pgsql \in Statements /\ ~Pgsql.strayed /\ Pgsql.fields = 0 /\ Pgsql.set = 0
    /\ NoWork \in Works /\ ~NoWork.building /\ NoWork.rows = << >>
<1>1. 0 \in 0..Fields - 1
  BY DatabaseAssumption
<1>2. Pgsql \in Statements
  BY <1>1 DEF Pgsql, Statements
<1>3. << >> \in Seq(RowsLeft)
  OBVIOUS
<1>4. [c \in 1..Fields |-> 0] \in RowsLeft
  BY DEF RowsLeft
<1>5. NoWork \in Works
  BY <1>3, <1>4 DEF NoWork, Works
<1> QED
  BY <1>2, <1>5 DEF Pgsql, NoWork

LEMMA InitConnInv == DatabaseInit => ConnInv
<1> SUFFICES ASSUME DatabaseInit PROVE ConnInv
  OBVIOUS
<1>1. Connections \in Nat
  BY DatabaseAssumption
<1>2. /\ pg \in Seq(Statements) /\ DOMAIN pg = 1..Connections
      /\ Len(pg) = Connections /\ Len(pool) = Connections
      /\ \A k \in DOMAIN pg : pg[k] = Pgsql
  BY <1>1, PgsqlIs DEF DatabaseInit
<1>3. work \in [Threads -> Works] /\ \A t \in Threads : work[t] = NoWork
  BY PgsqlIs DEF DatabaseInit
<1>4. \A t \in Threads : user[t].at = "idle"
  BY DEF DatabaseInit, Idle
<1>5. MarksKept
  BY <1>2, <1>3 DEF MarksKept
<1>6. Forgotten
  BY <1>2, PgsqlIs DEF Forgotten
<1> QED
  BY <1>3, <1>4, <1>5, <1>6, PgsqlIs
     DEF ConnInv, PoolReached, AtRest, Cursors, Collected, Holds

\* The connection that a thread has not strayed with is nobody else's.
LEMMA NotShared ==
    ASSUME UsersInv, PoolReached, NEW t \in Threads, NEW u \in Threads, t # u,
           Holds(t), Holds(u), ~Mine(t).strayed
    PROVE  user[u].conn # user[t].conn
<1> SUFFICES ASSUME user[u].conn = user[t].conn PROVE FALSE
  OBVIOUS
<1>1. user[t].conn = user[t].idx /\ user[u].conn = user[u].idx
  BY DEF PoolReached, Mine
<1>2. user[t].idx # user[u].idx
  BY DEF UsersInv, Marked, Placed, Holds
<1> QED
  BY <1>1, <1>2

\* A thread that uses its connection.
LEMMA Uses ==
    ASSUME UsersInv, ConnInv, NEW t \in Threads, Holds(t), ~Mine(t).strayed,
           NEW p \in Statements, ~p.strayed, p.fields = 0 \/ p.set = 0,
           NEW w \in Works, NEW at \in {"has", "rows", "read"},
           Becomes(t, p), work' = [work EXCEPT ![t] = w],
           user' = [user EXCEPT ![t].at = at], pool' = pool,
           p.fields # 0 \/ p.set # 0 => w.building,
           w.building => at = "has",
           at = "has" => w.rows = << >>,
           at = "rows" => CursorOf(p, w),
           at = "read" => w.rows = Upto(p.ntuples)
    PROVE  ConnInv'
<1> DEFINE k == user[t].conn
<1>1. MarksKept /\ PoolReached /\ AtRest /\ Forgotten /\ Cursors /\ Collected /\ UsersTyped
  BY DEF ConnInv, UsersInv
<1>2. k \in DOMAIN pg /\ pg \in Seq(Statements)
  BY <1>1 DEF PoolReached, MarksKept
<1>3. pg' = [pg EXCEPT ![k] = p]
  BY DEF Becomes
<1>4. /\ pg' \in Seq(Statements) /\ DOMAIN pg' = DOMAIN pg /\ Len(pg') = Len(pg)
      /\ pg'[k] = p /\ \A j \in DOMAIN pg : j # k => pg'[j] = pg[j]
  <2> HIDE DEF k
  <2> QED
    BY <1>2, <1>3, ExceptSeq
<1>5. /\ work' \in [Threads -> Works] /\ work'[t] = w
      /\ \A u \in Threads : u # t => work'[u] = work[u]
  BY <1>1 DEF MarksKept
<1>6. user[t] \in Users
  BY <1>1 DEF UsersTyped
<1>7. /\ user'[t].at = at /\ user'[t].conn = k /\ user'[t].idx = user[t].idx
      /\ \A u \in Threads : u # t => user'[u] = user[u]
  BY <1>1, <1>6 DEF UsersTyped, Users
<1>8. Mine(t)' = p /\ Holds(t)'
  BY <1>4, <1>7 DEF Mine, Holds
<1>9. ASSUME NEW u \in Threads, u # t, Holds(u)
      PROVE  user[u].conn # k /\ Mine(u)' = Mine(u) /\ user[u].conn \in DOMAIN pg
  <2>1. user[u].conn # k
    BY <1>1, <1>9, NotShared
  <2>2. user[u].conn \in DOMAIN pg
    BY <1>1, <1>9 DEF PoolReached
  <2> QED
    BY <1>4, <1>7, <1>9, <2>1, <2>2 DEF Mine
<1>10. MarksKept'
  BY <1>1, <1>4, <1>5 DEF MarksKept
<1>11. PoolReached'
  <2>1. Holds(t) /\ user[t].conn = user[t].idx
    BY <1>1 DEF PoolReached
  <2>2. ASSUME NEW u \in Threads, Holds(u)'
        PROVE  (user[u].conn \in DOMAIN pg)' /\ (Mine(u).strayed \/ user[u].conn = user[u].idx)'
    <3>1. CASE u = t
      BY <1>2, <1>4, <1>7, <2>1, <3>1
    <3>2. CASE u # t
      <4>1. Holds(u) /\ user'[u] = user[u]
        BY <1>7, <2>2, <3>2 DEF Holds
      <4>2. Mine(u)' = Mine(u) /\ user[u].conn \in DOMAIN pg
        BY <1>9, <3>2, <4>1
      <4> QED
        BY <1>1, <1>4, <4>1, <4>2 DEF PoolReached
    <3> QED
      BY <3>1, <3>2
  <2> QED
    BY <2>2 DEF PoolReached
<1>12. AtRest'
  BY <1>1, <1>5, <1>7 DEF AtRest
<1>13. Forgotten'
  <2> SUFFICES ASSUME NEW j \in DOMAIN pg, ~pg'[j].strayed
               PROVE  /\ pg'[j].fields = 0 \/ pg'[j].set = 0
                      /\ pg'[j].fields # 0 \/ pg'[j].set # 0 => BuiltBy(j)'
    BY <1>4 DEF Forgotten
  <2>1. CASE j = k
    BY <1>4, <1>5, <1>7, <1>8, <2>1 DEF BuiltBy
  <2>2. CASE j # k
    <3>1. pg'[j] = pg[j]
      BY <1>4, <2>2
    <3>2. pg[j].fields = 0 \/ pg[j].set = 0
      BY <1>1, <3>1 DEF Forgotten
    <3>3. ASSUME pg[j].fields # 0 \/ pg[j].set # 0 PROVE BuiltBy(j)'
      <4>1. PICK u \in Threads : Holds(u) /\ user[u].conn = j /\ work[u].building
        BY <1>1, <3>1, <3>3 DEF Forgotten, BuiltBy
      <4>2. u # t
        BY <2>2, <4>1
      <4> QED
        BY <1>5, <1>7, <4>1, <4>2 DEF BuiltBy, Holds
    <3> QED
      BY <3>1, <3>2, <3>3
  <2> QED
    BY <2>1, <2>2
<1>14. Cursors' /\ Collected'
  <2>1. ASSUME NEW u \in Threads, u # t, user'[u].at \in {"rows", "read"}, ~Mine(u).strayed'
        PROVE  /\ user[u].at = user'[u].at /\ ~Mine(u).strayed
               /\ Mine(u)' = Mine(u) /\ work'[u] = work[u]
    BY <1>5, <1>7, <1>9, <2>1 DEF Holds
  <2>2. Cursors'
    BY <1>1, <1>5, <1>7, <1>8, <2>1 DEF Cursors
  <2>3. Collected'
    BY <1>1, <1>5, <1>7, <1>8, <2>1 DEF Collected
  <2> QED
    BY <2>2, <2>3
<1> QED
  BY <1>10, <1>11, <1>12, <1>13, <1>14 DEF ConnInv

\* A thread that comes to a connection or leaves it touches no statement: what it
\* gets but has not asked for has strayed.
LEMMA Comes ==
    ASSUME UsersInv, ConnInv, NEW t \in Threads, NEW r \in Users,
           user' = [user EXCEPT ![t] = r], MarksKept',
           \/ work' = [work EXCEPT ![t] = NoWork]
           \/ work' = work /\ ~Holds(t),
           ~(Holds(t) /\ ~Mine(t).strayed /\ work[t].building),
           DOMAIN pg \subseteq DOMAIN pg',
           \A k \in DOMAIN pg : pg'[k] = pg[k] \/ pg'[k].strayed,
           \A k \in DOMAIN pg' \ DOMAIN pg : pg'[k] = Pgsql,
           r.at \notin {"rows", "read"},
           r.at = "has" => /\ r.conn \in DOMAIN pg'
                           /\ pg'[r.conn].strayed \/ r.conn = r.idx
    PROVE  ConnInv'
<1>1. MarksKept /\ PoolReached /\ AtRest /\ Forgotten /\ Cursors /\ Collected /\ UsersTyped
  BY DEF ConnInv, UsersInv
<1>2. user'[t] = r /\ \A u \in Threads : u # t => user'[u] = user[u]
  BY <1>1, NotHis
<1>3. /\ ~work'[t].building /\ work'[t].rows = << >>
      /\ \A u \in Threads : u # t => work'[u] = work[u]
  <2>1. CASE work' = [work EXCEPT ![t] = NoWork]
    BY <1>1, <2>1, PgsqlIs DEF MarksKept
  <2>2. CASE work' = work /\ ~Holds(t)
    BY <1>1, <2>2 DEF AtRest, Holds
  <2> QED
    BY <2>1, <2>2
<1>4. ASSUME NEW u \in Threads, u # t, Holds(u)'
      PROVE  /\ Holds(u) /\ user[u].conn \in DOMAIN pg /\ user'[u] = user[u]
             /\ Mine(u)' = Mine(u) \/ Mine(u).strayed'
  <2>1. Holds(u) /\ user'[u] = user[u]
    BY <1>2, <1>4 DEF Holds
  <2>2. user[u].conn \in DOMAIN pg
    BY <1>1, <2>1 DEF PoolReached
  <2> QED
    BY <2>1, <2>2 DEF Mine
<1>5. PoolReached'
  <2>1. ASSUME NEW u \in Threads, Holds(u)'
        PROVE  (user[u].conn \in DOMAIN pg)' /\ (Mine(u).strayed \/ user[u].conn = user[u].idx)'
    <3>1. CASE u = t
      <4>1. r.at = "has"
        BY <1>2, <2>1, <3>1 DEF Holds
      <4> QED
        BY <1>2, <3>1, <4>1 DEF Mine
    <3>2. CASE u # t
      BY <1>1, <1>4, <2>1, <3>2 DEF PoolReached
    <3> QED
      BY <3>1, <3>2
  <2> QED
    BY <2>1 DEF PoolReached
<1>6. AtRest'
  BY <1>1, <1>2, <1>3 DEF AtRest
<1>7. Forgotten'
  <2> SUFFICES ASSUME NEW j \in DOMAIN pg', ~pg'[j].strayed
               PROVE  /\ pg'[j].fields = 0 \/ pg'[j].set = 0
                      /\ pg'[j].fields # 0 \/ pg'[j].set # 0 => BuiltBy(j)'
    BY DEF Forgotten
  <2>1. CASE j \notin DOMAIN pg
    BY <2>1, PgsqlIs
  <2>2. CASE j \in DOMAIN pg
    <3>1. pg'[j] = pg[j]
      BY <2>2
    <3>2. ASSUME pg[j].fields # 0 \/ pg[j].set # 0 PROVE BuiltBy(j)'
      <4>1. PICK u \in Threads : Holds(u) /\ user[u].conn = j /\ work[u].building
        BY <1>1, <2>2, <3>1, <3>2 DEF Forgotten, BuiltBy
      <4>2. u # t
        <5>1. u = t => ~Mine(t).strayed
          BY <3>1, <4>1 DEF Mine
        <5> QED
          BY <4>1, <5>1
      <4> QED
        BY <1>2, <1>3, <4>1, <4>2 DEF BuiltBy, Holds
    <3> QED
      BY <1>1, <2>2, <3>1, <3>2 DEF Forgotten
  <2> QED
    BY <2>1, <2>2
<1>8. Cursors' /\ Collected'
  <2>1. ASSUME NEW u \in Threads, user'[u].at \in {"rows", "read"}, ~Mine(u).strayed'
        PROVE  /\ user[u].at = user'[u].at /\ ~Mine(u).strayed
               /\ Mine(u)' = Mine(u) /\ work'[u] = work[u]
    <3>1. u # t /\ Holds(u)'
      BY <1>2, <2>1 DEF Holds
    <3> QED
      BY <1>3, <1>4, <2>1, <3>1
  <2> QED
    BY <1>1, <2>1 DEF Cursors, Collected
<1> QED
  BY <1>5, <1>6, <1>7, <1>8 DEF ConnInv

LEMMA GetIdConn ==
    ASSUME UsersInv, ConnInv, NEW t \in Threads, GetId(t)
    PROVE  ConnInv'
<1>1. PICK idx \in Nat :
        /\ Takes(t, idx)
        /\ \/ Len(pool') = Len(pool) /\ pg' = pg
           \/ pool' = Append(pool, FALSE) /\ pg' = Append(pg, Pgsql)
  <2>1. pool \in Seq(BOOLEAN) /\ DOMAIN pool \subseteq Nat /\ Len(pool) + 1 \in Nat
    BY DEF UsersInv, UsersTyped
  <2>2. CASE \E idx \in DOMAIN pool :
                /\ pool[idx] /\ \A k \in 1..idx - 1 : ~pool[k]
                /\ pool' = [pool EXCEPT ![idx] = FALSE] /\ UNCHANGED pg
                /\ Takes(t, idx)
    <3>1. PICK idx \in DOMAIN pool :
             /\ pool' = [pool EXCEPT ![idx] = FALSE] /\ UNCHANGED pg
             /\ Takes(t, idx)
      BY <2>2
    <3>2. idx \in Nat /\ Len([pool EXCEPT ![idx] = FALSE]) = Len(pool)
      BY <2>1
    <3> QED
      BY <3>1, <3>2
  <2>3. CASE /\ \A k \in DOMAIN pool : ~pool[k]
             /\ pool' = Append(pool, FALSE) /\ pg' = Append(pg, Pgsql)
             /\ Takes(t, Len(pool) + 1)
    BY <2>1, <2>3
  <2> QED
    BY <2>2, <2>3 DEF GetId
<1> DEFINE r == [Idle EXCEPT !.at = "ptr", !.idx = idx]
<1>2. r \in Users /\ r.at = "ptr"
  BY DEF Idle, Users
<1>3. user' = [user EXCEPT ![t] = r] /\ work' = work /\ ~Holds(t)
  BY <1>1 DEF Takes, GetId, Holds
<1> HIDE DEF r
<1>4. pg \in Seq(Statements) /\ Len(pg) = Len(pool) /\ work \in [Threads -> Works]
      /\ pool \in Seq(BOOLEAN)
  BY DEF ConnInv, MarksKept, UsersInv, UsersTyped
<1>5. CASE Len(pool') = Len(pool) /\ pg' = pg
  <2>1. MarksKept'
    BY <1>3, <1>4, <1>5 DEF MarksKept
  <2>2. DOMAIN pg \subseteq DOMAIN pg' /\ DOMAIN pg' \ DOMAIN pg = {}
        /\ \A k \in DOMAIN pg : pg'[k] = pg[k]
    BY <1>5
  <2> QED
    BY <1>2, <1>3, <2>1, <2>2, Comes
<1>6. CASE pool' = Append(pool, FALSE) /\ pg' = Append(pg, Pgsql)
  <2>1. /\ pg' \in Seq(Statements) /\ Len(pg') = Len(pg) + 1
        /\ \A k \in 1..Len(pg) : pg'[k] = pg[k]
        /\ pg'[Len(pg) + 1] = Pgsql
    BY <1>4, <1>6, PgsqlIs, AppendProperties
  <2>2. Len(pool') = Len(pool) + 1
    BY <1>4, <1>6
  <2>3. MarksKept'
    BY <1>3, <1>4, <2>1, <2>2 DEF MarksKept
  <2>4. DOMAIN pg = 1..Len(pg) /\ DOMAIN pg' = 1..Len(pg) + 1 /\ Len(pg) \in Nat
    BY <1>4, <2>1
  <2>5. DOMAIN pg \subseteq DOMAIN pg' /\ (\A k \in DOMAIN pg : pg'[k] = pg[k])
        /\ \A k \in DOMAIN pg' \ DOMAIN pg : pg'[k] = Pgsql
    BY <2>1, <2>4
  <2> QED
    BY <1>2, <1>3, <2>3, <2>5, Comes
<1> QED
  BY <1>1, <1>5, <1>6

LEMMA PtrConn ==
    ASSUME UsersInv, ConnInv, NEW t \in Threads, Ptr(t)
    PROVE  ConnInv'
<1> DEFINE r == [user[t] EXCEPT !.at = "at", !.vector = Len(pool)]
<1>1. user[t] \in Users /\ Len(pool) \in Nat
  BY DEF UsersInv, UsersTyped
<1>2. r \in Users /\ r.at = "at"
  BY <1>1 DEF Users
<1>3. user' = [user EXCEPT ![t] = r] /\ work' = work /\ pg' = pg /\ pool' = pool
      /\ ~Holds(t)
  BY DEF Ptr, Holds
<1>4. MarksKept'
  BY <1>3 DEF ConnInv, MarksKept
<1> HIDE DEF r
<1> QED
  BY <1>2, <1>3, <1>4, Comes

LEMMA PtrAtConn ==
    ASSUME UsersInv, ConnInv, NEW t \in Threads, PtrAt(t)
    PROVE  ConnInv'
<1>1. user[t] \in Users /\ Len(pool) \in Nat /\ pool \in Seq(BOOLEAN) /\ ~Holds(t)
  BY DEF UsersInv, UsersTyped, PtrAt, Holds
<1>2. PICK conn \in IF user[t].vector = Len(pool) THEN {user[t].idx}
                    ELSE 0..Len(pool) :
        /\ user' = [user EXCEPT ![t].at = IF conn = 0 THEN "lost" ELSE "has",
                                ![t].conn = conn,
                                ![t].moved = user[t].vector # Len(pool)]
        /\ pg' = [k \in DOMAIN pg |-> IF k = conn /\ k # user[t].idx
                     THEN [pg[k] EXCEPT !.strayed = TRUE] ELSE pg[k]]
  BY DEF PtrAt
<1>3. pg \in Seq(Statements) /\ Len(pg) = Len(pool) /\ work \in [Threads -> Works]
      /\ pool' = pool /\ work' = work
  BY DEF ConnInv, MarksKept, PtrAt
<1>4. DOMAIN pg = 1..Len(pool) /\ user[t].idx \in 1..Len(pool)
  <2>1. user[t].idx \in DOMAIN pool
    BY DEF UsersInv, Marked, Placed, PtrAt
  <2> QED
    BY <1>1, <1>3, <2>1
<1>5. conn \in 0..Len(pool)
  BY <1>1, <1>2, <1>4
<1>5a. PICK at \in {"lost", "has"} : at = IF conn = 0 THEN "lost" ELSE "has"
  OBVIOUS
<1>5b. PICK moved \in BOOLEAN : moved = (user[t].vector # Len(pool))
  OBVIOUS
<1> DEFINE r == [user[t] EXCEPT !.at = at, !.conn = conn, !.moved = moved]
<1>6. r \in Users /\ r.conn = conn /\ r.idx = user[t].idx
      /\ r.at \in {"lost", "has"} /\ (r.at = "has" => conn # 0)
  <2>1. conn \in Nat /\ (at = "has" => conn # 0)
    BY <1>1, <1>5, <1>5a
  <2> QED
    BY <1>1, <2>1 DEF Users
<1>7. user' = [user EXCEPT ![t] = r]
  BY <1>2, <1>5a, <1>5b
<1> HIDE DEF r
<1>8. \A k \in DOMAIN pg : /\ pg'[k] \in Statements
                           /\ pg'[k] = pg[k] \/ pg'[k].strayed
                           /\ k = conn /\ k # user[t].idx => pg'[k].strayed
  <2> SUFFICES ASSUME NEW k \in DOMAIN pg
               PROVE  /\ pg'[k] \in Statements
                      /\ pg'[k] = pg[k] \/ pg'[k].strayed
                      /\ k = conn /\ k # user[t].idx => pg'[k].strayed
    OBVIOUS
  <2>1. pg[k] \in Statements
    BY <1>3
  <2>2. [pg[k] EXCEPT !.strayed = TRUE] \in Statements
        /\ [pg[k] EXCEPT !.strayed = TRUE].strayed
    BY <2>1 DEF Statements
  <2> QED
    BY <1>2, <2>1, <2>2
<1>9. pg' \in Seq(Statements) /\ Len(pg') = Len(pool) /\ DOMAIN pg' = DOMAIN pg
  BY <1>1, <1>2, <1>4, <1>8
<1>10. MarksKept'
  BY <1>3, <1>9 DEF MarksKept
<1>11. r.at = "has" => /\ r.conn \in DOMAIN pg'
                       /\ pg'[r.conn].strayed \/ r.conn = r.idx
  BY <1>1, <1>4, <1>5, <1>6, <1>8, <1>9
<1>12. DOMAIN pg \subseteq DOMAIN pg' /\ DOMAIN pg' \ DOMAIN pg = {}
       /\ \A k \in DOMAIN pg : pg'[k] = pg[k] \/ pg'[k].strayed
  BY <1>8, <1>9
<1>13. r.at \notin {"rows", "read"}
  BY <1>6
<1> QED
  BY <1>1, <1>3, <1>6, <1>7, <1>10, <1>11, <1>12, <1>13, Comes

LEMMA GiveBackConn ==
    ASSUME UsersInv, ConnInv, NEW t \in Threads, GiveBack(t)
    PROVE  ConnInv'
<1>1. Idle \in Users /\ Idle.at = "idle"
  BY DEF Idle, Users
<1>2. /\ user' = [user EXCEPT ![t] = Idle] /\ work' = [work EXCEPT ![t] = NoWork]
      /\ pg' = pg /\ pool' = [pool EXCEPT ![user[t].idx] = TRUE]
  BY DEF GiveBack
<1>3. pg \in Seq(Statements) /\ Len(pg) = Len(pool) /\ work \in [Threads -> Works]
      /\ pool \in Seq(BOOLEAN)
  BY DEF ConnInv, MarksKept, UsersInv, UsersTyped
<1>4. Len(pool') = Len(pool)
  <2>1. user[t].idx \in DOMAIN pool
    BY DEF UsersInv, Marked, Placed, GiveBack
  <2> QED
    BY <1>2, <1>3, <2>1
<1>5. MarksKept'
  BY <1>2, <1>3, <1>4, PgsqlIs DEF MarksKept
<1>6. ~(Holds(t) /\ ~Mine(t).strayed /\ work[t].building)
  BY DEF GiveBack, Holds, Mine, ConnInv, AtRest
<1>7. DOMAIN pg \subseteq DOMAIN pg' /\ DOMAIN pg' \ DOMAIN pg = {}
      /\ \A k \in DOMAIN pg : pg'[k] = pg[k]
  BY <1>2
<1> QED
  BY <1>1, <1>2, <1>5, <1>6, <1>7, Comes

\* The thread and its connection.
LEMMA Using ==
    ASSUME UsersInv, ConnInv, NEW t \in Threads, Holds(t), ~Mine(t).strayed
    PROVE  /\ Mine(t) \in Statements /\ work[t] \in Works /\ user[t] \in Users
           /\ Mine(t).fields = 0 \/ Mine(t).set = 0
           /\ ~work[t].building => Mine(t).fields = 0 /\ Mine(t).set = 0
           /\ work[t].building => user[t].at = "has"
           /\ user[t].at = "has" => work[t].rows = << >>
           /\ user[t].at = "rows" => CursorOf(Mine(t), work[t])
           /\ user[t].at = "read" => work[t].rows = Upto(Mine(t).ntuples)
<1>1. MarksKept /\ PoolReached /\ AtRest /\ Forgotten /\ Cursors /\ Collected /\ UsersTyped
  BY DEF ConnInv, UsersInv
<1>2. user[t].conn \in DOMAIN pg
  BY <1>1 DEF PoolReached
<1>3. Mine(t) \in Statements /\ work[t] \in Works /\ user[t] \in Users
  BY <1>1, <1>2 DEF Mine, MarksKept, UsersTyped
<1>4. Mine(t).fields = 0 \/ Mine(t).set = 0
  BY <1>1, <1>2 DEF Forgotten, Mine
<1>5. ASSUME Mine(t).fields # 0 \/ Mine(t).set # 0 PROVE work[t].building
  <2>1. PICK u \in Threads : Holds(u) /\ user[u].conn = user[t].conn /\ work[u].building
    BY <1>1, <1>2, <1>5 DEF Forgotten, Mine, BuiltBy
  <2>2. u = t
    BY <1>1, <2>1, NotShared
  <2> QED
    BY <2>1, <2>2
<1>6. /\ work[t].building => user[t].at = "has"
      /\ user[t].at = "has" => work[t].rows = << >>
      /\ user[t].at = "rows" => CursorOf(Mine(t), work[t])
      /\ user[t].at = "read" => work[t].rows = Upto(Mine(t).ntuples)
  BY <1>1 DEF AtRest, Cursors, Collected
<1> QED
  BY <1>3, <1>4, <1>5, <1>6

LEMMA StayAt ==
    ASSUME UsersInv, NEW t \in Threads
    PROVE  /\ user' = user => user' = [user EXCEPT ![t].at = user[t].at]
           /\ ConnInv /\ work' = work => work' = [work EXCEPT ![t] = work[t]]
  BY DEF UsersInv, UsersTyped, Users, ConnInv, MarksKept

\* Statements that leave nothing behind but their result.
LEMMA AsksConn ==
    ASSUME UsersInv, ConnInv, NEW t \in Threads, Has(t), ~work[t].building,
           NEW p \in Statements, ~p.strayed, p.fields = 0, p.set = 0,
           Becomes(t, p), work' = work, pool' = pool,
           \/ user' = user
           \/ /\ user' = [user EXCEPT ![t].at = "rows"]
              /\ p._idx = 0 /\ p._begin = 0 /\ p._end = 0
    PROVE  ConnInv'
<1>1. Holds(t) /\ ~Mine(t).strayed /\ user[t].at = "has"
  BY DEF Has, Holds
<1>2. /\ work[t] \in Works /\ work[t].rows = << >>
      /\ work' = [work EXCEPT ![t] = work[t]]
  BY <1>1, Using, StayAt
<1>3. CASE user' = user
  <2>1. user' = [user EXCEPT ![t].at = "has"]
    BY <1>1, <1>3, StayAt
  <2> QED
    BY <1>1, <1>2, <2>1, Uses
<1>4. CASE /\ user' = [user EXCEPT ![t].at = "rows"]
           /\ p._idx = 0 /\ p._begin = 0 /\ p._end = 0
  <2>1. Upto(0) = << >>
    BY DEF Upto
  <2>2. p.ntuples \in Nat
    BY DEF Statements
  <2>3. CursorOf(p, work[t])
    <3>1. \A c \in 1..p._end : work[t].built[c] = p._begin + 1
      BY <1>4
    <3> QED
      BY <1>2, <1>4, <2>1, <2>2, <3>1 DEF CursorOf
  <2> QED
    BY <1>1, <1>2, <1>4, <2>3, Uses
<1> QED
  BY <1>3, <1>4

\* What a statement that the server refuses leaves.
LEMMA RefusedIs ==
    ASSUME NEW p \in Statements
    PROVE  Refused(p) = p
  BY DEF Refused, Statements

LEMMA SelectSQLConn ==
    ASSUME UsersInv, ConnInv, NEW t \in Threads, SelectSQL(t)
    PROVE  ConnInv'
<1>1. /\ Has(t) /\ Holds(t) /\ ~work[t].building /\ ~Mine(t).strayed
      /\ pool' = pool /\ work' = work
  BY DEF SelectSQL, Has, Holds
<1>2. PICK m : m = Mine(t)
  OBVIOUS
<1>3. m \in Statements /\ m.fields = 0 /\ m.set = 0 /\ ~m.strayed /\ 0 \in 0..Fields - 1
  BY <1>1, <1>2, Using, DatabaseAssumption
<1>4. ASSUME NEW n \in Sizes,
             Becomes(t, [Mine(t) EXCEPT !.ntuples = n, !._idx = 0, !._begin = 0, !._end = 0]),
             user' = [user EXCEPT ![t].at = "rows"]
      PROVE  ConnInv'
  <2> DEFINE p == [m EXCEPT !.ntuples = n, !._idx = 0, !._begin = 0, !._end = 0]
  <2>1. n \in Nat
    BY DatabaseAssumption
  <2>2. /\ p \in Statements /\ ~p.strayed /\ p.fields = 0 /\ p.set = 0
        /\ p._idx = 0 /\ p._begin = 0 /\ p._end = 0
    BY <1>3, <2>1 DEF Statements
  <2>3. Becomes(t, p)
    BY <1>2, <1>4
  <2> HIDE DEF p
  <2> QED
    BY <1>1, <1>4, <2>2, <2>3, AsksConn
<1>5. ASSUME user' = user,
             Becomes(t, [Refused(Mine(t)) EXCEPT
                            !.ntuples = 0, !._idx = 0, !._begin = 0, !._end = 0])
      PROVE  ConnInv'
  <2> DEFINE p == [m EXCEPT !.ntuples = 0, !._idx = 0, !._begin = 0, !._end = 0]
  <2>1. p \in Statements /\ ~p.strayed /\ p.fields = 0 /\ p.set = 0
    BY <1>3 DEF Statements
  <2>2. Becomes(t, p)
    BY <1>2, <1>3, <1>5, RefusedIs
  <2> HIDE DEF p
  <2> QED
    BY <1>1, <1>5, <2>1, <2>2, AsksConn
<1> QED
  BY <1>4, <1>5 DEF SelectSQL

LEMMA NewSessionConn ==
    ASSUME UsersInv, ConnInv, NEW t \in Threads, NewSession(t)
    PROVE  ConnInv'
<1>1. /\ Has(t) /\ Holds(t) /\ ~work[t].building /\ ~Mine(t).strayed
      /\ pool' = pool /\ work' = work /\ user' = user
  BY DEF NewSession, Has, Holds
<1>2. PICK m : m = Mine(t)
  OBVIOUS
<1>3. m \in Statements /\ m.fields = 0 /\ m.set = 0 /\ ~m.strayed /\ 0 \in 0..Fields - 1
  BY <1>1, <1>2, Using, DatabaseAssumption
<1>4. PICK p \in Statements :
         ~p.strayed /\ p.fields = 0 /\ p.set = 0 /\ Becomes(t, p)
  <2> DEFINE open == [m EXCEPT !.transaction = IF @ = "none" THEN "open" ELSE @]
             p1 == [m EXCEPT !.transaction = "none", !.ntuples = 0]
             p2 == [m EXCEPT !.transaction = "aborted", !.ntuples = 0,
                             !._begin = 0, !._end = 0]
             p3 == [m EXCEPT !.transaction = "none", !.ntuples = 0,
                             !._begin = 0, !._end = 0]
  <2>1. m = [transaction |-> m.transaction, fields |-> m.fields, set |-> m.set,
             ntuples |-> m.ntuples, _idx |-> m._idx, _begin |-> m._begin,
             _end |-> m._end, strayed |-> m.strayed]
    BY <1>3 DEF Statements
  <2>2. m.transaction \in {"none", "aborted"}
    BY <1>3 DEF Statements
  <2>3. p1 \in Statements /\ p2 \in Statements /\ p3 \in Statements
        /\ ~p1.strayed /\ ~p2.strayed /\ ~p3.strayed
        /\ p1.fields = 0 /\ p2.fields = 0 /\ p3.fields = 0
        /\ p1.set = 0 /\ p2.set = 0 /\ p3.set = 0
    BY <1>3 DEF Statements
  <2>4. [open EXCEPT !.transaction = "none", !.ntuples = 0] = p1
        /\ [open EXCEPT !.transaction = "none", !.ntuples = 0,
                        !._begin = 0, !._end = 0] = p3
    BY <2>1
  <2>5. [Refused(open) EXCEPT !.ntuples = 0, !._begin = 0, !._end = 0] = p2
    <3>1. CASE m.transaction = "none"
      BY <2>1, <3>1 DEF Refused
    <3>2. CASE m.transaction = "aborted"
      BY <2>1, <3>2 DEF Refused
    <3> QED
      BY <2>2, <3>1, <3>2
  <2>6. Becomes(t, p1) \/ Becomes(t, p2) \/ Becomes(t, p3)
    BY <1>2, <2>4, <2>5 DEF NewSession
  <2> HIDE DEF p1, p2, p3
  <2> QED
    BY <2>3, <2>6
<1> QED
  BY <1>1, <1>4, AsksConn

\* A statement is put together, or sent and forgotten.
LEMMA BuildsConn ==
    ASSUME UsersInv, ConnInv, NEW t \in Threads, Has(t), NEW b \in BOOLEAN,
           NEW p \in Statements, ~p.strayed, p.fields = 0 \/ p.set = 0,
           p.fields # 0 \/ p.set # 0 => b,
           Becomes(t, p), Building(t, b), pool' = pool
    PROVE  ConnInv'
<1>1. Holds(t) /\ ~Mine(t).strayed /\ user[t].at = "has"
  BY DEF Has, Holds
<1> DEFINE w == [work[t] EXCEPT !.building = b]
<1>2. work[t] \in Works /\ work[t].rows = << >>
  BY <1>1, Using
<1>3. w \in Works /\ w.building = b /\ w.rows = << >>
  BY <1>2 DEF Works
<1>4. work' = [work EXCEPT ![t] = w] /\ user' = user
  BY DEF Building
<1>5. user' = [user EXCEPT ![t].at = "has"]
  BY <1>1, <1>4, StayAt
<1> HIDE DEF w
<1> QED
  BY <1>1, <1>3, <1>4, <1>5, Uses

LEMMA BuildConn ==
    ASSUME UsersInv, ConnInv, NEW t \in Threads, Build(t)
    PROVE  ConnInv'
<1>1. Has(t) /\ Holds(t) /\ ~work[t].building /\ ~Mine(t).strayed
      /\ pool' = pool /\ Building(t, TRUE)
  BY DEF Build, Has, Holds
<1>2. PICK m : m = Mine(t)
  OBVIOUS
<1>3. m \in Statements /\ m.fields = 0 /\ m.set = 0 /\ ~m.strayed
  BY <1>1, <1>2, Using
<1>4. PICK p \in Statements :
         ~p.strayed /\ (p.fields = 0 \/ p.set = 0) /\ Becomes(t, p)
  <2> DEFINE p1 == [m EXCEPT !.fields = 1]
             p2 == [m EXCEPT !.set = 1]
  <2>1. p1 \in Statements /\ p2 \in Statements /\ ~p1.strayed /\ ~p2.strayed
        /\ p1.set = 0 /\ p2.fields = 0
    BY <1>3 DEF Statements
  <2>2. [m EXCEPT !.fields = @ + 1] = p1 /\ [m EXCEPT !.set = @ + 1] = p2
    BY <1>3 DEF Statements
  <2>3. Becomes(t, p1) \/ Becomes(t, p2)
    BY <1>2, <2>2 DEF Build
  <2> HIDE DEF p1, p2
  <2> QED
    BY <2>1, <2>3
<1> QED
  BY <1>1, <1>4, BuildsConn

LEMMA CommitConn ==
    ASSUME UsersInv, ConnInv, NEW t \in Threads, InsertCommit(t) \/ UpdateCommit(t)
    PROVE  ConnInv'
<1>1. Has(t) /\ Holds(t) /\ ~Mine(t).strayed /\ pool' = pool /\ Building(t, FALSE)
  BY DEF InsertCommit, UpdateCommit, Has, Holds
<1>2. PICK m : m = Mine(t)
  OBVIOUS
<1>3. m \in Statements /\ (m.fields = 0 \/ m.set = 0) /\ ~m.strayed /\ 0 \in 0..Fields - 1
  BY <1>1, <1>2, Using, DatabaseAssumption
<1>4. PICK p \in Statements :
         ~p.strayed /\ p.fields = 0 /\ p.set = 0 /\ Becomes(t, p)
  <2> DEFINE p1 == [m EXCEPT !.fields = 0, !.ntuples = 0]
             p2 == [m EXCEPT !.fields = 0, !.ntuples = 0, !._begin = 0, !._end = 0]
             p3 == [m EXCEPT !.set = 0]
  <2>1. /\ p1 \in Statements /\ p2 \in Statements /\ p3 \in Statements
        /\ ~p1.strayed /\ ~p2.strayed /\ ~p3.strayed
        /\ p1.fields = 0 /\ p2.fields = 0 /\ p3.set = 0
        /\ p1.set = m.set /\ p2.set = m.set /\ p3.fields = m.fields
    BY <1>3 DEF Statements
  <2>2. m.fields \in Nat /\ m.set \in Nat /\ Refused(m) = m
    BY <1>3, RefusedIs DEF Statements
  <2>3. InsertCommit(t) => m.set = 0 /\ (Becomes(t, p1) \/ Becomes(t, p2))
    BY <1>2, <1>3, <2>2 DEF InsertCommit
  <2>4. UpdateCommit(t) => m.fields = 0 /\ Becomes(t, p3)
    BY <1>2, <1>3, <2>2 DEF UpdateCommit
  <2> HIDE DEF p1, p2, p3
  <2> QED
    BY <2>1, <2>3, <2>4
<1> QED
  BY <1>1, <1>4, BuildsConn

-----------------------------------------------------------------------------
(* The loop over a result. *)

LEMMA OneRowMore ==
    ASSUME NEW n \in Nat, NEW s, s = Upto(n), NEW r, r = [c \in 1..Fields |-> n + 1]
    PROVE  Append(s, r) = Upto(n + 1)
<1>1. s \in Seq(RowsLeft) /\ Len(s) = n /\ r \in RowsLeft
  <2>1. \A i \in 1..n : [c \in 1..Fields |-> i] \in RowsLeft
    BY DEF RowsLeft
  <2> QED
    BY <2>1 DEF Upto, RowsLeft
<1>2. /\ Append(s, r) \in Seq(RowsLeft) /\ Len(Append(s, r)) = n + 1
      /\ \A i \in 1..n : Append(s, r)[i] = s[i]
      /\ Append(s, r)[n + 1] = r
  BY <1>1, AppendProperties
<1>3. \A i \in 1..n + 1 : Append(s, r)[i] = [c \in 1..Fields |-> i]
  <2>1. ASSUME NEW i \in 1..n PROVE Append(s, r)[i] = [c \in 1..Fields |-> i]
    <3>1. s[i] = [c \in 1..Fields |-> i]
      BY DEF Upto
    <3> QED
      BY <1>2, <3>1
  <2>2. Append(s, r)[n + 1] = [c \in 1..Fields |-> n + 1]
    BY <1>2
  <2>3. \A i \in 1..n + 1 : i \in 1..n \/ i = n + 1
    OBVIOUS
  <2> QED
    BY <2>1, <2>2, <2>3
<1>4. Append(s, r) = [i \in 1..n + 1 |-> Append(s, r)[i]]
  BY <1>2
<1> QED
  BY <1>3, <1>4 DEF Upto

\* The rows that are collected once the loop sees that the row is complete.
LEMMA RowIs ==
    ASSUME NEW p \in Statements, NEW w \in Works, CursorOf(p, w)
    PROVE  /\ Row(p) => /\ p._idx + 1 = p._begin /\ p._end = 0
                        /\ Append(w.rows, w.built) = Upto(p._begin)
           /\ ~Row(p) => p._idx = p._begin /\ w.rows = Upto(p._begin)
<1>1. p._idx \in Nat /\ p._begin \in Nat
  BY DEF Statements
<1>2. CASE Row(p)
  <2>1. p._idx + 1 = p._begin /\ p._end = 0 /\ \A c \in 1..Fields : w.built[c] = p._begin
    BY <1>1, <1>2 DEF Row, CursorOf
  <2>2. w.built = [c \in 1..Fields |-> p._idx + 1]
    BY <2>1 DEF Works, RowsLeft
  <2>3. Append(w.rows, w.built) = Upto(p._idx + 1)
    BY <1>1, <2>2, OneRowMore DEF CursorOf
  <2> QED
    BY <1>2, <2>1, <2>3
<1>3. CASE ~Row(p)
  BY <1>1, <1>3 DEF Row, CursorOf
<1> QED
  BY <1>2, <1>3

LEMMA PGResultConn ==
    ASSUME UsersInv, ConnInv, NEW t \in Threads, PGResult(t)
    PROVE  ConnInv'
<1>1. PICK p : p = Mine(t)
  OBVIOUS
<1>2. PICK w : w = work[t]
  OBVIOUS
<1>3. /\ user[t].at = "rows" /\ Holds(t) /\ ~Mine(t).strayed
      /\ p._begin # p.ntuples /\ pool' = pool /\ user' = user
  BY <1>1 DEF PGResult, Holds
<1>4. /\ p \in Statements /\ w \in Works /\ CursorOf(p, w)
      /\ p.fields = 0 /\ p.set = 0 /\ ~w.building /\ ~p.strayed
  BY <1>1, <1>2, <1>3, Using
<1>5. /\ p._begin \in Nat /\ p.ntuples \in Nat /\ p._end \in 0..Fields - 1
      /\ p._begin + 1 <= p.ntuples /\ Fields \in Nat \ {0}
  <2>1. p._begin \in Nat /\ p.ntuples \in Nat /\ p._end \in 0..Fields - 1
    BY <1>4 DEF Statements
  <2>2. p._begin <= p.ntuples
    BY <1>4 DEF CursorOf
  <2> QED
    BY <1>3, <2>1, <2>2, DatabaseAssumption
<1>6. PICK c \in 1..Fields : c = p._end + 1
  BY <1>5
<1>7. PICK b \in Nat : b = IF c = Fields THEN p._begin + 1 ELSE p._begin
  BY <1>5
<1>8. PICK e \in 0..Fields - 1 : e = IF c = Fields THEN 0 ELSE p._end + 1
  BY <1>5, <1>6
<1>9. PICK rows \in Seq(RowsLeft) : rows = IF Row(p) THEN Append(w.rows, w.built) ELSE w.rows
  <2>1. w.rows \in Seq(RowsLeft) /\ w.built \in RowsLeft
    BY <1>4 DEF Works
  <2>2. Append(w.rows, w.built) \in Seq(RowsLeft)
    BY <2>1, AppendProperties
  <2> QED
    BY <2>1, <2>2
<1> DEFINE built == [w.built EXCEPT ![c] = p._begin + 1]
<1>10. built \in RowsLeft /\ built[c] = p._begin + 1
       /\ \A d \in 1..Fields : d # c => built[d] = w.built[d]
  <2>1. w.built \in [1..Fields -> Nat] /\ p._begin + 1 \in Nat
    BY <1>4, <1>5 DEF Works, RowsLeft
  <2> QED
    BY <1>6, <2>1 DEF RowsLeft
<1> DEFINE q == [p EXCEPT !._idx = p._begin, !._end = e, !._begin = b]
           v == [w EXCEPT !.rows = rows, !.built = built]
<1>11. rows = Upto(p._begin) /\ (IF Row(p) THEN p._begin ELSE p._idx) = p._begin
  BY <1>4, <1>9, RowIs
<1>12. Becomes(t, q)
  BY <1>1, <1>6, <1>7, <1>8, <1>11 DEF PGResult
<1>13. work' = [work EXCEPT ![t] = v]
  <2>1. work' = [work EXCEPT ![t].rows = rows, ![t].built[c] = p._begin + 1]
    BY <1>1, <1>2, <1>6, <1>9 DEF PGResult
  <2>2. work \in [Threads -> Works]
    BY DEF ConnInv, MarksKept
  <2> QED
    BY <1>2, <1>4, <2>1, <2>2 DEF Works
<1>14. /\ q \in Statements /\ ~q.strayed /\ q.fields = 0 /\ q.set = 0
       /\ q._idx = p._begin /\ q._end = e /\ q._begin = b /\ q.ntuples = p.ntuples
  BY <1>4, <1>5, <1>7, <1>8 DEF Statements
<1> HIDE DEF built
<1>15. v \in Works /\ ~v.building /\ v.rows = Upto(p._begin) /\ v.built = built
  BY <1>4, <1>9, <1>10, <1>11 DEF Works
<1> HIDE DEF q, v
<1>16. CursorOf(q, v)
  <2>1. CASE c = Fields
    <3>1. q._begin = p._begin + 1 /\ q._end = 0
      BY <1>7, <1>8, <1>14, <2>1
    <3>2. \A d \in 1..Fields : d # c => built[d] = p._begin + 1
      <4>1. CASE Row(p)
        <5>1. p._end = 0
          BY <1>4, <4>1, RowIs
        <5>2. Fields = 1
          BY <1>6, <2>1, <5>1
        <5> QED
          BY <2>1, <5>2
      <4>2. CASE ~Row(p)
        <5>1. p._idx = p._begin
          BY <1>4, <4>2, RowIs
        <5>2. \A d \in 1..p._end : w.built[d] = p._begin + 1
          BY <1>4, <1>5, <5>1 DEF CursorOf, Statements
        <5>3. \A d \in 1..Fields : d # c => d \in 1..p._end
          BY <1>5, <1>6, <2>1
        <5> QED
          BY <1>10, <5>2, <5>3
      <4> QED
        BY <4>1, <4>2
    <3>3. \A d \in 1..Fields : v.built[d] = q._begin
      BY <1>10, <1>15, <3>1, <3>2
    <3> QED
      BY <1>5, <1>14, <1>15, <3>1, <3>3 DEF CursorOf
  <2>2. CASE c # Fields
    <3>1. q._begin = p._begin /\ q._end = p._end + 1 /\ q._end = c
      BY <1>6, <1>7, <1>8, <1>14, <2>2
    <3>2. \A d \in 1..p._end : w.built[d] = p._begin + 1
      <4>1. CASE Row(p)
        <5>1. p._end = 0
          BY <1>4, <4>1, RowIs
        <5> QED
          BY <5>1
      <4>2. CASE ~Row(p)
        <5>1. p._idx = p._begin
          BY <1>4, <4>2, RowIs
        <5> QED
          BY <1>4, <1>5, <5>1 DEF CursorOf, Statements
      <4> QED
        BY <4>1, <4>2
    <3>3. ASSUME NEW d \in 1..q._end PROVE v.built[d] = q._begin + 1
      <4>1. d = c \/ d \in 1..p._end
        BY <1>5, <1>6, <3>1
      <4>2. d \in 1..p._end => d # c /\ d \in 1..Fields
        BY <1>5, <1>6
      <4> QED
        BY <1>10, <1>15, <3>1, <3>2, <4>1, <4>2
    <3> QED
      BY <1>5, <1>14, <1>15, <3>1, <3>3 DEF CursorOf
  <2> QED
    BY <2>1, <2>2
<1>17. user' = [user EXCEPT ![t].at = "rows"]
  BY <1>3, StayAt
<1> QED
  BY <1>3, <1>12, <1>13, <1>14, <1>15, <1>16, <1>17, Uses

LEMMA LastRowConn ==
    ASSUME UsersInv, ConnInv, NEW t \in Threads, LastRow(t)
    PROVE  ConnInv'
<1>1. PICK p : p = Mine(t)
  OBVIOUS
<1>2. PICK w : w = work[t]
  OBVIOUS
<1>3. /\ user[t].at = "rows" /\ Holds(t) /\ ~Mine(t).strayed
      /\ p._begin = p.ntuples /\ pool' = pool /\ user' = [user EXCEPT ![t].at = "read"]
  BY <1>1 DEF LastRow, Holds
<1>4. /\ p \in Statements /\ w \in Works /\ CursorOf(p, w)
      /\ p.fields = 0 /\ p.set = 0 /\ ~w.building /\ ~p.strayed
  BY <1>1, <1>2, <1>3, Using
<1>5. PICK rows \in Seq(RowsLeft) : rows = IF Row(p) THEN Append(w.rows, w.built) ELSE w.rows
  <2>1. w.rows \in Seq(RowsLeft) /\ w.built \in RowsLeft
    BY <1>4 DEF Works
  <2>2. Append(w.rows, w.built) \in Seq(RowsLeft)
    BY <2>1, AppendProperties
  <2> QED
    BY <2>1, <2>2
<1>6. rows = Upto(p._begin) /\ (IF Row(p) THEN p._begin ELSE p._idx) = p._begin
  BY <1>4, <1>5, RowIs
<1> DEFINE q == [p EXCEPT !._idx = p._begin]
           v == [w EXCEPT !.rows = rows]
<1>7. Becomes(t, q)
  BY <1>1, <1>6 DEF LastRow
<1>8. work' = [work EXCEPT ![t] = v]
  <2>1. work' = [work EXCEPT ![t].rows = rows]
    BY <1>1, <1>2, <1>5 DEF LastRow
  <2> QED
    BY <1>2, <2>1
<1>9. q \in Statements /\ ~q.strayed /\ q.fields = 0 /\ q.set = 0 /\ q.ntuples = p._begin
  BY <1>3, <1>4 DEF Statements
<1>10. v \in Works /\ ~v.building /\ v.rows = Upto(q.ntuples)
  BY <1>4, <1>5, <1>6, <1>9 DEF Works
<1> HIDE DEF q, v
<1> QED
  BY <1>3, <1>7, <1>8, <1>9, <1>10, Uses

LEMMA DoneReadingConn ==
    ASSUME UsersInv, ConnInv, NEW t \in Threads, DoneReading(t)
    PROVE  ConnInv'
<1>1. /\ user[t].at = "read" /\ Holds(t) /\ pool' = pool /\ pg' = pg
      /\ work' = [work EXCEPT ![t] = NoWork] /\ user' = [user EXCEPT ![t].at = "has"]
  BY DEF DoneReading, Holds
<1> DEFINE r == [user[t] EXCEPT !.at = "has"]
<1>2. user[t] \in Users
  BY DEF UsersInv, UsersTyped
<1>3. r \in Users /\ r.at = "has" /\ r.conn = user[t].conn /\ r.idx = user[t].idx
  BY <1>2 DEF Users
<1>4. user' = [user EXCEPT ![t] = r]
  BY <1>1
<1>5. user[t].conn \in DOMAIN pg
      /\ (pg[user[t].conn].strayed \/ user[t].conn = user[t].idx)
  BY <1>1 DEF ConnInv, PoolReached, Mine
<1>6. ~work[t].building
  BY <1>1 DEF ConnInv, AtRest
<1> HIDE DEF r
<1>7. MarksKept'
  BY <1>1, PgsqlIs DEF ConnInv, MarksKept
<1>8. DOMAIN pg \subseteq DOMAIN pg' /\ DOMAIN pg' \ DOMAIN pg = {}
      /\ \A k \in DOMAIN pg : pg'[k] = pg[k]
  BY <1>1
<1> QED
  BY <1>1, <1>3, <1>4, <1>5, <1>6, <1>7, <1>8, Comes, ZenonT(40)

LEMMA NextConnInv == UsersInv /\ ConnInv /\ [DatabaseNext]_databaseVars => ConnInv'
<1> SUFFICES ASSUME UsersInv, ConnInv, [DatabaseNext]_databaseVars PROVE ConnInv'
  OBVIOUS
<1>1. CASE UNCHANGED databaseVars
  BY <1>1 DEF databaseVars, ConnInv, MarksKept, PoolReached, AtRest, Forgotten, BuiltBy, Cursors,
              Collected, Holds, Mine
<1>2. CASE DatabaseNext
  BY <1>2, GetIdConn, PtrConn, PtrAtConn, GiveBackConn, SelectSQLConn, PGResultConn,
     LastRowConn, DoneReadingConn, BuildConn, CommitConn, NewSessionConn DEF DatabaseNext
<1> QED
  BY <1>1, <1>2

\* A connection serves its users one after the other (Pgsql::select_sql(),
\* PGResult, insert_commit(), release()): every row of a result is collected once
\* and in order, and nothing is left behind, for any threads, results and pools.
THEOREM DatabaseConnections == DatabaseSpec => []ConnectionsInv
<1>1. UsersInv /\ ConnInv => OneUser
  <2> SUFFICES ASSUME UsersInv, NEW t \in Threads, NEW u \in Threads, t # u,
                      Holds(t), Holds(u), ~user[t].moved, ~user[u].moved
               PROVE  user[t].conn # user[u].conn
    BY DEF OneUser
  <2>1. user[t].conn = user[t].idx /\ user[u].conn = user[u].idx
    BY DEF UsersInv, Found
  <2>2. user[t].idx # user[u].idx
    BY DEF UsersInv, Marked, Placed, Holds
  <2> QED
    BY <2>1, <2>2
<1>2. UsersInv /\ ConnInv => DatabaseTypeOK
  <2> SUFFICES ASSUME UsersInv, ConnInv PROVE DatabaseTypeOK
    OBVIOUS
  <2>1. \A k \in DOMAIN pg :
          /\ pg[k].transaction \in {"none", "open", "aborted"}
          /\ pg[k].fields \in 0..2 /\ pg[k].set \in 0..2
          /\ pg[k]._end \in 0..Fields - 1 /\ pg[k]._idx \in Nat
    <3> SUFFICES ASSUME NEW k \in DOMAIN pg
                 PROVE  /\ pg[k].transaction \in {"none", "open", "aborted"}
                        /\ pg[k].fields \in 0..2 /\ pg[k].set \in 0..2
                        /\ pg[k]._end \in 0..Fields - 1 /\ pg[k]._idx \in Nat
      OBVIOUS
    <3>1. pg[k] \in Statements
      BY DEF ConnInv, MarksKept
    <3> QED
      BY <3>1 DEF Statements
  <2>2. \A t \in Threads :
          user[t].at = "rows" /\ ~Mine(t).strayed => Mine(t)._begin <= Mine(t).ntuples
    BY DEF ConnInv, Cursors, CursorOf
  <2> QED
    BY <2>1, <2>2 DEF DatabaseTypeOK, ConnInv, MarksKept
<1>3. UsersInv /\ ConnInv => RowsOnce
  BY DEF ConnInv, Collected, RowsOnce, Upto
<1>4. UsersInv /\ ConnInv => CleanWhenFree
  <2> SUFFICES ASSUME UsersInv, ConnInv, NEW k \in DOMAIN pool, pool[k], ~pg[k].strayed
               PROVE  /\ pg[k].transaction # "open"
                      /\ pg[k].fields = 0 /\ pg[k].set = 0
    BY DEF CleanWhenFree
  <2>1. k \in DOMAIN pg /\ pg[k] \in Statements
    BY DEF ConnInv, MarksKept, UsersInv, UsersTyped
  <2>2. ~BuiltBy(k)
    <3> SUFFICES ASSUME NEW t \in Threads, Holds(t), user[t].conn = k PROVE FALSE
      BY DEF BuiltBy
    <3>1. user[t].idx = k
      BY DEF ConnInv, PoolReached, Mine
    <3>2. pool[user[t].idx] = FALSE
      BY DEF UsersInv, Marked, Placed, Holds
    <3> QED
      BY <3>1, <3>2
  <2>3. pg[k].fields = 0 /\ pg[k].set = 0
    BY <2>1, <2>2 DEF ConnInv, Forgotten
  <2> QED
    BY <2>1, <2>3 DEF Statements
<1>5. UsersInv /\ ConnInv => ConnectionsInv
  BY <1>1, <1>2, <1>3, <1>4 DEF ConnectionsInv
<1> QED
  BY InitUsers, NextUsers, InitConnInv, NextConnInv, <1>5, PTL DEF DatabaseSpec

(****************************************************************************)
(* The arrays of the scripts keep a window over what was added, and what is  *)
(* read of them is of that window.                                          *)
(****************************************************************************)

\* Types of the ring. As long as the order was not spoilt, pos counts what was added
\* until the vector is full, and then gives, modulo the length, the cursor.
RingTyped ==
    /\ ring \in [data : Seq(Nat), length : Lengths \cup {0}, pos : Nat, cur : Nat]
    /\ inOrder \in BOOLEAN
CursorFollows ==
    inOrder =>
        /\ size <= ring.length
        /\ size < ring.length \/ size = 0 => ring.pos = size /\ ring.cur = 0
        /\ size = ring.length /\ size > 0 => ring.cur = ring.pos % ring.length
RingInv == RingTyped /\ CursorFollows

\* Where the i-th value of a window of L is that starts at c.
Slot(c, i, L) == ((c + (i - 1)) % L) + 1

LEMMA SlotInside ==
    ASSUME NEW L \in Nat \ {0}, NEW c \in Nat, NEW i \in 1 .. L
    PROVE  Slot(c, i, L) \in 1 .. L
<1>1. (c + (i - 1)) \in Nat
  OBVIOUS
<1> QED
  BY <1>1, DivMod DEF Slot

LEMMA SlotFromFront ==
    ASSUME NEW L \in Nat \ {0}, NEW i \in 1 .. L
    PROVE  Slot(0, i, L) = i
<1>1. (0 + (i - 1)) \in 0 .. L - 1 /\ 0 + (i - 1) = i - 1
  OBVIOUS
<1>2. (0 + (i - 1)) % L = i - 1
  BY <1>1, ModSmall
<1> QED
  BY <1>2 DEF Slot

LEMMA SlotsDiffer ==
    ASSUME NEW L \in Nat \ {0}, NEW c \in Nat, NEW i \in 1 .. L, NEW j \in 1 .. L, i # j
    PROVE  Slot(c, i, L) # Slot(c, j, L)
<1>1. PICK a \in Nat, b \in Nat : a = c + (i - 1) /\ b = c + (j - 1)
  OBVIOUS
<1>2. (a < b /\ b - a < L) \/ (b < a /\ a - b < L)
  BY <1>1
<1>3. a % L # b % L
  BY <1>2, DistinctRows
<1>4. a % L \in Nat /\ b % L \in Nat
  BY DivMod
<1> QED
  BY <1>1, <1>3, <1>4 DEF Slot

\* The cursor of a full ring moves on: every value is one place further to the front,
\* and behind them is the place that was the first.
LEMMA SlotTurns ==
    ASSUME NEW L \in Nat \ {0}, NEW c \in 0 .. L - 1, NEW i \in 1 .. L
    PROVE  /\ i < L => Slot((c + 1) % L, i, L) = Slot(c, i + 1, L)
           /\ i = L => Slot((c + 1) % L, i, L) = c + 1
<1>1. CASE c + 1 < L
  <2>1. (c + 1) % L = c + 1
    BY <1>1, ModSmall
  <2>2. (c + 1) + (i - 1) = c + ((i + 1) - 1)
    OBVIOUS
  <2>3. CASE i = L
    <3>1. (c + 1) + (i - 1) \in Nat /\ (c + 1) + (i - 1) = L * 1 + c
      BY <2>3
    <3>2. ((c + 1) + (i - 1)) % L = c
      BY <3>1, ModUnique
    <3> QED
      BY <2>1, <2>3, <3>2 DEF Slot
  <2> QED
    BY <2>1, <2>2, <2>3 DEF Slot
<1>2. CASE c + 1 = L
  <2>1. (c + 1) % L = 0
    <3>1. c + 1 = L * 1 + 0 /\ c + 1 \in Nat /\ 0 \in 0 .. L - 1
      BY <1>2
    <3> QED
      BY <3>1, ModUnique
  <2>2. Slot((c + 1) % L, i, L) = i
    BY <2>1, SlotFromFront
  <2>3. ASSUME i < L PROVE Slot(c, i + 1, L) = i
    <3>1. c + ((i + 1) - 1) = L * 1 + (i - 1) /\ c + ((i + 1) - 1) \in Nat
          /\ i - 1 \in 0 .. L - 1
      BY <1>2
    <3>2. (c + ((i + 1) - 1)) % L = i - 1
      BY <3>1, ModUnique
    <3> QED
      BY <3>2 DEF Slot
  <2> QED
    BY <1>2, <2>2, <2>3
<1> QED
  BY <1>1, <1>2

\* What get() shows of the ring, by the place.
Shows ==
    /\ size \in Nat /\ DOMAIN ring.data = 1 .. size
    /\ Contents \in Seq(Nat) /\ Len(Contents) = size /\ DOMAIN Contents = 1 .. size
    /\ \A i \in 1 .. size : Contents[i] = ring.data[Slot(ring.cur, i, size)]

LEMMA ContentsAre == RingTyped => Shows
<1> SUFFICES ASSUME RingTyped PROVE Shows
  OBVIOUS
<1>1. ring.data \in Seq(Nat) /\ ring.cur \in Nat
  BY DEF RingTyped
<1>2. size \in Nat /\ DOMAIN ring.data = 1 .. size
      /\ \A i \in 1 .. size : ring.data[i] \in Nat
  BY <1>1 DEF size
<1>3. ASSUME NEW i \in 1 .. size
      PROVE  /\ Contents[i] = ring.data[Slot(ring.cur, i, size)]
             /\ Contents[i] \in Nat
  <2>1. At(i - 1) = Slot(ring.cur, i, size)
    BY <1>2 DEF At, Slot
  <2>2. Slot(ring.cur, i, size) \in 1 .. size
    <3>1. size \in Nat \ {0}
      BY <1>2
    <3> QED
      BY <1>1, <3>1, SlotInside
  <2> QED
    BY <1>2, <2>1, <2>2 DEF Contents
<1>4. Contents \in [1 .. size -> Nat]
  BY <1>3 DEF Contents
<1>5. Contents \in Seq(Nat)
  BY <1>2, <1>4
<1> QED
  BY <1>2, <1>3, <1>4, <1>5 DEF Shows

LEMMA ContentsAfter == RingTyped' => Shows'
BY ContentsAre, PTL

\* What the abstract window does when a value is added, case by case.
LEMMA AddIs ==
    ASSUME NEW v, ring.length > 0, ring'.length = ring.length, inOrder' = inOrder,
           inOrder /\ Len(Append(Contents, v)) <= ring.length =>
                Contents' = Append(Contents, v),
           inOrder /\ ~(Len(Append(Contents, v)) <= ring.length) =>
                Contents' = Tail(Append(Contents, v)),
           ~inOrder =>
                Len(Contents') = IF Len(Contents) < ring.length
                                 THEN Len(Append(Contents, v)) ELSE Len(Contents)
    PROVE  W!Add(v)
<1>1. PICK w, x, y, z : /\ w = Append(Contents, v) /\ x = Contents' /\ y = ring.length
                        /\ z = Contents
  OBVIOUS
<1>2. inOrder => x = IF Len(w) <= y THEN w ELSE Tail(w)
  BY <1>1
<1>3. ~inOrder => Len(x) = IF Len(z) < y THEN Len(w) ELSE Len(z)
  BY <1>1
<1> QED
  BY <1>1, <1>2, <1>3 DEF W!Add

LEMMA AddMoves ==
    ASSUME RingInv, NEW v \in Values, ArrayAdd(v)
    PROVE  RingInv' /\ W!Add(v)
<1> DEFINE cells == ring.data
           L == ring.length
<1>1. /\ ring \in [data : Seq(Nat), length : Lengths \cup {0}, pos : Nat, cur : Nat]
      /\ cells \in Seq(Nat) /\ L \in Nat \ {0} /\ ring.pos \in Nat /\ ring.cur \in Nat
      /\ v \in Nat /\ size = Len(cells) /\ size \in Nat /\ inOrder' = inOrder
      /\ inOrder \in BOOLEAN /\ L \in Lengths \cup {0}
  <2>1. /\ ring \in [data : Seq(Nat), length : Lengths \cup {0}, pos : Nat, cur : Nat]
        /\ inOrder \in BOOLEAN
    BY DEF RingInv, RingTyped
  <2>2. ring.length > 0 /\ inOrder' = inOrder
    BY DEF ArrayAdd
  <2>3. cells \in Seq(Nat) /\ L \in Lengths \cup {0} /\ ring.pos \in Nat /\ ring.cur \in Nat
    BY <2>1
  <2>4. L \in Nat \ {0} /\ v \in Nat
    <3>1. Values \subseteq Nat /\ Lengths \subseteq Nat \ {0}
      BY ArraysAssumption
    <3>2. ring.length > 0 /\ (ring.length = 0 \/ ring.length \in Lengths)
      BY <2>2, <2>3
    <3>3. ring.length = 0 => ~(ring.length > 0)
      OBVIOUS
    <3> QED
      BY <3>1, <3>2, <3>3
  <2>5. size = Len(cells) /\ size \in Nat
    BY <2>3 DEF size
  <2> QED
    BY <2>1, <2>2, <2>3, <2>4, <2>5
<1>2. /\ size \in Nat /\ DOMAIN cells = 1 .. size
      /\ Contents \in Seq(Nat) /\ Len(Contents) = size /\ DOMAIN Contents = 1 .. size
      /\ \A i \in 1 .. size : Contents[i] = cells[Slot(ring.cur, i, size)]
  BY ContentsAre DEF RingInv, Shows
<1>3. Len(Append(Contents, v)) = size + 1
  BY <1>1, <1>2
<1>4. CASE size < L
  <2>1. ring' = [ring EXCEPT !.data = Append(cells, v), !.pos = ring.pos + 1]
    BY <1>4 DEF ArrayAdd, RingAdd
  <2>2. /\ ring'.data = Append(cells, v) /\ ring'.length = L /\ ring'.pos = ring.pos + 1
        /\ ring'.cur = ring.cur
        /\ ring' \in [data : Seq(Nat), length : Lengths \cup {0}, pos : Nat, cur : Nat]
    <3>1. Append(cells, v) \in Seq(Nat) /\ ring.pos + 1 \in Nat
      BY <1>1
    <3> QED
      BY <1>1, <2>1, <3>1
  <2>3. size' = size + 1
    BY <1>1, <2>2 DEF size
  <2>4. RingTyped'
    BY <1>1, <2>2 DEF RingTyped
  <2>5. CursorFollows'
    <3>1. ASSUME inOrder, size + 1 = L PROVE ring.cur = (ring.pos + 1) % L
      <4>1. ring.cur = 0 /\ ring.pos + 1 = L * 1 + 0 /\ 0 \in 0 .. L - 1 /\ ring.pos + 1 \in Nat
        BY <1>1, <1>4, <3>1 DEF RingInv, CursorFollows
      <4> QED
        BY <1>1, <4>1, ModUnique
    <3> QED
      BY <1>1, <1>4, <2>2, <2>3, <3>1 DEF RingInv, CursorFollows
  <2>6. W!Add(v)
    <3>1. Len(Contents') = size + 1
      BY <2>3, <2>4, ContentsAfter DEF Shows
    <3>2. ASSUME inOrder PROVE Contents' = Append(Contents, v)
      <4>1. ring.cur = 0
        BY <1>4, <3>2 DEF RingInv, CursorFollows
      <4>2. /\ Contents' \in Seq(Nat) /\ Len(Contents') = size + 1
            /\ \A i \in 1 .. size + 1 : Contents'[i] = ring'.data[Slot(0, i, size + 1)]
        BY <2>2, <2>3, <2>4, <4>1, ContentsAfter DEF Shows
      <4>3. Append(Contents, v) \in Seq(Nat)
        BY <1>1, <1>2
      <4>4. ASSUME NEW i \in 1 .. size + 1 PROVE Contents'[i] = Append(Contents, v)[i]
        <5>1. size + 1 \in Nat \ {0}
          BY <1>1
        <5>2. Contents'[i] = Append(cells, v)[i]
          BY <2>2, <4>2, <5>1, SlotFromFront
        <5>3. ASSUME i # size + 1 PROVE Contents[i] = cells[i]
          <6>1. size \in Nat \ {0} /\ i \in 1 .. size
            BY <1>1, <5>3
          <6> QED
            BY <1>2, <4>1, <6>1, SlotFromFront
        <5> QED
          BY <1>1, <1>2, <5>2, <5>3
      <4> QED
        BY <1>3, <4>2, <4>3, <4>4, SeqEqual
    <3> QED
      BY <1>1, <1>2, <1>3, <1>4, <2>2, <3>1, <3>2, AddIs
  <2> QED
    BY <2>4, <2>5, <2>6 DEF RingInv
<1>5. CASE ~(size < L)
  <2>1. PICK d : d = [cells EXCEPT ![ring.cur + 1] = v]
    OBVIOUS
  <2>2. PICK c : c = (ring.pos + 1) % L
    OBVIOUS
  <2>3. PICK p : p = (ring.pos % L) + 1
    OBVIOUS
  <2>4. ring' = [ring EXCEPT !.data = d, !.cur = c, !.pos = p]
    BY <1>1, <1>5, <2>1, <2>2, <2>3 DEF ArrayAdd, RingAdd
  <2>5. /\ d \in Seq(Nat) /\ Len(d) = size
        /\ \A i \in 1 .. size : d[i] = IF i = ring.cur + 1 THEN v ELSE cells[i]
    <3>1. CASE ring.cur + 1 \in 1 .. size
      BY <1>1, <2>1, <3>1, ExceptSeq
    <3>2. CASE ring.cur + 1 \notin 1 .. size
      <4>1. cells = [i \in 1 .. size |-> cells[i]]
        BY <1>1, <1>2, LenProperties
      <4>2. d = cells
        BY <1>2, <2>1, <3>2, <4>1
      <4> QED
        BY <1>1, <3>2, <4>2
    <3> QED
      BY <3>1, <3>2
  <2>6. c \in Nat /\ p \in Nat
    <3>1. ring.pos + 1 \in Nat
      BY <1>1
    <3>2. (ring.pos + 1) % L \in 0 .. L - 1 /\ ring.pos % L \in 0 .. L - 1
      BY <1>1, <3>1, DivMod
    <3> QED
      BY <1>1, <2>2, <2>3, <3>2
  <2>7. /\ ring'.data = d /\ ring'.length = L /\ ring'.pos = p /\ ring'.cur = c
        /\ ring' \in [data : Seq(Nat), length : Lengths \cup {0}, pos : Nat, cur : Nat]
    BY <1>1, <2>4, <2>5, <2>6
  <2>8. size' = size
    BY <2>5, <2>7 DEF size
  <2>9. RingTyped'
    BY <1>1, <2>7 DEF RingTyped
  <2>10. ASSUME inOrder PROVE size = L /\ ring.cur = ring.pos % L /\ c = (ring.cur + 1) % L
    <3>1. size = L /\ ring.cur = ring.pos % L
      BY <1>1, <1>5, <2>10 DEF RingInv, CursorFollows
    <3> QED
      BY <1>1, <2>2, <3>1, ModSuccessor
  <2>11. CursorFollows'
    <3>1. ASSUME inOrder PROVE c = p % L
      BY <1>1, <2>2, <2>3, ModSuccessor
    <3> QED
      BY <1>1, <2>7, <2>8, <2>10, <3>1 DEF CursorFollows
  <2>12. W!Add(v)
    <3>1. Len(Contents') = size
      BY <2>8, <2>9, ContentsAfter DEF Shows
    <3>2. ASSUME inOrder PROVE Contents' = Tail(Append(Contents, v))
      <4>1. /\ Contents' \in Seq(Nat)
            /\ \A i \in 1 .. L : Contents'[i] = d[Slot((ring.cur + 1) % L, i, L)]
        BY <2>7, <2>8, <2>9, <2>10, <3>2, ContentsAfter DEF Shows
      <4>2. Append(Contents, v) \in Seq(Nat) /\ Append(Contents, v) # << >>
        <5>1. Contents \in Seq(Nat) /\ v \in Nat
          BY <1>1, <1>2
        <5> QED
          BY <5>1
      <4>3. /\ Tail(Append(Contents, v)) \in Seq(Nat) /\ Len(Tail(Append(Contents, v))) = L
            /\ \A i \in 1 .. L : Tail(Append(Contents, v))[i] = Append(Contents, v)[i + 1]
        <5>1. PICK w \in Seq(Nat) : w = Append(Contents, v) /\ w # << >> /\ Len(w) = L + 1
          BY <1>3, <2>10, <3>2, <4>2
        <5>2. /\ Tail(w) \in Seq(Nat) /\ Len(Tail(w)) = L
              /\ \A i \in 1 .. L : Tail(w)[i] = w[i + 1]
          <6>1. w \in Seq(Nat) /\ w # << >> /\ Len(w) - 1 = L
            BY <1>1, <5>1
          <6>2. /\ Tail(w) \in Seq(Nat) /\ Len(Tail(w)) = Len(w) - 1
                /\ \A i \in 1 .. Len(Tail(w)) : Tail(w)[i] = w[i + 1]
            BY <6>1, HeadTailProperties
          <6> QED
            BY <6>1, <6>2
        <5> QED
          BY <5>1, <5>2
      <4>4. ring.cur \in 0 .. L - 1
        BY <1>1, <2>10, <3>2, DivMod
      <4>5. ASSUME NEW i \in 1 .. L PROVE Contents'[i] = Tail(Append(Contents, v))[i]
        <5>1. CASE i = L
          <6>1. Contents'[i] = d[ring.cur + 1]
            BY <1>1, <4>1, <4>4, <5>1, SlotTurns
          <6>2. d[ring.cur + 1] = v
            <7>1. ring.cur + 1 \in 1 .. size
              BY <1>1, <2>10, <3>2, <4>4
            <7> QED
              BY <2>5, <7>1
          <6>3. Append(Contents, v)[i + 1] = v
            BY <1>2, <2>10, <3>2, <5>1
          <6> QED
            BY <4>3, <6>1, <6>2, <6>3
        <5>2. CASE i # L
          <6>1. i < L /\ i + 1 \in 1 .. L
            BY <1>1, <5>2
          <6>2. Contents'[i] = d[Slot(ring.cur, i + 1, L)]
            BY <1>1, <4>1, <4>4, <6>1, SlotTurns
          <6>3. /\ Slot(ring.cur, i + 1, L) \in 1 .. L
                /\ Slot(ring.cur, i + 1, L) # Slot(ring.cur, 1, L)
            BY <1>1, <6>1, SlotInside, SlotsDiffer
          <6>4. Slot(ring.cur, 1, L) = ring.cur + 1
            <7>1. ring.cur + (1 - 1) = ring.cur /\ ring.cur % L = ring.cur
              BY <1>1, <4>4, ModSmall
            <7> QED
              BY <7>1 DEF Slot
          <6>5. Contents'[i] = cells[Slot(ring.cur, i + 1, L)]
            BY <2>5, <2>10, <3>2, <6>2, <6>3, <6>4
          <6>6. Append(Contents, v)[i + 1] = Contents[i + 1]
            BY <1>2, <2>10, <3>2, <6>1
          <6> QED
            BY <1>2, <2>10, <3>2, <4>3, <6>1, <6>5, <6>6
        <5> QED
          BY <5>1, <5>2
      <4> QED
        BY <2>10, <3>1, <3>2, <4>1, <4>3, <4>5, SeqEqual
    <3> QED
      <4>1. ring.length > 0 /\ ring'.length = ring.length /\ inOrder' = inOrder
        BY <1>1, <2>7
      <4>2. inOrder => ~(Len(Append(Contents, v)) <= ring.length)
        BY <1>1, <1>3, <2>10
      <4>3. Len(Contents') = IF Len(Contents) < ring.length
                             THEN Len(Append(Contents, v)) ELSE Len(Contents)
        BY <1>2, <1>5, <3>1
      <4> QED
        BY <3>2, <4>1, <4>2, <4>3, AddIs
  <2> QED
    BY <2>9, <2>11, <2>12 DEF RingInv
<1> QED
  BY <1>4, <1>5

\* The window is what it was while the vector and the cursor stay.
LEMMA SameContents ==
    ASSUME ring'.data = ring.data, ring'.cur = ring.cur
    PROVE  size' = size /\ Contents' = Contents
<1>1. size' = size
  BY DEF size
<1>2. \A i : At(i)' = At(i)
  BY <1>1 DEF At
<1> QED
  BY <1>1, <1>2 DEF Contents

LEMMA ArrayMoves ==
    ASSUME RingInv, NEW len \in Lengths, Array(len)
    PROVE  RingInv' /\ W!Declare(len)
<1>1. /\ ring \in [data : Seq(Nat), length : Lengths \cup {0}, pos : Nat, cur : Nat]
      /\ inOrder \in BOOLEAN
  BY DEF RingInv, RingTyped
<1>2. /\ ring' \in [data : Seq(Nat), length : Lengths \cup {0}, pos : Nat, cur : Nat]
      /\ ring'.data = ring.data /\ ring'.length = len
      /\ ring'.pos = ring.pos /\ ring'.cur = ring.cur
      /\ inOrder' = (inOrder /\ (size = 0 \/ ring.length = len))
  BY <1>1 DEF Array
<1>3. size' = size /\ Contents' = Contents
  BY <1>2, SameContents
<1>4. RingTyped'
  BY <1>1, <1>2 DEF RingTyped
<1>5. CursorFollows'
  <2>1. len \in Nat /\ len > 0
    BY ArraysAssumption
  <2>2. size \in Nat
    BY ContentsAre DEF RingInv, Shows
  <2>3. ASSUME inOrder' PROVE inOrder /\ (size = 0 \/ ring.length = len)
    BY <1>2, <2>3
  <2>4. ASSUME inOrder', size = 0 PROVE CursorFollows'
    BY <1>2, <1>3, <2>1, <2>3, <2>4 DEF RingInv, CursorFollows
  <2>5. ASSUME inOrder', ring.length = len PROVE CursorFollows'
    BY <1>2, <1>3, <2>3, <2>5 DEF RingInv, CursorFollows
  <2>6. ~inOrder' => CursorFollows'
    BY DEF CursorFollows
  <2> QED
    BY <2>3, <2>4, <2>5, <2>6
<1>6. Contents = << >> <=> size = 0
  BY ContentsAre DEF RingInv, Shows
<1>7. W!Declare(len)
  BY <1>2, <1>3, <1>6 DEF W!Declare
<1> QED
  BY <1>4, <1>5, <1>7 DEF RingInv

LEMMA ArrayFillMoves ==
    ASSUME RingInv, NEW v \in Values, ArrayFill(v)
    PROVE  RingInv' /\ W!Fill(v)
<1>1. /\ ring \in [data : Seq(Nat), length : Lengths \cup {0}, pos : Nat, cur : Nat]
      /\ inOrder \in BOOLEAN /\ v \in Nat /\ Shows
  <2>1. Values \subseteq Nat
    BY ArraysAssumption
  <2> QED
    BY <2>1, ContentsAre DEF RingInv, RingTyped
<1>2. PICK d : d = [n \in 1 .. size |-> v]
  OBVIOUS
<1>3. d \in Seq(Nat) /\ Len(d) = size
  BY <1>1, <1>2 DEF Shows
<1>4. /\ ring' \in [data : Seq(Nat), length : Lengths \cup {0}, pos : Nat, cur : Nat]
      /\ ring'.data = d /\ ring'.length = ring.length
      /\ ring'.pos = ring.pos /\ ring'.cur = ring.cur /\ inOrder' = inOrder
  BY <1>1, <1>2, <1>3 DEF ArrayFill, Shows
<1>5. size' = size
  BY <1>3, <1>4 DEF size
<1>6. RingTyped' /\ CursorFollows'
  BY <1>1, <1>4, <1>5 DEF RingTyped, RingInv, CursorFollows
<1>7. Shows'
  BY <1>6, ContentsAfter
<1>8. Contents' = [i \in DOMAIN Contents |-> v]
  <2>1. ASSUME NEW i \in 1 .. size PROVE Contents'[i] = v
    <3>1. size \in Nat \ {0} /\ ring.cur \in Nat
      BY <1>1 DEF Shows
    <3>2. Slot(ring.cur, i, size) \in 1 .. size
      BY <3>1, SlotInside
    <3> QED
      BY <1>2, <1>4, <1>5, <1>7, <3>2 DEF Shows
  <2>2. Contents' \in [1 .. size -> Nat]
    BY <1>5, <1>7, LenProperties DEF Shows
  <2> QED
    BY <1>1, <2>1, <2>2 DEF Shows
<1> QED
  BY <1>4, <1>6, <1>8 DEF RingInv, W!Fill

LEMMA ArrayUpdateMoves ==
    ASSUME RingInv, NEW v \in Values, NEW idx \in 0 .. size, ArrayUpdate(idx, v)
    PROVE  RingInv' /\ (W!Add(v) \/ \E i \in DOMAIN Contents : W!Put(i, v))
<1>1. /\ ring \in [data : Seq(Nat), length : Lengths \cup {0}, pos : Nat, cur : Nat]
      /\ inOrder \in BOOLEAN /\ v \in Nat /\ Shows
  <2>1. Values \subseteq Nat
    BY ArraysAssumption
  <2> QED
    BY <2>1, ContentsAre DEF RingInv, RingTyped
<1>2. CASE idx >= size
  BY <1>2, AddMoves DEF ArrayUpdate
<1>3. CASE ~(idx >= size)
  <2>1. /\ size \in Nat \ {0} /\ ring.cur \in Nat /\ idx + 1 \in 1 .. size
        /\ ~(size < idx) /\ (idx + 1) - 1 = idx
    BY <1>1, <1>3 DEF Shows
  <2>2. PICK s : s = Slot(ring.cur, idx + 1, size)
    OBVIOUS
  <2>3. s \in 1 .. size
    BY <2>1, <2>2, SlotInside
  <2>4. At(idx) = s
    BY <2>1, <2>2 DEF At, Slot
  <2>5. PICK d : d = [ring.data EXCEPT ![s] = v]
    OBVIOUS
  <2>6. /\ d \in Seq(Nat) /\ Len(d) = size
        /\ \A j \in 1 .. size : d[j] = IF j = s THEN v ELSE ring.data[j]
    <3>1. ring.data \in Seq(Nat) /\ Len(ring.data) = size
      BY <1>1 DEF size
    <3> QED
      BY <1>1, <2>3, <2>5, <3>1, ExceptSeq
  <2>7. ring' = [ring EXCEPT !.data = d] /\ inOrder' = inOrder
    BY <1>3, <2>4, <2>5 DEF ArrayUpdate
  <2>8. /\ ring' \in [data : Seq(Nat), length : Lengths \cup {0}, pos : Nat, cur : Nat]
        /\ ring'.data = d /\ ring'.length = ring.length
        /\ ring'.pos = ring.pos /\ ring'.cur = ring.cur
    BY <1>1, <2>6, <2>7
  <2>9. size' = size
    BY <2>6, <2>8 DEF size
  <2>10. RingTyped' /\ CursorFollows'
    BY <1>1, <2>7, <2>8, <2>9 DEF RingTyped, RingInv, CursorFollows
  <2>11. Shows'
    BY <2>10, ContentsAfter
  <2>12. Contents' = [Contents EXCEPT ![idx + 1] = v]
    <3>1. ASSUME NEW i \in 1 .. size
          PROVE  Contents'[i] = IF i = idx + 1 THEN v ELSE Contents[i]
      <4>1. Contents'[i] = d[Slot(ring.cur, i, size)]
        BY <2>8, <2>9, <2>11 DEF Shows
      <4>2. Contents[i] = ring.data[Slot(ring.cur, i, size)]
        BY <1>1 DEF Shows
      <4>3. /\ Slot(ring.cur, i, size) \in 1 .. size
            /\ i # idx + 1 => Slot(ring.cur, i, size) # s
        BY <2>1, <2>2, SlotInside, SlotsDiffer
      <4> QED
        BY <2>2, <2>6, <4>1, <4>2, <4>3
    <3>2. Contents' \in [1 .. size -> Nat]
      BY <2>9, <2>11, LenProperties DEF Shows
    <3>3. Contents \in [1 .. size -> Nat]
      BY <1>1, LenProperties DEF Shows
    <3> QED
      BY <3>1, <3>2, <3>3
  <2>13. W!Put(idx + 1, v) /\ idx + 1 \in DOMAIN Contents
    BY <1>1, <2>1, <2>7, <2>8, <2>12 DEF W!Put, Shows
  <2> QED
    BY <2>10, <2>13 DEF RingInv
<1> QED
  BY <1>2, <1>3

LEMMA ArrayFixedMoves ==
    ASSUME RingInv, ArrayFixed PROVE RingInv' /\ W!Pad
<1>1. /\ ring \in [data : Seq(Nat), length : Lengths \cup {0}, pos : Nat, cur : Nat]
      /\ inOrder \in BOOLEAN /\ Shows /\ CursorFollows
  BY ContentsAre DEF RingInv, RingTyped
<1>2. PICK L : L = ring.length
  OBVIOUS
<1>3. L \in Nat /\ L > 0 /\ L \in Nat \ {0}
  <2>1. Lengths \subseteq Nat /\ ring.length \in Lengths \cup {0}
    BY <1>1, ArraysAssumption
  <2>2. L \in Nat /\ L > 0
    BY <1>2, <2>1 DEF ArrayFixed
  <2> QED
    BY <2>2
<1>4. PICK d : d = [n \in 1 .. L |-> IF n <= size THEN ring.data[n] ELSE 0]
  OBVIOUS
<1>5. d \in Seq(Nat) /\ Len(d) = L
  <2>1. ring.data \in Seq(Nat) /\ Len(ring.data) = size /\ size \in Nat
    BY <1>1 DEF Shows, size
  <2>2. \A n \in 1 .. L : d[n] \in Nat
    BY <1>3, <1>4, <2>1
  <2>3. d \in [1 .. L -> Nat]
    BY <1>4, <2>2
  <2> QED
    BY <1>3, <2>3
<1>6. /\ ring' = [ring EXCEPT !.data = d]
      /\ inOrder' = (inOrder /\ size \in {0, L})
  BY <1>2, <1>4 DEF ArrayFixed
<1>7. /\ ring' \in [data : Seq(Nat), length : Lengths \cup {0}, pos : Nat, cur : Nat]
      /\ ring'.data = d /\ ring'.length = ring.length
      /\ ring'.pos = ring.pos /\ ring'.cur = ring.cur
  BY <1>1, <1>5, <1>6
<1>8. size' = L
  BY <1>5, <1>7 DEF size
<1>9. RingTyped'
  BY <1>1, <1>6, <1>7 DEF RingTyped
<1>10. CursorFollows'
  <2>1. ASSUME inOrder, size \in {0, L} PROVE ring.cur = ring.pos % L
    <3>1. CASE size = 0
      <4>1. ring.pos = 0 /\ ring.cur = 0 /\ 0 \in 0 .. L - 1
        BY <1>1, <1>3, <2>1, <3>1 DEF CursorFollows
      <4> QED
        BY <1>3, <4>1, ModSmall
    <3>2. CASE size = L
      BY <1>1, <1>2, <1>3, <2>1, <3>2 DEF CursorFollows
    <3> QED
      BY <2>1, <3>1, <3>2
  <2>2. ASSUME inOrder' PROVE inOrder /\ size \in {0, L}
    BY <1>6, <2>2
  <2>3. L <= L /\ ~(L < L) /\ L # 0
    BY <1>3
  <2> QED
    BY <1>2, <1>7, <1>8, <2>1, <2>2, <2>3 DEF CursorFollows
<1>11. Shows'
  BY <1>9, ContentsAfter
<1>12. ASSUME inOrder, NEW i \in 1 .. L
       PROVE  Contents'[i] = IF i \in DOMAIN Contents THEN Contents[i] ELSE 0
  <2>1. size \in Nat /\ size <= L /\ DOMAIN Contents = 1 .. size
    BY <1>1, <1>2, <1>12 DEF Shows, CursorFollows
  <2>2. Contents'[i] = d[Slot(ring.cur, i, L)]
    BY <1>7, <1>8, <1>11 DEF Shows
  <2>3. CASE size = L
    <3>1. Slot(ring.cur, i, L) \in 1 .. L
      BY <1>1, <1>3, SlotInside
    <3>2. d[Slot(ring.cur, i, L)] = ring.data[Slot(ring.cur, i, L)]
      BY <1>4, <2>3, <3>1
    <3> QED
      BY <1>1, <2>1, <2>2, <2>3, <3>2 DEF Shows
  <2>4. CASE size # L
    <3>1. ring.cur = 0
      <4>1. size < L
        BY <1>3, <2>1, <2>4
      <4> QED
        BY <1>1, <1>2, <1>12, <4>1 DEF CursorFollows
    <3>2. Slot(ring.cur, i, L) = i
      BY <1>3, <3>1, SlotFromFront
    <3>3. Contents'[i] = IF i <= size THEN ring.data[i] ELSE 0
      BY <1>4, <2>2, <3>2
    <3>4. ASSUME i <= size PROVE Contents[i] = ring.data[i]
      <4>1. size \in Nat \ {0} /\ i \in 1 .. size
        BY <2>1, <3>4
      <4>2. Slot(ring.cur, i, size) = i
        BY <3>1, <4>1, SlotFromFront
      <4> QED
        BY <1>1, <4>1, <4>2 DEF Shows
    <3> QED
      BY <2>1, <3>3, <3>4
  <2> QED
    BY <2>3, <2>4
<1>13. W!Pad
  <2>1. Len(Contents') = L /\ DOMAIN Contents' = 1 .. L /\ Len(Contents) = size
    BY <1>1, <1>8, <1>11 DEF Shows
  <2> QED
    BY <1>2, <1>6, <1>7, <1>12, <2>1 DEF W!Pad
<1> QED
  BY <1>9, <1>10, <1>13 DEF RingInv

LEMMA RingInit == ArraysInit => RingInv /\ W!WindowInit
<1> SUFFICES ASSUME ArraysInit PROVE RingInv /\ W!WindowInit
  OBVIOUS
<1>1. ring = [data |-> << >>, length |-> 0, pos |-> 0, cur |-> 0] /\ inOrder = TRUE
  BY DEF ArraysInit
<1>2. << >> \in Seq(Nat) /\ size = 0
  BY <1>1 DEF size
<1>3. RingInv
  BY <1>1, <1>2 DEF RingInv, RingTyped, CursorFollows
<1>4. Contents = << >>
  BY <1>2, <1>3, ContentsAre DEF RingInv, Shows
<1> QED
  BY <1>1, <1>3, <1>4 DEF W!WindowInit

LEMMA RingNext ==
    RingInv /\ [ArraysNext]_arraysVars =>
        RingInv' /\ [W!WindowNext]_<<Contents, ring.length, inOrder>>
<1> SUFFICES ASSUME RingInv, [ArraysNext]_arraysVars
             PROVE  RingInv' /\ [W!WindowNext]_<<Contents, ring.length, inOrder>>
  OBVIOUS
<1>1. ASSUME NEW len \in Lengths, Array(len)
      PROVE  RingInv' /\ [W!WindowNext]_<<Contents, ring.length, inOrder>>
  BY <1>1, ArrayMoves DEF W!WindowNext
<1>2. ASSUME NEW v \in Values, ArrayAdd(v)
      PROVE  RingInv' /\ [W!WindowNext]_<<Contents, ring.length, inOrder>>
  BY <1>2, AddMoves DEF W!WindowNext
<1>3. ASSUME NEW v \in Values, ArrayFill(v)
      PROVE  RingInv' /\ [W!WindowNext]_<<Contents, ring.length, inOrder>>
  BY <1>3, ArrayFillMoves DEF W!WindowNext
<1>4. ASSUME NEW v \in Values, NEW idx \in 0 .. size, ArrayUpdate(idx, v)
      PROVE  RingInv' /\ [W!WindowNext]_<<Contents, ring.length, inOrder>>
  BY <1>4, ArrayUpdateMoves DEF W!WindowNext
<1>5. CASE ArrayFixed
  BY <1>5, ArrayFixedMoves DEF W!WindowNext
<1>6. CASE UNCHANGED arraysVars
  <2>1. ring' = ring /\ inOrder' = inOrder
    BY <1>6 DEF arraysVars
  <2>2. size' = size /\ Contents' = Contents
    BY <2>1, SameContents
  <2> QED
    BY <2>1, <2>2 DEF RingInv, RingTyped, CursorFollows
<1> QED
  BY <1>1, <1>2, <1>3, <1>4, <1>5, <1>6 DEF ArraysNext

\* An array of any length keeps what was added last, the oldest first, through any
\* number of turns of the ring, as long as it has not been padded while partly filled
\* or resized (RingLoop::init, add, update, fixed, get).
THEOREM ArraysKeepTheirWindow == ArraysSpec => ImplementsWindow
<1>1. ArraysInit => W!WindowInit
  BY RingInit
<1>2. ArraysInit => RingInv
  BY RingInit
<1>3. RingInv /\ [ArraysNext]_arraysVars => RingInv'
  BY RingNext
<1>4. RingInv /\ [ArraysNext]_arraysVars =>
          [W!WindowNext]_<<Contents, ring.length, inOrder>>
  BY RingNext
<1> QED
  BY <1>1, <1>2, <1>3, <1>4, PTL DEF ArraysSpec, ImplementsWindow, W!WindowSpec


(* Products of the members of a set. *)

ProductStep(g, s) == IF s = {} THEN 1 ELSE Chosen(s) * g[s \ {Chosen(s)}]

Products(g, S) == g = [s \in SUBSET S |-> ProductStep(g, s)]

LEMMA ProductIs ==
    ASSUME NEW S
    PROVE  ProductSet(S) = (CHOOSE g : Products(g, S))[S]
  BY DEF ProductSet, FoldSet, MapThenFoldSet, Products, ProductStep, Chosen

LEMMA ProductsAt ==
    ASSUME NEW g, NEW S, Products(g, S), NEW s, s \subseteq S
    PROVE  /\ s = {} => g[s] = 1
           /\ s # {} => /\ Chosen(s) \in s /\ s \ {Chosen(s)} \subseteq S
                        /\ g[s] = Chosen(s) * g[s \ {Chosen(s)}]
  <1>1. g[s] = ProductStep(g, s)
    BY DEF Products
  <1>2. QED
    BY <1>1, ChosenIs DEF ProductStep

LEMMA ProductsAgree ==
    ASSUME NEW S, IsFiniteSet(S), NEW T, NEW U, S \subseteq T, S \subseteq U,
           NEW g, Products(g, T), NEW h, Products(h, U)
    PROVE  g[S] = h[S]
  <1> DEFINE F == {s \in SUBSET S : g[s] # h[s]}
  <1>1. ASSUME F # {} PROVE FALSE
    <2>0. F \subseteq SUBSET S
      OBVIOUS
    <2>1. \E s \in F : \A r \in F : r \subseteq s => r = s
      <3> HIDE DEF F
      <3>1. QED
        BY <1>1, <2>0, Smallest
    <2>2. PICK s \in F : \A r \in F : r \subseteq s => r = s
      BY <2>1
    <2>3. s # {} /\ s \subseteq T /\ s \subseteq U
      BY ProductsAt
    <2> DEFINE c == Chosen(s)
               r == s \ {c}
    <2>4. c \in s /\ g[s] = c * g[r] /\ h[s] = c * h[r]
      BY <2>3, ProductsAt
    <2>5. r \notin F
      BY <2>2, <2>4
    <2>6. g[r] = h[r]
      BY <2>5
    <2>7. QED
      BY <2>4, <2>6
  <1>2. QED
    BY <1>1

LEMMA ProductsExist ==
    ASSUME NEW S, IsFiniteSet(S)
    PROVE  \E g : Products(g, S)
  <1> DEFINE F == {s \in SUBSET S : ~ \E g : Products(g, s)}
  <1>1. ASSUME F # {} PROVE FALSE
    <2>0. F \subseteq SUBSET S
      OBVIOUS
    <2>a. \E s \in F : \A r \in F : r \subseteq s => r = s
      <3> HIDE DEF F
      <3>1. QED
        BY <1>1, <2>0, Smallest
    <2>1. PICK T \in F : \A r \in F : r \subseteq T => r = T
      BY <2>a
    <2> DEFINE all(s) == CHOOSE g : Products(g, s)
               val(s) == all(s)[s]
               g == [s \in SUBSET T |->
                        IF s = {} THEN 1 ELSE Chosen(s) * val(s \ {Chosen(s)})]
    <2>2. ASSUME NEW s \in SUBSET T, s # T PROVE Products(all(s), s)
      <3>1. \E h : Products(h, s)
        BY <2>1, <2>2
      <3>2. QED
        BY <3>1
    <2> HIDE DEF all
    <2>3. ASSUME NEW s \in SUBSET T, s # T PROVE g[s] = val(s)
      <3>1. Products(all(s), s)
        BY <2>2, <2>3
      <3>2. CASE s = {}
        BY <3>1, <3>2, ProductsAt
      <3>3. CASE s # {}
        <4> DEFINE c == Chosen(s)
                   r == s \ {c}
        <4>1. c \in s /\ val(s) = c * all(s)[r]
          BY <3>1, <3>3, ProductsAt
        <4>2. r \in SUBSET T /\ r # T /\ r \subseteq s /\ IsFiniteSet(r)
          <5>1. r \in SUBSET T /\ r # T /\ r \subseteq S
            BY <4>1
          <5>2. QED
            BY <5>1, FS_Subset
        <4>3. Products(all(r), r)
          BY <2>2, <4>2
        <4>4. all(s)[r] = val(r)
          BY <3>1, <4>2, <4>3, ProductsAgree
        <4>5. g[s] = c * val(r)
          BY <3>3
        <4>6. QED
          BY <4>1, <4>4, <4>5
      <3>4. QED
        BY <3>2, <3>3
    <2>4. ASSUME NEW s \in SUBSET T PROVE g[s] = ProductStep(g, s)
      <3>1. CASE s = {}
        BY <3>1 DEF ProductStep
      <3>2. CASE s # {}
        <4> DEFINE c == Chosen(s)
                   r == s \ {c}
        <4>1. c \in s /\ r \in SUBSET T /\ r # T
          BY <3>2, ChosenIs
        <4>2. g[r] = val(r)
          BY <2>3, <4>1
        <4>3. g[s] = c * val(r)
          BY <3>2
        <4>4. QED
          BY <3>2, <4>2, <4>3 DEF ProductStep
      <3>3. QED
        BY <3>1, <3>2
    <2>5. g = [s \in SUBSET T |-> ProductStep(g, s)]
      BY <2>4
    <2>6. Products(g, T)
      BY <2>5 DEF Products
    <2>7. QED
      BY <2>1, <2>6
  <1>2. QED
    BY <1>1

LEMMA ProductStepIs ==
    ASSUME NEW S, IsFiniteSet(S)
    PROVE  /\ S = {} => ProductSet(S) = 1
           /\ S # {} => /\ Chosen(S) \in S
                        /\ ProductSet(S) = Chosen(S) * ProductSet(S \ {Chosen(S)})
  <1> DEFINE r == S \ {Chosen(S)}
             g == CHOOSE h : Products(h, S)
             k == CHOOSE h : Products(h, r)
  <1>1. Products(g, S)
    BY ProductsExist
  <1>2. IsFiniteSet(r) /\ r \subseteq S
    BY FS_Subset
  <1>3. Products(k, r)
    BY <1>2, ProductsExist
  <1>4. ProductSet(S) = g[S] /\ ProductSet(r) = k[r]
    BY ProductIs
  <1> HIDE DEF g, k
  <1>5. S = {} => g[S] = 1
    BY <1>1, ProductsAt
  <1>6. S # {} => Chosen(S) \in S /\ g[S] = Chosen(S) * g[r]
    BY <1>1, ProductsAt
  <1>7. g[r] = k[r]
    BY <1>1, <1>2, <1>3, ProductsAgree
  <1>8. QED
    BY <1>4, <1>5, <1>6, <1>7

LEMMA ProductPositive ==
    ASSUME NEW S, IsFiniteSet(S), S \subseteq Nat \ {0}
    PROVE  ProductSet(S) \in Nat \ {0}
  <1> DEFINE F == {s \in SUBSET S : ProductSet(s) \notin Nat \ {0}}
  <1>1. ASSUME F # {} PROVE FALSE
    <2>0. F \subseteq SUBSET S
      OBVIOUS
    <2>1. \E s \in F : \A r \in F : r \subseteq s => r = s
      <3> HIDE DEF F
      <3>1. QED
        BY <1>1, <2>0, Smallest, ZenonT(40)
    <2>2. PICK s \in F : \A r \in F : r \subseteq s => r = s
      BY <2>1
    <2>3. IsFiniteSet(s)
      BY FS_Subset
    <2>4. s # {}
      <3>1. ProductSet(s) # 1
        OBVIOUS
      <3>2. QED
        BY <2>3, <3>1, ProductStepIs
    <2> DEFINE c == Chosen(s)
               r == s \ {c}
    <2>5. c \in s /\ ProductSet(s) = c * ProductSet(r)
      BY <2>3, <2>4, ProductStepIs
    <2>6. r \notin F /\ r \in SUBSET S
      BY <2>2, <2>5
    <2>7. ProductSet(r) \in Nat \ {0} /\ c \in Nat \ {0}
      BY <2>5, <2>6
    <2> HIDE DEF c, r
    <2>8. c * ProductSet(r) \in Nat \ {0}
      BY <2>7
    <2>9. QED
      BY <2>5, <2>8
  <1>2. QED
    BY <1>1

\* A product does not depend on the order in which it is made.
LEMMA ProductTake ==
    ASSUME NEW S, IsFiniteSet(S), S \subseteq Nat \ {0}, NEW x \in S
    PROVE  ProductSet(S) = x * ProductSet(S \ {x})
  <1> DEFINE Bad(s) == \E y \in s : ProductSet(s) # y * ProductSet(s \ {y})
             F == {s \in SUBSET S : Bad(s)}
  <1>1. ASSUME F # {} PROVE FALSE
    <2>0. F \subseteq SUBSET S
      OBVIOUS
    <2>1. \E s \in F : \A r \in F : r \subseteq s => r = s
      <3> HIDE DEF F, Bad
      <3>1. QED
        BY ONLY IsFiniteSet(S), <1>1, <2>0, Smallest
    <2>2. PICK s \in F : \A r \in F : r \subseteq s => r = s
      BY <2>1
    <2>3. PICK y \in s : ProductSet(s) # y * ProductSet(s \ {y})
      BY <2>2
    <2> DEFINE c == Chosen(s)
    <2>4. IsFiniteSet(s) /\ s # {}
      BY <2>3, FS_Subset
    <2>5. c \in s /\ ProductSet(s) = c * ProductSet(s \ {c})
      BY <2>4, ProductStepIs
    <2> HIDE DEF c
    <2>6. c # y
      BY <2>3, <2>5
    <2> DEFINE r == s \ {c}
               q == s \ {y}
               p == s \ {c, y}
    <2>7. r \in SUBSET S /\ q \in SUBSET S /\ p \in SUBSET S
          /\ IsFiniteSet(p)
      BY <2>4, FS_Subset
    <2>8. ~Bad(r) /\ ~Bad(q)
      <3>1. r \notin F /\ q \notin F
        BY <2>2, <2>3, <2>5
      <3>2. QED
        BY <3>1, <2>7
    <2>9. ProductSet(r) = y * ProductSet(p)
      <3>1. y \in r /\ r \ {y} = p
        BY <2>3, <2>6
      <3>2. QED
        BY <2>8, <3>1
    <2>10. ProductSet(q) = c * ProductSet(p)
      <3>1. c \in q /\ q \ {c} = p
        BY <2>5, <2>6
      <3>2. QED
        BY <2>8, <3>1
    <2>11. c \in Nat /\ y \in Nat /\ ProductSet(p) \in Nat
      BY <2>3, <2>5, <2>7, ProductPositive
    <2>12. QED
      BY <2>3, <2>5, <2>9, <2>10, <2>11
  <1>2. S \notin F
    BY <1>1
  <1>3. QED
    BY <1>2

\* Of the numbers up to n any two divide their product.
LEMMA FactorsDivide ==
    ASSUME NEW n \in Nat, NEW i \in 2 .. n
    PROVE  /\ ProductSet(1 .. n) \in Nat \ {0} /\ i * (i - 1) \in Nat \ {0}
           /\ ProductSet(1 .. n) \div (i * (i - 1)) \in Nat
           /\ (i * (i - 1)) * (ProductSet(1 .. n) \div (i * (i - 1))) = ProductSet(1 .. n)
  <1>1. PICK S : S = 1 .. n
    OBVIOUS
  <1>2. /\ IsFiniteSet(S) /\ S \subseteq Nat \ {0}
        /\ i \in S /\ i - 1 \in S \ {i} /\ i \in Int
    BY <1>1, FS_Interval
  <1>3. PICK T, U : T = S \ {i} /\ U = T \ {i - 1}
    OBVIOUS
  <1>4. /\ IsFiniteSet(T) /\ IsFiniteSet(U)
        /\ T \subseteq Nat \ {0} /\ U \subseteq Nat \ {0} /\ i - 1 \in T
    BY <1>2, <1>3, FS_Subset
  <1>5. ProductSet(S) = i * ProductSet(T) /\ ProductSet(T) = (i - 1) * ProductSet(U)
    BY <1>2, <1>3, <1>4, ProductTake
  <1>6. PICK p, u, d : p = ProductSet(S) /\ u = ProductSet(U) /\ d = i * (i - 1)
    OBVIOUS
  <1>7. p \in Nat \ {0} /\ u \in Nat
    BY <1>2, <1>4, <1>6, ProductPositive
  <1>8. d \in Nat \ {0}
    BY <1>2, <1>6
  <1>9. p = d * u
    BY <1>2, <1>5, <1>6, <1>7
  <1>10. p \div d = u
    <2>1. PICK q, r : q = p \div d /\ r = p % d
      OBVIOUS
    <2>2. p = d * q + r /\ q \in Int
      BY <1>7, <1>8, <2>1, DivMod
    <2>3. r = 0
      <3>1. p = d * u + 0 /\ 0 \in 0 .. d - 1 /\ u \in Int
        BY <1>7, <1>8, <1>9
      <3>2. QED
        BY <1>7, <1>8, <2>1, <3>1, ModUnique
    <2>4. d * q = d * u
      BY <1>7, <1>8, <1>9, <2>2, <2>3
    <2>5. q = u
      BY <1>7, <1>8, <2>2, <2>4
    <2>6. QED
      BY <2>1, <2>5
  <1>11. QED
    BY <1>1, <1>6, <1>7, <1>8, <1>9, <1>10

(* What the indicators read. *)

\* One more value: what the squares and the sum of so many make, k times, is what the
\* ones before make and the square of the difference.
LEMMA OneMoreValue ==
    ASSUME NEW k \in Int, NEW a \in Int, NEW s \in Int, NEW q \in Int
    PROVE  k * ((k + 1) * (q + a * a) - (s + a) * (s + a))
             = (k + 1) * (k * q - s * s) + ((k + 1) * a - (s + a)) * ((k + 1) * a - (s + a))
<1>1. ((k + 1) * a - (s + a)) * ((k + 1) * a - (s + a))
        = k * k * (a * a) - 2 * k * (s * a) + s * s
  OBVIOUS
<1>2. (s + a) * (s + a) = s * s + 2 * (s * a) + a * a
  OBVIOUS
<1>3. PICK aa, ss, sa : aa = a * a /\ ss = s * s /\ sa = s * a
  OBVIOUS
<1>4. aa \in Int /\ ss \in Int /\ sa \in Int
  BY <1>3
<1>5. k * ((k + 1) * (q + aa) - (ss + 2 * sa + aa))
        = (k + 1) * (k * q - ss) + (k * k * aa - 2 * k * sa + ss)
  BY <1>4
<1>6. QED
  BY <1>1, <1>2, <1>3, <1>5

LEMMA SumToNext ==
    ASSUME NEW f, NEW m \in Int, NEW j \in Int, m <= j, \A i \in m .. j : f[i] \in Int
    PROVE  /\ SumFunctionOnSet(f, m .. j) = f[j] + SumFunctionOnSet(f, m .. j - 1)
           /\ SumFunctionOnSet(f, m .. j - 1) \in Int
<1>1. PICK S, T : S = m .. j /\ T = m .. j - 1
  OBVIOUS
<1>2. IsFiniteSet(S) /\ IsFiniteSet(T) /\ j \in S /\ S \ {j} = T
  <2>1. IsFiniteSet(m .. j)
    BY FS_Interval
  <2>2. j \in S /\ S \ {j} = T
    BY <1>1
  <2>3. QED
    BY <1>1, <2>1, <2>2, FS_Subset
<1>3. (\A x \in S : f[x] \in Int) /\ (\A x \in T : f[x] \in Int)
  BY <1>1
<1>4. SumFunctionOnSet(f, S) = f[j] + SumFunctionOnSet(f, T)
  BY <1>2, <1>3, SumTake
<1>5. SumFunctionOnSet(f, T) \in Int
  BY <1>2, <1>3, SumInt
<1>6. QED
  BY <1>1, <1>4, <1>5

\* Stdev() in one pass, up to the j-th value.
LEMMA OnePassGoesOn ==
    ASSUME NEW k \in Nat \ {0}, NEW a \in Int, NEW s \in Int, NEW q \in Int, NEW t \in Int,
           NEW w \in Int, NEW u \in Int, (k + 1) * k * w = u,
           k * t = (k * q - s * s) * u,
           NEW d \in Int, d = (k + 1) * a - (s + a)
    PROVE  (k + 1) * (d * d * w + t) = ((k + 1) * (q + a * a) - (s + a) * (s + a)) * u
<1>1. PICK v, z : v = k * q - s * s /\ z = (k + 1) * (q + a * a) - (s + a) * (s + a)
  OBVIOUS
<1>2. PICK e : e = d * d
  OBVIOUS
<1>3. v \in Int /\ z \in Int /\ e \in Int
  BY <1>1, <1>2
<1>4. k * z = (k + 1) * v + e
  BY <1>1, <1>2, OneMoreValue
<1>5. k * ((k + 1) * (e * w + t)) = (k * z) * u
  <2>1. k * ((k + 1) * (e * w + t)) = e * ((k + 1) * k * w) + (k + 1) * (k * t)
    BY <1>3
  <2>2. k * ((k + 1) * (e * w + t)) = e * u + (k + 1) * (v * u)
    BY <1>1, <2>1
  <2>3. ((k + 1) * v + e) * u = e * u + (k + 1) * (v * u)
    BY <1>3
  <2>4. QED
    BY <1>4, <2>2, <2>3
<1>6. PICK x, y : x = (k + 1) * (e * w + t) /\ y = z * u
  OBVIOUS
<1>7. x \in Int /\ y \in Int
  BY <1>3, <1>6
<1>8. k * x = k * y
  <2>1. (k * z) * u = k * y
    BY <1>3, <1>6
  <2>2. QED
    BY <1>5, <1>6, <2>1
<1>9. x = y
  BY <1>7, <1>8
<1>10. QED
  BY <1>1, <1>2, <1>6, <1>9

LEMMA OnePassIsVariance ==
    ASSUME NEW n \in Nat, n > 1, NEW x \in Seq(Int), Len(x) = n
    PROVE  n * (n - 1) * Variance(x).num
             = (n * SumFunction([i \in 1..n |-> x[i] * x[i]])
                  - SumFunction(x) * SumFunction(x)) * Variance(x).den
<1> DEFINE u == ProductSet(1..n)
           Sum1(i) == SumFunctionOnSet(x, 1..i)
           w(i) == u \div (i * (i - 1))
           d(i) == i * x[i] - Sum1(i)
           f == [i \in 2..n |-> d(i) * d(i) * w(i)]
           g == [i \in 1..n |-> x[i] * x[i]]
           Sum2(i) == SumFunctionOnSet(g, 1..i)
           Sum3(i) == SumFunctionOnSet(f, 2..i)
           Good(j) == j * Sum3(j) = (j * Sum2(j) - Sum1(j) * Sum1(j)) * u
<1>1. /\ DOMAIN x = 1..n /\ \A i \in 1..n : x[i] \in Int
      /\ DOMAIN f = 2..n /\ DOMAIN g = 1..n
      /\ \A i \in 1..n : g[i] = x[i] * x[i] /\ g[i] \in Int
      /\ \A i \in 2..n : f[i] = d(i) * d(i) * w(i)
  OBVIOUS
<1>2. Variance(x) = [num |-> Sum3(n), den |-> u * (n - 1)]
  BY <1>1 DEF Variance, SumFunction
<1>3. SumFunction(x) = Sum1(n) /\ SumFunction(g) = Sum2(n)
  BY <1>1 DEF SumFunction
<1>4. u \in Nat \ {0} /\ \A i \in 2..n : w(i) \in Nat /\ (i * (i - 1)) * w(i) = u
  <2>1. 2 \in 2..n
    OBVIOUS
  <2>2. QED
    BY <2>1, FactorsDivide
<1> HIDE DEF u, w, f, g
<1>5. ASSUME NEW j \in 1..n
      PROVE  /\ Sum1(j) = x[j] + Sum1(j - 1) /\ Sum1(j - 1) \in Int
             /\ Sum2(j) = g[j] + Sum2(j - 1) /\ Sum2(j - 1) \in Int
  <2>1. j \in Int /\ 1 <= j /\ \A i \in 1..j : i \in 1..n
    OBVIOUS
  <2>2. (\A i \in 1..j : x[i] \in Int) /\ (\A i \in 1..j : g[i] \in Int) /\ 1 \in Int
    BY <1>1, <2>1
  <2>3. /\ SumFunctionOnSet(x, 1..j) = x[j] + SumFunctionOnSet(x, 1..j - 1)
        /\ SumFunctionOnSet(x, 1..j - 1) \in Int
    BY ONLY <2>1, <2>2, SumToNext
  <2>4. /\ SumFunctionOnSet(g, 1..j) = g[j] + SumFunctionOnSet(g, 1..j - 1)
        /\ SumFunctionOnSet(g, 1..j - 1) \in Int
    BY ONLY <2>1, <2>2, SumToNext
  <2>5. QED
    BY <2>3, <2>4
<1> HIDE DEF Sum1, Sum2
<1>6. ASSUME NEW j \in 1..n PROVE Sum1(j) \in Int /\ Sum2(j) \in Int
  <2>1. x[j] \in Int /\ g[j] \in Int
    BY <1>1
  <2>2. PICK a, b, s, q : /\ a = x[j] /\ b = g[j]
                          /\ s = Sum1(j - 1) /\ q = Sum2(j - 1)
    OBVIOUS
  <2>3. a \in Int /\ b \in Int /\ s \in Int /\ q \in Int /\ Sum1(j) = a + s /\ Sum2(j) = b + q
    BY <1>5, <2>1, <2>2
  <2>4. QED
    BY <2>3
<1>7. ASSUME NEW i \in 2..n PROVE f[i] \in Int /\ d(i) \in Int
  <2>1. i \in 1..n /\ i \in Int
    OBVIOUS
  <2>2. PICK a, s, v : a = x[i] /\ s = Sum1(i) /\ v = w(i)
    OBVIOUS
  <2>3. a \in Int /\ s \in Int /\ v \in Int /\ d(i) = i * a - s
    BY <1>1, <1>4, <1>6, <2>1, <2>2
  <2>4. d(i) \in Int
    BY <2>1, <2>3
  <2>5. PICK e : e = d(i)
    OBVIOUS
  <2>6. f[i] = e * e * v /\ e \in Int
    BY <1>1, <2>2, <2>4, <2>5
  <2>7. QED
    BY <2>3, <2>4, <2>6
<1>8. ASSUME NEW j \in 2..n
      PROVE  Sum3(j) = f[j] + Sum3(j - 1) /\ Sum3(j - 1) \in Int
  <2>1. j \in Int /\ 2 <= j /\ \A i \in 2..j : i \in 2..n
    OBVIOUS
  <2>2. (\A i \in 2..j : f[i] \in Int) /\ 2 \in Int
    BY <1>7, <2>1
  <2>3. QED
    BY ONLY <2>1, <2>2, SumToNext
<1>9. Sum3(1) = 0 /\ Sum1(0) = 0 /\ Sum2(0) = 0
  <2>1. 2..1 = {} /\ 1..0 = {}
    OBVIOUS
  <2>2. QED
    BY <2>1, SumEmpty DEF Sum1, Sum2
<1>10. Good(1)
  <2>1. Sum1(1) = x[1] /\ Sum2(1) = x[1] * x[1] /\ x[1] \in Int
    <3>1. 1 \in 1..n /\ 1 - 1 = 0
      OBVIOUS
    <3>2. Sum1(1) = x[1] + 0 /\ Sum2(1) = g[1] + 0 /\ g[1] = x[1] * x[1] /\ g[1] \in Int
      BY <1>1, <1>5, <1>9, <3>1
    <3>3. QED
      BY <1>1, <3>1, <3>2
  <2>2. PICK y : y = x[1] * x[1]
    OBVIOUS
  <2>3. y \in Int
    BY <2>1, <2>2
  <2>4. QED
    BY <1>4, <1>9, <2>1, <2>2, <2>3
<1> HIDE DEF Sum3, d
<1>11. ASSUME NEW j \in 2..n, Good(j - 1) PROVE Good(j)
  <2>1. PICK k, a, s, q, t : /\ k = j - 1 /\ a = x[j] /\ s = Sum1(j - 1)
                             /\ q = Sum2(j - 1) /\ t = Sum3(j - 1)
    OBVIOUS
  <2>2. PICK e, v : e = d(j) /\ v = w(j)
    OBVIOUS
  <2>3. j \in 1..n /\ k \in Nat \ {0} /\ j = k + 1
    BY <2>1
  <2>4. /\ a \in Int /\ s \in Int /\ q \in Int /\ t \in Int
        /\ Sum1(j) = s + a /\ Sum2(j) = q + a * a
    <3>1. a \in Int /\ s \in Int /\ q \in Int /\ t \in Int
      BY <1>1, <1>5, <1>8, <2>1, <2>3
    <3>2. Sum1(j) = a + s /\ Sum2(j) = g[j] + q /\ g[j] = a * a
      BY <1>1, <1>5, <2>1, <2>3
    <3>3. QED
      BY <3>1, <3>2
  <2>5. e = (k + 1) * a - (s + a) /\ e \in Int
    BY <1>7, <2>1, <2>2, <2>3, <2>4 DEF d
  <2>6. Sum3(j) = e * e * v + t
    BY <1>1, <1>8, <2>1, <2>2
  <2>7. v \in Int /\ u \in Int /\ (k + 1) * k * v = u
    BY <1>4, <2>1, <2>2, <2>3
  <2>8. k * t = (k * q - s * s) * u
    BY <1>11, <2>1
  <2>9. (k + 1) * (e * e * v + t) = ((k + 1) * (q + a * a) - (s + a) * (s + a)) * u
    BY ONLY <2>3, <2>4, <2>5, <2>7, <2>8, OnePassGoesOn
  <2>10. QED
    BY <2>3, <2>4, <2>6, <2>9
<1>12. Good(n)
  <2> DEFINE F == {j \in 1..n : ~Good(j)}
  <2>1. ASSUME F # {} PROVE FALSE
    <3>1. F \subseteq Int /\ IsFiniteSet(F)
      <4>1. IsFiniteSet(1..n) /\ F \subseteq 1..n
        BY FS_Interval
      <4>2. IsFiniteSet(F)
        BY ONLY <4>1, FS_Subset
      <4>3. QED
        BY <4>1, <4>2
    <3>2. \E j \in F : \A i \in F : j <= i
      <4> HIDE DEF F, Good
      <4>1. QED
        BY ONLY <2>1, <3>1, LeastOfIntegers
    <3>3. PICK j \in F : \A i \in F : j <= i
      BY <3>2
    <3>4. j \in 2..n
      BY <1>10, <3>3
    <3>5. j - 1 \in 1..n /\ j - 1 \notin F
      BY <3>3, <3>4
    <3>6. QED
      BY <1>11, <3>3, <3>4, <3>5
  <2>2. n \notin F
    BY <2>1
  <2>3. QED
    BY <2>2
<1>13. PICK s, q, t : s = Sum1(n) /\ q = Sum2(n) /\ t = Sum3(n)
  OBVIOUS
<1>14. s \in Int /\ q \in Int /\ t \in Int
  <2>1. n \in 1..n /\ n \in 2..n
    OBVIOUS
  <2>2. Sum3(n) = f[n] + Sum3(n - 1) /\ Sum3(n - 1) \in Int /\ f[n] \in Int
    BY <1>7, <1>8, <2>1
  <2>3. QED
    BY <1>6, <1>13, <2>1, <2>2
<1>15. n * t = (n * q - s * s) * u
  BY <1>12, <1>13
<1>16. n * (n - 1) * t = (n * q - s * s) * (u * (n - 1))
  <2>1. PICK v : v = n * q - s * s
    OBVIOUS
  <2>2. v \in Int /\ u \in Int /\ n * t = v * u
    BY <1>4, <1>14, <1>15, <2>1
  <2>3. n * (n - 1) * t = (n - 1) * (n * t) /\ v * (u * (n - 1)) = (n - 1) * (v * u)
    BY <1>14, <2>2
  <2>4. QED
    BY <2>1, <2>2, <2>3
<1>17. QED
  BY <1>2, <1>3, <1>13, <1>16 DEF g

LEMMA GreatestOfIntegers ==
    ASSUME NEW S, S \subseteq Int, IsFiniteSet(S), S # {}
    PROVE  \E m \in S : \A s \in S : s <= m
<1> DEFINE F == {{t \in S : t > m} : m \in S}
<1>1. F \subseteq SUBSET S /\ F # {}
  OBVIOUS
<1>2. \E x \in F : \A r \in F : r \subseteq x => r = x
  <2> HIDE DEF F
  <2>1. QED
    BY ONLY IsFiniteSet(S), <1>1, Smallest
<1>3. PICK m \in S : \A r \in F : r \subseteq {t \in S : t > m} => r = {t \in S : t > m}
  BY <1>2
<1>4. ASSUME NEW s \in S, s > m PROVE FALSE
  <2>1. s \in Int /\ m \in Int /\ \A t \in S : t \in Int
    OBVIOUS
  <2>2. \A t \in S : t > s => t > m
    BY <1>4, <2>1
  <2>3. {t \in S : t > s} \in F
    OBVIOUS
  <2>4. {t \in S : t > s} \subseteq {t \in S : t > m}
    BY <2>2
  <2>5. {t \in S : t > s} = {t \in S : t > m}
    BY <1>3, <2>3, <2>4
  <2>6. s \in {t \in S : t > s}
    BY <1>4, <2>5
  <2>7. QED
    BY <2>1, <2>6
<1>5. QED
  BY <1>4

LEMMA BoundsAre ==
    ASSUME NEW x \in Seq(Nat), x # << >>, NEW sign \in {1, -1}
    PROVE  \E v \in ToSet(x) : \A w \in ToSet(x) : sign * w <= sign * v
<1>1. PICK n : n = Len(x)
  OBVIOUS
<1>2. n \in Nat \ {0} /\ DOMAIN x = 1..n /\ (\A i \in 1..n : x[i] \in Nat)
  BY <1>1
<1>3. PICK T : T = ToSet(x)
  OBVIOUS
<1>4. T = {x[i] : i \in 1..n}
  BY <1>2, <1>3 DEF ToSet
<1>5. T \subseteq Int /\ T # {}
  <2>1. 1 \in 1..n
    BY <1>2
  <2>2. QED
    BY <1>2, <1>4, <2>1
<1>6. IsFiniteSet(T)
  <2>1. IsFiniteSet(1..n)
    BY <1>2, FS_Interval
  <2>2. x \in Surjection(1..n, T)
    <3>1. x \in [1..n -> T]
      BY <1>2, <1>4
    <3>2. QED
      BY <1>4, <3>1 DEF Surjection
  <2>3. QED
    BY <2>1, <2>2, FS_Surjection
<1>7. CASE sign = 1
  <2>1. PICK v \in T : \A w \in T : w <= v
    BY <1>5, <1>6, GreatestOfIntegers
  <2>2. \A w \in T : sign * w <= sign * v
    BY <1>5, <1>7, <2>1
  <2>3. QED
    BY <1>3, <2>2
<1>8. CASE sign = -1
  <2>1. PICK v \in T : \A w \in T : v <= w
    BY <1>5, <1>6, LeastOfIntegers
  <2>2. \A w \in T : sign * w <= sign * v
    BY <1>5, <1>8, <2>1
  <2>3. QED
    BY <1>3, <2>2
<1>9. QED
  BY <1>7, <1>8

LEMMA ArraysAreTyped ==
    ASSUME RingInv
    PROVE  ArraysTypeOK
<1>1. /\ ring.data \in Seq(Nat) /\ ring.length \in Lengths \cup {0}
      /\ ring.pos \in Nat /\ ring.cur \in Nat /\ ring.length \in Nat
  <2>1. /\ ring.data \in Seq(Nat) /\ ring.length \in Lengths \cup {0}
        /\ ring.pos \in Nat /\ ring.cur \in Nat
    BY DEF RingInv, RingTyped
  <2>2. Lengths \subseteq Nat
    BY ArraysAssumption
  <2>3. PICK l : l = ring.length
    OBVIOUS
  <2>4. l \in Nat
    <3>1. l \in Lengths \cup {0}
      BY <2>1, <2>3
    <3>2. QED
      BY ONLY <2>2, <3>1
  <2>5. QED
    BY <2>1, <2>3, <2>4
<1>2. size \in Nat
  BY <1>1 DEF size
<1>3. ASSUME inOrder PROVE size <= ring.length /\ (size > 0 => ring.cur < size)
  <2>1. size <= ring.length
    BY <1>3 DEF RingInv, CursorFollows
  <2>2. CASE size < ring.length
    BY <1>3, <2>1, <2>2 DEF RingInv, CursorFollows
  <2>3. CASE size = ring.length /\ size > 0
    <3>1. ring.cur = ring.pos % ring.length
      BY <1>3, <2>3 DEF RingInv, CursorFollows
    <3>2. QED
      <4>1. ring.length \in Nat \ {0}
        BY <1>1, <2>3
      <4>2. ring.pos % ring.length \in 0 .. ring.length - 1
        BY <1>1, <4>1, DivMod
      <4>3. QED
        BY <1>1, <2>1, <2>3, <3>1, <4>2
  <2>4. QED
    BY <1>1, <1>2, <2>1, <2>2, <2>3
<1>4. QED
  BY <1>1, <1>3 DEF ArraysTypeOK

\* The m-th cell from pos on is the m-th value of the window.
LEMMA OldestAreSummed ==
    ASSUME RingInv
    PROVE  SumsTheOldest
<1>1. SUFFICES ASSUME inOrder, size > 0, size = ring.length, NEW p \in 1..size
               PROVE  Sum(p) = SumFunctionOnSet(Contents, 1..p)
  BY DEF SumsTheOldest
<1>2. PICK c, n, a : c = Contents /\ n = size /\ a = ring.pos
  OBVIOUS
<1>3. /\ n \in Nat \ {0} /\ n = ring.length /\ a \in Nat /\ ring.cur = a % n
      /\ \A i \in 1..n : c[i] = ring.data[Slot(ring.cur, i, n)] /\ c[i] \in Int
  <2>1. Shows /\ ring.pos \in Nat
    BY ContentsAre DEF RingInv, RingTyped
  <2>2. ring.cur = ring.pos % ring.length
    BY <1>1 DEF RingInv, CursorFollows
  <2>3. QED
    BY <1>1, <1>2, <2>1, <2>2 DEF Shows
<1>4. ASSUME NEW m \in 0..p - 1
      PROVE  ring.data[((a + m) % n) + 1] = c[m + 1] /\ m + 1 \in 1..n
  <2>1. m \in Nat /\ m + 1 \in 1..n /\ (m + 1) - 1 = m
    <3>1. p \in 1..n
      BY <1>1, <1>2
    <3>2. QED
      BY <1>3, <3>1
  <2>2. ((a % n) + m) % n = (a + m) % n
    <3>1. PICK q, r : q = a \div n /\ r = a % n
      OBVIOUS
    <3>2. q \in Int /\ r \in 0 .. n - 1 /\ a = n * q + r
      BY ONLY <1>3, <3>1, DivMod
    <3>3. r + m \in Nat
      BY <1>3, <2>1, <3>2
    <3>4. PICK s, t : s = (r + m) \div n /\ t = (r + m) % n
      OBVIOUS
    <3>5. s \in Int /\ t \in 0 .. n - 1 /\ r + m = n * s + t
      BY ONLY <1>3, <3>3, <3>4, DivMod
    <3>6. a + m = n * (q + s) + t /\ a + m \in Nat /\ q + s \in Int
      <4>1. n \in Int /\ m \in Nat /\ a \in Nat /\ t \in Int /\ r \in Int
        BY <1>3, <2>1, <3>2, <3>5
      <4>2. n * (q + s) = n * q + n * s /\ n * q \in Int /\ n * s \in Int
        BY <3>2, <3>5, <4>1
      <4>3. a + m = (n * q + r) + m /\ (n * q + r) + m = n * q + (r + m)
        BY <3>2, <4>1, <4>2
      <4>4. QED
        BY <3>2, <3>5, <4>1, <4>2, <4>3
    <3>7. (a + m) % n = t
      <4>1. PICK z, k : z = a + m /\ k = q + s
        OBVIOUS
      <4>2. z = n * k + t /\ z \in Nat /\ k \in Int
        BY ONLY <3>6, <4>1
      <4>3. z % n = t
        BY ONLY <1>3, <3>5, <4>2, ModUnique
      <4>4. QED
        BY <4>1, <4>3
    <3>8. QED
      BY <3>1, <3>4, <3>7
  <2>3. Slot(ring.cur, m + 1, n) = ((a + m) % n) + 1
    BY <1>3, <2>1, <2>2 DEF Slot
  <2>4. QED
    BY <1>3, <2>1, <2>3
<1>5. PICK f : f = [m \in 0..p - 1 |-> ring.data[((ring.pos + m) % ring.length) + 1]]
  OBVIOUS
<1>6. Sum(p) = SumFunctionOnSet(f, 0..p - 1)
  BY <1>5 DEF Sum, SumFunction
<1>7. PICK g : g = [m \in 0..p - 1 |-> m + 1]
  OBVIOUS
<1>8. PICK S, T : S = 0..p - 1 /\ T = 1..p
  OBVIOUS
<1>9. p \in Int /\ p <= n
  BY <1>1, <1>2
<1>10. IsFiniteSet(S) /\ IsFiniteSet(T)
  <2>1. IsFiniteSet(0..p - 1) /\ IsFiniteSet(1..p)
    BY <1>9, FS_Interval
  <2>2. QED
    BY <1>8, <2>1
<1>11. \A m \in S : f[m] \in Int /\ g[m] \in T /\ c[g[m]] = f[m]
  <2>1. SUFFICES ASSUME NEW m \in 0..p - 1
                 PROVE  f[m] \in Int /\ g[m] \in 1..p /\ c[g[m]] = f[m]
    BY <1>8
  <2>2. f[m] = c[m + 1] /\ m + 1 \in 1..n
    BY <1>2, <1>3, <1>4, <1>5
  <2>3. g[m] = m + 1 /\ m + 1 \in 1..p
    BY <1>7, <1>9
  <2>4. QED
    BY <1>3, <2>2, <2>3
<1>12. \A m, k \in S : g[m] = g[k] => m = k
  BY <1>7, <1>8
<1>13. \A t \in T : \E m \in S : t = g[m]
  <2>1. SUFFICES ASSUME NEW t \in 1..p PROVE \E m \in 0..p - 1 : t = g[m]
    BY <1>8
  <2>2. t - 1 \in 0..p - 1 /\ (t - 1) + 1 = t
    BY <1>9
  <2>3. g[t - 1] = t
    BY <1>7, <2>2
  <2>4. QED
    BY <2>2, <2>3
<1>14. SumFunctionOnSet(c, T) = SumFunctionOnSet(f, S)
  BY ONLY <1>10, <1>11, <1>12, <1>13, SumNamed
<1>15. QED
  BY <1>2, <1>6, <1>8, <1>14

\* The bounds of the window are those of its values.
LEMMA BoundsOfWindow ==
    ASSUME RingInv, size > 0, NEW i \in 1..size
    PROVE  ArrayMin <= Contents[i] /\ Contents[i] <= ArrayMax
<1>1. PICK x : x = ring.data
  OBVIOUS
<1>2. x \in Seq(Nat) /\ x # << >> /\ size # 0 /\ size \in Nat
  <2>1. ring.data \in Seq(Nat)
    BY DEF RingInv, RingTyped
  <2>2. QED
    BY <1>1, <2>1 DEF size
<1>3. PICK v : v = Contents[i]
  OBVIOUS
<1>4. v \in ToSet(x) /\ v \in Nat
  <2>1. Shows /\ ring.cur \in Nat
    BY ContentsAre DEF RingInv, RingTyped
  <2>2. size \in Nat \ {0}
    BY <1>2
  <2>3. Slot(ring.cur, i, size) \in 1..size
    BY <2>1, <2>2, SlotInside
  <2>4. v = x[Slot(ring.cur, i, size)] /\ DOMAIN x = 1..size
    BY <1>1, <1>3, <2>1 DEF Shows
  <2>5. QED
    BY <1>2, <2>3, <2>4 DEF ToSet
<1>5. ToSet(x) \subseteq Nat
  BY <1>2 DEF ToSet
<1>6. ASSUME NEW sign \in {1, -1}
      PROVE  Extreme(sign) \in ToSet(x) /\ \A w \in ToSet(x) : sign * w <= sign * Extreme(sign)
  <2>1. \E y \in ToSet(x) : \A w \in ToSet(x) : sign * w <= sign * y
    BY <1>2, BoundsAre
  <2>2. Extreme(sign) = CHOOSE y \in ToSet(x) : \A w \in ToSet(x) : sign * w <= sign * y
    BY <1>1, <1>2 DEF Extreme
  <2>3. QED
    BY <2>1, <2>2
<1>7. v <= ArrayMax
  <2>1. PICK e : e = Extreme(1)
    OBVIOUS
  <2>2. e \in ToSet(x) /\ 1 * v <= 1 * e
    BY <1>4, <1>6, <2>1
  <2>3. QED
    BY <1>4, <1>5, <2>1, <2>2 DEF ArrayMax
<1>8. ArrayMin <= v
  <2>1. PICK e : e = Extreme(-1)
    OBVIOUS
  <2>2. e \in ToSet(x) /\ (-1) * v <= (-1) * e
    BY <1>4, <1>6, <2>1
  <2>3. QED
    BY <1>4, <1>5, <2>1, <2>2 DEF ArrayMin
<1>9. QED
  BY <1>3, <1>7, <1>8

\* What the indicators are filled with is the front of the window.
LEMMA FilledIsTheFront ==
    ASSUME RingInv, NEW len \in 0..size
    PROVE  Filled(len) = SubSeq(Contents, 1, len)
<1>1. Shows /\ ring.cur \in Nat
  BY ContentsAre DEF RingInv, RingTyped
<1>2. PICK c, n : c = Contents /\ n = size
  OBVIOUS
<1>3. /\ n \in Nat /\ c \in Seq(Nat) /\ Len(c) = n /\ len \in 0..n
      /\ \A i \in 1..n : c[i] = ring.data[Slot(ring.cur, i, n)]
  BY <1>1, <1>2 DEF Shows
<1>4. (IF len < n THEN len ELSE n) = len
  BY <1>3
<1>5. \A l \in 1..len : (ring.cur + l) - 1 = ring.cur + (l - 1) /\ l \in 1..n
  BY <1>1, <1>3
<1>6. Filled(len) = [l \in 1..len |-> ring.data[((ring.cur + l - 1) % n) + 1]]
  BY <1>2, <1>4 DEF Filled
<1>7. \A l \in 1..len : ring.data[((ring.cur + l - 1) % n) + 1] = c[l]
  BY <1>3, <1>5 DEF Slot
<1>8. Filled(len) = [l \in 1..len |-> c[l]]
  BY <1>6, <1>7
<1>9. SubSeq(c, 1, len) = [l \in 1..len |-> c[l]]
  BY <1>3
<1>10. QED
  BY <1>2, <1>8, <1>9

LEMMA WindowIsRead ==
    ASSUME RingInv
    PROVE  ReadsWindow
<1>1. SUFFICES ASSUME size > 0
      PROVE  LET n == size
                 all == SumFunction(Contents)
                 squares == SumFunction([i \in 1..n |-> Contents[i] * Contents[i]])
             IN  /\ \A len \in 0..n : Filled(len) = SubSeq(Contents, 1, len)
                 /\ \A i \in 1..n : ArrayMin <= Contents[i] /\ Contents[i] <= ArrayMax
                 /\ n > 1 => n * (n - 1) * Stdev.num = (n * squares - all * all) * Stdev.den
  BY DEF ReadsWindow
<1>2. \A len \in 0..size : Filled(len) = SubSeq(Contents, 1, len)
  BY FilledIsTheFront
<1>3. \A i \in 1..size : ArrayMin <= Contents[i] /\ Contents[i] <= ArrayMax
  BY <1>1, BoundsOfWindow
<1>4. Shows
  BY ContentsAre DEF RingInv
<1>5. PICK x : x = Contents
  OBVIOUS
<1>6. x \in Seq(Nat) /\ x \in Seq(Int) /\ Len(x) = size
  BY <1>4, <1>5 DEF Shows
<1>7. Stdev = Variance(x)
  <2>1. size \in 0..size
    BY <1>4 DEF Shows
  <2>2. Filled(size) = SubSeq(x, 1, Len(x))
    BY <1>2, <1>5, <1>6, <2>1
  <2>3. SubSeq(x, 1, Len(x)) = x
    BY <1>6
  <2>4. QED
    BY <2>2, <2>3 DEF Stdev
<1>8. ASSUME size > 1
      PROVE  size * (size - 1) * Stdev.num
               = (size * SumFunction([i \in 1..size |-> Contents[i] * Contents[i]])
                    - SumFunction(Contents) * SumFunction(Contents)) * Stdev.den
  <2>1. PICK n : n = size
    OBVIOUS
  <2>2. n \in Nat /\ n > 1 /\ Len(x) = n
    BY <1>4, <1>6, <1>8, <2>1 DEF Shows
  <2>3. n * (n - 1) * Variance(x).num
             = (n * SumFunction([i \in 1..n |-> x[i] * x[i]])
                  - SumFunction(x) * SumFunction(x)) * Variance(x).den
    BY <1>6, <2>2, OnePassIsVariance
  <2>4. QED
    BY <1>5, <1>7, <2>1, <2>3, Zenon
<1>9. QED
  BY <1>2, <1>3, <1>8, Zenon

LEMMA RingIsRead == RingInv => ArraysInv
BY ArraysAreTyped, OldestAreSummed, WindowIsRead DEF ArraysInv

\* Whatever a script adds to an array, updates, fills or resizes, the cursor stays
\* inside the ring and what is read is what the window holds: the sums of its oldest
\* values, its bounds, its front, and the variance that is gathered in one pass
\* (RingLoop.cpp and math.cpp).
THEOREM ArraysAreRead == ArraysSpec => []ArraysInv
<1>1. ArraysInit => RingInv
  BY RingInit
<1>2. RingInv /\ [ArraysNext]_arraysVars => RingInv'
  BY RingNext
<1>3. QED
  BY <1>1, <1>2, RingIsRead, PTL DEF ArraysSpec

(****************************************************************************)
(* The strategies of a launch have identifiers of their own, its nodes start *)
(* behind the gate with sessions of their own, a session has one account     *)
(* whatever the launches before did, and nobody is turned away who came in   *)
(* time: for any number of nodes, processors, versions and launches.         *)
(****************************************************************************)

Pcs == {"idle", "fork", "setting", "start", "gate", "serve", "wait"}

\* Node n has been forked when n times the processors had been counted.
NumberInv ==
    /\ parent \in [pc : Pcs, m : 0..MaxNodes, now : Nat]
    /\ config.nodes \in 0..MaxNodes
    /\ DOMAIN quant = Numbers
    /\ parent.now = Processors * parent.m
    /\ \A n \in 0..parent.m - 1 : quant[n] = Processors * n + n

\* What a record of the table holds does not matter.
AccountInv ==
    /\ \E T : account \in Seq(T)
    /\ OneAccountEach

-----------------------------------------------------------------------------

LEMMA Constants ==
    /\ MaxNodes \in Nat /\ MaxNodes >= 1
    /\ Processors \in Nat /\ Processors >= 1 /\ Processors * 0 = 0
  BY LaunchAssumption

LEMMA NumberInit == LaunchInit => NumberInv
<1> SUFFICES ASSUME LaunchInit PROVE NumberInv
  OBVIOUS
<1>1. parent = [pc |-> "idle", m |-> 0, now |-> 0] /\ config.nodes = 1
  BY DEF LaunchInit
<1>2. DOMAIN quant = Numbers
  BY DEF LaunchInit
<1>3. parent \in [pc : Pcs, m : 0..MaxNodes, now : Nat]
  BY <1>1, Constants DEF Pcs
<1>4. config.nodes \in 0..MaxNodes
  BY <1>1, Constants
<1>5. parent.now = Processors * parent.m
  BY <1>1, Constants
<1>6. \A n \in 0..parent.m - 1 : quant[n] = Processors * n + n
  BY <1>1
<1> QED
  BY <1>2, <1>3, <1>4, <1>5, <1>6 DEF NumberInv

LEMMA NumberLaunch == NumberInv /\ Launch => NumberInv'
<1> SUFFICES ASSUME NumberInv, Launch PROVE NumberInv'
  OBVIOUS
<1>1. PICK k \in 1..MaxNodes, v \in Versions \cup {0} :
        \E p \in {k, MaxNodes} : config' = [nodes |-> k, process |-> p, version |-> v]
  BY DEF Launch
<1>2. parent' = [pc |-> "fork", m |-> 0, now |-> 0] /\ quant' = quant
  BY DEF Launch
<1>3. config'.nodes \in 0..MaxNodes
  BY <1>1, Constants
<1>4. parent' \in [pc : Pcs, m : 0..MaxNodes, now : Nat]
  BY <1>2, Constants DEF Pcs
<1>5. parent'.now = Processors * parent'.m
  BY <1>2, Constants
<1>6. \A n \in 0..parent'.m - 1 : quant'[n] = Processors * n + n
  BY <1>2
<1>7. DOMAIN quant' = Numbers
  BY <1>2 DEF NumberInv
<1> QED
  BY <1>3, <1>4, <1>5, <1>6, <1>7 DEF NumberInv

\* A step of the parent to another place, and every step of a child.
Stays ==
    /\ quant' = quant /\ config' = config
    /\ parent' = parent \/ \E x \in Pcs : parent' = [parent EXCEPT !.pc = x]

LEMMA NumberStays == NumberInv /\ Stays => NumberInv'
<1> SUFFICES ASSUME NumberInv, Stays PROVE NumberInv'
  OBVIOUS
<1>1. parent \in [pc : Pcs, m : 0..MaxNodes, now : Nat]
  BY DEF NumberInv
<1>2. CASE parent' = parent
  BY <1>2 DEF NumberInv, Stays, Pcs
<1>3. CASE \E x \in Pcs : parent' = [parent EXCEPT !.pc = x]
  <2>1. /\ parent' \in [pc : Pcs, m : 0..MaxNodes, now : Nat]
        /\ parent'.m = parent.m /\ parent'.now = parent.now
    BY <1>1, <1>3
  <2> QED
    BY <2>1 DEF NumberInv, Stays
<1> QED
  BY <1>2, <1>3 DEF Stays

\* The identifiers go on from where the last fork left them.
LEMMA NumberFork == NumberInv /\ Fork => NumberInv'
<1> SUFFICES ASSUME NumberInv, Fork PROVE NumberInv'
  OBVIOUS
<1> DEFINE m == parent.m
<1>1. m \in Nat /\ m < MaxNodes /\ parent.now \in Nat
  BY Constants DEF NumberInv, Fork
<1>2. /\ parent' \in [pc : Pcs, m : 0..MaxNodes, now : Nat]
      /\ parent'.m = m + 1 /\ parent'.now = parent.now + Processors
  <2>1. parent \in [pc : Pcs, m : 0..MaxNodes, now : Nat]
    BY DEF NumberInv
  <2>2. parent.m + 1 \in 0..MaxNodes /\ parent.now + Processors \in Nat
    BY <1>1, Constants
  <2>3. parent' = [parent EXCEPT !.m = parent.m + 1, !.now = parent.now + Processors]
    BY DEF Fork
  <2> QED
    BY <2>1, <2>2, <2>3
<1>3. quant' = [quant EXCEPT ![m] = parent.now + m] /\ config' = config
  BY DEF Fork
<1>4. DOMAIN quant = Numbers /\ m \in Numbers
  BY <1>1, Constants DEF NumberInv, Numbers
<1>5. DOMAIN quant' = Numbers /\ quant'[m] = parent.now + m
  BY <1>3, <1>4
<1>6. \A n \in 0..m - 1 : quant'[n] = quant[n]
  BY <1>1, <1>3, <1>4 DEF Numbers
<1>7. Processors * (m + 1) = Processors * m + Processors
  BY <1>1, Constants
<1>8. parent.now = Processors * m /\ \A n \in 0..m - 1 : quant[n] = Processors * n + n
  BY DEF NumberInv
<1> HIDE DEF m
<1>9. ASSUME NEW n \in 0..(m + 1) - 1
      PROVE  quant'[n] = Processors * n + n
  <2>1. n = m \/ n \in 0..m - 1
    BY <1>1
  <2>2. CASE n = m
    BY <1>5, <1>8, <2>2
  <2>3. CASE n \in 0..m - 1
    BY <1>6, <1>8, <2>3
  <2> QED
    BY <2>1, <2>2, <2>3
<1>10. config'.nodes \in 0..MaxNodes
  BY <1>3 DEF NumberInv
<1> QED
  BY <1>2, <1>5, <1>7, <1>8, <1>9, <1>10 DEF NumberInv

LEMMA NumberNext == NumberInv /\ [LaunchNext]_launchVars => NumberInv'
<1> SUFFICES ASSUME NumberInv, [LaunchNext]_launchVars PROVE NumberInv'
  OBVIOUS
<1>1. CASE Launch
  BY <1>1, NumberLaunch
<1>2. CASE Fork
  BY <1>2, NumberFork
<1>3. CASE ForkFails
  <2>1. Stays
    BY <1>3 DEF ForkFails, Stays, Pcs
  <2> QED
    BY <2>1, NumberStays
<1>4. CASE Kill
  <2>1. Stays
    BY <1>4 DEF Kill, Stays, Pcs
  <2> QED
    BY <2>1, NumberStays
<1>5. CASE Exchange
  <2>1. Stays
    BY <1>5 DEF Exchange, Stays, Pcs
  <2> QED
    BY <2>1, NumberStays
<1>6. CASE ExSetting
  <2>1. Stays
    BY <1>6 DEF ExSetting, Stays, Pcs
  <2> QED
    BY <2>1, NumberStays
<1>7. CASE AcceptorStart
  <2>1. Stays
    BY <1>7 DEF AcceptorStart, Stays, Pcs
  <2> QED
    BY <2>1, NumberStays
<1>8. CASE RiskFixFails
  <2>1. Stays
    BY <1>8 DEF RiskFixFails, Stays, Pcs
  <2> QED
    BY <2>1, NumberStays
<1>9. CASE Gate
  <2>1. Stays
    BY <1>9 DEF Gate, Stays, Pcs
  <2> QED
    BY <2>1, NumberStays
<1>10. CASE StreamEnds
  <2>1. Stays
    BY <1>10 DEF StreamEnds, Stays, Pcs
  <2> QED
    BY <2>1, NumberStays
<1>11. CASE AcceptorStop
  <2>1. Stays
    BY <1>11 DEF AcceptorStop, Stays, Pcs
  <2> QED
    BY <2>1, NumberStays
<1>12. CASE Wait
  <2>1. Stays
    BY <1>12 DEF Wait, Stays, Pcs
  <2> QED
    BY <2>1, NumberStays
<1>13. ASSUME NEW n \in Numbers, ChildSteps(n) PROVE NumberInv'
  <2>1. Stays
    BY <1>13 DEF ChildSteps, CloseWriter, Read, Pick, Logon, Traders, Leave, Stays
  <2> QED
    BY <2>1, NumberStays
<1>14. CASE UNCHANGED launchVars
  <2>1. Stays
    BY <1>14 DEF launchVars, Stays, Pcs
  <2> QED
    BY <2>1, NumberStays
<1> QED
  BY <1>1, <1>2, <1>3, <1>4, <1>5, <1>6, <1>7, <1>8, <1>9, <1>10, <1>11, <1>12,
     <1>13, <1>14 DEF LaunchNext, ParentSteps

\* A block of identifiers ends before the next begins.
LEMMA Blocks ==
    ASSUME NEW P \in Nat, P >= 1, NEW n \in Nat, NEW k \in Nat, n < k
    PROVE  P * n + n + P - 1 < P * k + k
<1>1. P * n + P <= P * k
  OBVIOUS
<1> QED
  BY <1>1

LEMMA NumbersApart == NumberInv => QuantIdsDistinct
<1> SUFFICES ASSUME NumberInv,
                    NEW n \in 0..parent.m - 1, NEW k \in 0..parent.m - 1, n < k
             PROVE  QuantIds(n) \cap QuantIds(k) = {} /\ QuantIds(k) \cap QuantIds(n) = {}
  BY DEF QuantIdsDistinct, NumberInv
<1>1. n \in Nat /\ k \in Nat
  BY DEF NumberInv
<1>2. quant[n] = Processors * n + n /\ quant[k] = Processors * k + k
  BY DEF NumberInv
<1>3. quant[n] + Processors - 1 < quant[k]
  BY <1>1, <1>2, Constants, Blocks
<1>4. quant[n] \in Int /\ quant[k] \in Int
  BY <1>1, <1>2, Constants
<1> QED
  BY <1>3, <1>4, Constants DEF QuantIds

\* The strategies of a launch never share an identifier (main(), runScript()), for
\* any number of nodes and processors.
THEOREM LaunchQuantIdsDistinct == LaunchSpec => []QuantIdsDistinct
  BY NumberInit, NumberNext, NumbersApart, PTL DEF LaunchSpec

-----------------------------------------------------------------------------

LEMMA AccountInit == LaunchInit => AccountInv
<1> SUFFICES ASSUME LaunchInit PROVE AccountInv
  OBVIOUS
<1>1. account = << >>
  BY DEF LaunchInit
<1>2. account \in Seq({})
  BY <1>1
<1>3. OneAccountEach
  BY <1>1 DEF OneAccountEach
<1> QED
  BY <1>2, <1>3 DEF AccountInv

\* traders() inserts an account only if there is none of the session.
LEMMA AccountTraders ==
    ASSUME AccountInv, NEW n \in Numbers, Traders(n)
    PROVE  AccountInv'
<1> DEFINE s == child[n].sid
<1> DEFINE a == [sid |-> s, verid |-> db.active]
<1>1. CASE account' = account
  BY <1>1 DEF AccountInv, OneAccountEach
<1>2. CASE s \notin Sessions(account, DOMAIN account) /\ account' = Append(account, a)
  <2>1. PICK T : account \in Seq(T)
    BY DEF AccountInv
  <2>2. account \in Seq(T \cup {a}) /\ Len(account) \in Nat
    BY <2>1
  <2>3. /\ account' \in Seq(T \cup {a})
        /\ Len(account') = Len(account) + 1
        /\ \A i \in 1..Len(account) : account'[i] = account[i]
        /\ account'[Len(account) + 1] = a
    BY <1>2, <2>2, AppendProperties
  <2>4. \A i \in 1..Len(account) : account[i].sid # s
    BY <1>2, <2>1 DEF Sessions
  <2>5. a.sid = s
    OBVIOUS
  <2> HIDE DEF a, s
  <2>6. ASSUME NEW i \in 1..Len(account'), NEW j \in 1..Len(account'), i # j
        PROVE  account'[i].sid # account'[j].sid
    <3>1. CASE i \in 1..Len(account) /\ j \in 1..Len(account)
      BY <2>1, <2>3, <2>6, <3>1 DEF AccountInv, OneAccountEach
    <3>2. CASE i = Len(account) + 1
      <4>1. j \in 1..Len(account)
        BY <2>2, <2>3, <2>6, <3>2
      <4> QED
        BY <2>3, <2>4, <2>5, <3>2, <4>1
    <3>3. CASE j = Len(account) + 1
      <4>1. i \in 1..Len(account)
        BY <2>2, <2>3, <2>6, <3>3
      <4> QED
        BY <2>3, <2>4, <2>5, <3>3, <4>1
    <3> QED
      BY <2>2, <2>3, <3>1, <3>2, <3>3
  <2>7. DOMAIN account' = 1..Len(account')
    BY <2>3
  <2> QED
    BY <2>3, <2>6, <2>7 DEF AccountInv, OneAccountEach
<1> QED
  BY <1>1, <1>2 DEF Traders

LEMMA AccountNext == AccountInv /\ [LaunchNext]_launchVars => AccountInv'
<1> SUFFICES ASSUME AccountInv, [LaunchNext]_launchVars PROVE AccountInv'
  OBVIOUS
<1>1. CASE account' = account
  BY <1>1 DEF AccountInv, OneAccountEach
<1>2. ASSUME NEW n \in Numbers, Traders(n) PROVE AccountInv'
  BY <1>2, AccountTraders
<1>3. ASSUME NEW n \in Numbers, ChildSteps(n) PROVE AccountInv'
  <2>1. CASE Traders(n)
    BY <1>2, <2>1
  <2>2. CASE CloseWriter(n) \/ Read(n) \/ Pick(n) \/ Logon(n) \/ Leave(n)
    BY <1>1, <2>2 DEF CloseWriter, Read, Pick, Logon, Leave
  <2> QED
    BY <1>3, <2>1, <2>2 DEF ChildSteps
<1>4. CASE Launch \/ ForkFails \/ Kill
  BY <1>1, <1>4 DEF Launch, ForkFails, Kill
<1>5. CASE ParentSteps
  BY <1>1, <1>5 DEF ParentSteps, Fork, Exchange, ExSetting, AcceptorStart, RiskFixFails,
                    Gate, StreamEnds, AcceptorStop, Wait
<1>6. CASE UNCHANGED launchVars
  BY <1>1, <1>6 DEF launchVars
<1> QED
  BY <1>3, <1>4, <1>5, <1>6 DEF LaunchNext

\* A session has one account (BrokerBase::traders()), whatever versions and
\* launches there were.
THEOREM LaunchOneAccountEach == LaunchSpec => []OneAccountEach
<1>1. AccountInv => OneAccountEach
  BY DEF AccountInv
<1> QED
  BY AccountInit, AccountNext, <1>1, PTL DEF LaunchSpec

-----------------------------------------------------------------------------
(* The sessions of the nodes. *)

\* What EaSetting() finds, with everything it depends on.
MyRow(table, active) == {i \in DOMAIN table : table[i].verid = active}
Not(seen, active) == {i \in MyRow(seen[2], active) : seen[2][i].sid \notin seen[1]}
Rest(seen, rows, active) ==
    {s \in 2..rows : s \notin Sessions(seen[2], MyRow(seen[2], active)) \cup seen[1]}
Choice(n, again, seen, rows, active) ==
    IF n < Cardinality(Not(seen, active)) THEN seen[2][Nth(Not(seen, active), n)].sid
    ELSE Nth(Rest(seen, rows, active), IF again THEN 0 ELSE n)

TableRows == [sid : Nat, verid : Nat]
Saws == {<< >>} \cup ((SUBSET Nat) \X Seq(TableRows))
OneEach(table) == \A i, j \in DOMAIN table : i # j => table[i].sid # table[j].sid

LEMMA ChoiceIs ==
    \A n, again, seen : EaSetting(n, again, seen) = Choice(n, again, seen, db.rows, db.active)
  BY DEF EaSetting, Choice, Unused, Free, Accounts, Not, Rest, MyRow

LEMMA NthIs ==
    ASSUME NEW S, S \subseteq Int, IsFiniteSet(S), NEW k \in Nat
    PROVE  /\ k >= Cardinality(S) => Nth(S, k) = 0
           /\ k < Cardinality(S) =>
                 Nth(S, k) \in S /\ Cardinality(Newer(S, Nth(S, k))) = k
<1>1. Cardinality(S) \in Nat
  BY FS_CardinalityType
<1>2. CASE k >= Cardinality(S)
  BY <1>1, <1>2 DEF Nth
<1>3. CASE k < Cardinality(S)
  <2>1. \E s \in S : Cardinality(Newer(S, s)) = k
    BY <1>3, WithAbove DEF Newer
  <2>2. ~(k >= Cardinality(S))
    BY <1>1, <1>3
  <2>3. Nth(S, k) = CHOOSE s \in S : Cardinality(Newer(S, s)) = k
    BY <2>2 DEF Nth
  <2>4. Nth(S, k) \in S /\ Cardinality(Newer(S, Nth(S, k))) = k
    BY <2>1, <2>3
  <2> QED
    BY <2>2, <2>4
<1> QED
  BY <1>1, <1>2, <1>3

LEMMA Finite ==
    ASSUME NEW L, NEW T \in Seq(TableRows), NEW rows \in Nat, NEW active
    PROVE  /\ MyRow(T, active) \subseteq Int /\ IsFiniteSet(MyRow(T, active))
           /\ Not(<<L, T>>, active) \subseteq Int /\ IsFiniteSet(Not(<<L, T>>, active))
           /\ Cardinality(Not(<<L, T>>, active)) \in Nat
           /\ Rest(<<L, T>>, rows, active) \subseteq Int
           /\ IsFiniteSet(Rest(<<L, T>>, rows, active))
<1>1. IsFiniteSet(1..Len(T)) /\ IsFiniteSet(2..rows)
  BY FS_Interval
<1>2. MyRow(T, active) \in SUBSET (1..Len(T)) /\ Not(<<L, T>>, active) \in SUBSET (1..Len(T))
  BY DEF MyRow, Not
<1>3. Rest(<<L, T>>, rows, active) \in SUBSET (2..rows)
  BY DEF Rest
<1>4. /\ IsFiniteSet(MyRow(T, active)) /\ IsFiniteSet(Not(<<L, T>>, active))
      /\ IsFiniteSet(Rest(<<L, T>>, rows, active))
  BY <1>1, <1>2, <1>3, FS_Subset
<1>5. Cardinality(Not(<<L, T>>, active)) \in Nat
  BY <1>4, FS_CardinalityType
<1>6. 1..Len(T) \subseteq Int /\ 2..rows \subseteq Int
  OBVIOUS
<1> QED
  BY <1>2, <1>3, <1>4, <1>5, <1>6

\* It is the session of an account that is not in use, or one without account.
Picked(c, n, k, own, free, T) ==
    \/ /\ n < Cardinality(own)
       /\ \E i \in own : c = T[i].sid /\ Cardinality(Newer(own, i)) = n
    \/ /\ n >= Cardinality(own) /\ k < Cardinality(free)
       /\ c \in free /\ Cardinality(Newer(free, c)) = k
    \/ n >= Cardinality(own) /\ k >= Cardinality(free) /\ c = 0

LEMMA ChoiceCases ==
    ASSUME NEW L, NEW T \in Seq(TableRows), NEW rows \in Nat, NEW active, NEW n \in Nat,
           NEW again \in BOOLEAN
    PROVE  Picked(Choice(n, again, <<L, T>>, rows, active), n, IF again THEN 0 ELSE n,
                  Not(<<L, T>>, active), Rest(<<L, T>>, rows, active), T)
<1>1. PICK own : own = Not(<<L, T>>, active)
  OBVIOUS
<1>2. PICK free : free = Rest(<<L, T>>, rows, active)
  OBVIOUS
<1>3. PICK k \in Nat : k = IF again THEN 0 ELSE n
  OBVIOUS
<1>4. /\ own \subseteq Int /\ IsFiniteSet(own) /\ Cardinality(own) \in Nat
      /\ free \subseteq Int /\ IsFiniteSet(free)
  BY <1>1, <1>2, Finite
<1>5. Cardinality(free) \in Nat
  BY <1>4, FS_CardinalityType
<1>6. PICK c : c = Choice(n, again, <<L, T>>, rows, active)
  OBVIOUS
<1>7. c = IF n < Cardinality(own) THEN T[Nth(own, n)].sid ELSE Nth(free, k)
  BY <1>1, <1>2, <1>3, <1>6 DEF Choice
<1>8. n < Cardinality(own) =>
         Nth(own, n) \in own /\ Cardinality(Newer(own, Nth(own, n))) = n
  BY <1>4, NthIs
<1>9. /\ k >= Cardinality(free) => Nth(free, k) = 0
      /\ k < Cardinality(free) =>
            Nth(free, k) \in free /\ Cardinality(Newer(free, Nth(free, k))) = k
  BY <1>4, NthIs
<1>10. Picked(c, n, k, own, free, T)
  <2>1. CASE n < Cardinality(own)
    <3>1. c = T[Nth(own, n)].sid
      BY <1>7, <2>1
    <3> QED
      BY <1>8, <2>1, <3>1 DEF Picked
  <2>2. CASE n >= Cardinality(own)
    <3>1. c = Nth(free, k)
      BY <1>4, <1>7, <2>2
    <3>2. k < Cardinality(free) \/ k >= Cardinality(free)
      BY <1>5
    <3> QED
      BY <1>9, <2>2, <3>1, <3>2 DEF Picked
  <2> QED
    BY <1>4, <2>1, <2>2
<1> QED
  BY <1>1, <1>2, <1>3, <1>6, <1>10

LEMMA ChoiceType ==
    ASSUME NEW L, NEW T \in Seq(TableRows), NEW rows \in Nat, NEW active, NEW n \in Nat,
           NEW again \in BOOLEAN, \A i \in DOMAIN T : T[i].sid \in 2..rows
    PROVE  Choice(n, again, <<L, T>>, rows, active) \in {0} \cup 2..rows
<1>1. \A i \in Not(<<L, T>>, active) : T[i].sid \in 2..rows
  BY DEF Not, MyRow
<1>2. Rest(<<L, T>>, rows, active) \subseteq 2..rows
  BY DEF Rest
<1>3. Picked(Choice(n, again, <<L, T>>, rows, active), n, IF again THEN 0 ELSE n,
             Not(<<L, T>>, active), Rest(<<L, T>>, rows, active), T)
  BY ChoiceCases
<1> QED
  BY <1>1, <1>2, <1>3 DEF Picked

\* Two nodes that see the same find different sessions at their first attempt.
LEMMA ChoicesDiffer ==
    ASSUME NEW seen \in (SUBSET Nat) \X Seq(TableRows), NEW rows \in Nat, NEW active,
           NEW n \in Nat, NEW k \in Nat, n # k, OneEach(seen[2]),
           Choice(n, FALSE, seen, rows, active) # 0
    PROVE  Choice(n, FALSE, seen, rows, active) # Choice(k, FALSE, seen, rows, active)
<1>1. PICK L \in SUBSET Nat : \E T \in Seq(TableRows) : seen = <<L, T>>
  OBVIOUS
<1>2. PICK T \in Seq(TableRows) : seen = <<L, T>> /\ seen[2] = T
  BY <1>1
<1>3. PICK own : own = Not(seen, active)
  OBVIOUS
<1>4. PICK free : free = Rest(seen, rows, active)
  OBVIOUS
<1>5. PICK x : x = Choice(n, FALSE, seen, rows, active)
  OBVIOUS
<1>6. PICK y : y = Choice(k, FALSE, seen, rows, active)
  OBVIOUS
<1>7. Picked(x, n, n, own, free, T) /\ Picked(y, k, k, own, free, T)
  BY <1>2, <1>3, <1>4, <1>5, <1>6, ChoiceCases
<1>8. own \subseteq DOMAIN T /\ \A i \in own : T[i].sid \notin free
  BY <1>2, <1>3, <1>4 DEF Not, MyRow, Rest, Sessions
<1>9. \A i, j \in own : i # j => T[i].sid # T[j].sid
  BY <1>2, <1>8 DEF OneEach
<1>10. x # 0
  BY <1>5
<1>11. x # y
  BY <1>7, <1>8, <1>9, <1>10 DEF Picked
<1> QED
  BY <1>5, <1>6, <1>11

\* Whoever finds as many free accounts as there are nodes has one of them.
LEMMA OwnChoice ==
    ASSUME NEW L \in SUBSET Nat, NEW T \in Seq(TableRows), NEW rows \in Nat, NEW active, NEW n \in Nat,
           \A i \in DOMAIN T : T[i].sid \in 2..rows,
           n < Cardinality(MyRow(T, active)), Sessions(T, MyRow(T, active)) \cap L = {}
    PROVE  Choice(n, FALSE, <<L, T>>, rows, active) \in Sessions(T, MyRow(T, active)) \ {0}
<1>1. PICK own : own = Not(<<L, T>>, active)
  OBVIOUS
<1>2. PICK free : free = Rest(<<L, T>>, rows, active)
  OBVIOUS
<1>3. PICK c : c = Choice(n, FALSE, <<L, T>>, rows, active)
  OBVIOUS
<1>4. own = MyRow(T, active)
  BY <1>1 DEF Not, MyRow, Sessions
<1>5. Picked(c, n, n, own, free, T)
  BY <1>1, <1>2, <1>3, ChoiceCases
<1>6. Cardinality(own) \in Nat
  BY <1>1, Finite
<1>7. PICK i \in own : c = T[i].sid
  BY <1>4, <1>5, <1>6 DEF Picked
<1>8. i \in DOMAIN T /\ T[i].sid \in Sessions(T, own)
  BY <1>4 DEF MyRow, Sessions
<1>9. c \in 2..rows
  BY <1>7, <1>8
<1>10. c \in Sessions(T, own) \ {0}
  BY <1>7, <1>8, <1>9
<1> QED
  BY <1>3, <1>4, <1>10

\* Whoever finds no account has one of the new sessions.
LEMMA NewChoice ==
    ASSUME NEW L, NEW T \in Seq(TableRows), NEW rows \in Nat, NEW active, NEW n \in Nat,
           NEW p \in Nat, NEW q \in Nat, q = rows + p, rows >= 1, L \subseteq 2..rows, MyRow(T, active) = {}, n < p
    PROVE  Choice(n, FALSE, <<L, T>>, q, active) \in rows + 1..q
<1>1. PICK own : own = Not(<<L, T>>, active)
  OBVIOUS
<1>2. PICK free : free = Rest(<<L, T>>, q, active)
  OBVIOUS
<1>3. PICK c : c = Choice(n, FALSE, <<L, T>>, q, active)
  OBVIOUS
<1>4. own = {}
  BY <1>1 DEF Not
<1>5. free = {s \in 2..q : s \notin L}
  BY <1>2 DEF Rest, Sessions
<1>6. Picked(c, n, n, own, free, T) /\ IsFiniteSet(free) /\ free \subseteq Int
  <2>2. IsFiniteSet(free) /\ free \subseteq Int
    BY <1>2, Finite
  <2>3. Picked(Choice(n, FALSE, <<L, T>>, q, active), n, IF FALSE THEN 0 ELSE n,
               Not(<<L, T>>, active), Rest(<<L, T>>, q, active), T)
    BY ChoiceCases
  <2> QED
    BY <1>1, <1>2, <1>3, <2>2, <2>3
<1>7. rows + 1..q \subseteq free
  BY <1>5
<1>8. Cardinality(rows + 1..q) = p
  <2>1. rows + 1 \in Int /\ q \in Int
    OBVIOUS
  <2>2. Cardinality(rows + 1..q) =
          IF rows + 1 > q THEN 0 ELSE q - (rows + 1) + 1
    BY <2>1, FS_Interval
  <2> QED
    BY <2>2
<1>9. Cardinality(free) >= p /\ Cardinality(free) \in Nat
  BY <1>6, <1>7, <1>8, FS_Subset, FS_CardinalityType
<1>10. Cardinality(own) = 0
  BY <1>4, FS_EmptySet
<1>11. c \in free /\ Cardinality(Newer(free, c)) = n
  BY <1>6, <1>9, <1>10 DEF Picked
<1>12. c \in 2..q
  BY <1>5, <1>11
<1>13. ASSUME c <= rows PROVE FALSE
  <2>1. rows + 1..q \subseteq Newer(free, c)
    BY <1>7, <1>12, <1>13 DEF Newer
  <2>2. Newer(free, c) \in SUBSET free
    BY DEF Newer
  <2>3. IsFiniteSet(Newer(free, c))
    BY <1>6, <2>2, FS_Subset
  <2>4. p <= n
    BY <1>8, <1>11, <2>1, <2>3, FS_Subset
  <2> QED
    BY <2>4
<1>14. c \in rows + 1..q
  BY <1>12, <1>13
<1> QED
  BY <1>3, <1>14

-----------------------------------------------------------------------------
(* The gate and the tables. *)

Early == parent.pc \in {"fork", "setting", "start"}
Open == parent.pc \in {"gate", "serve"}
ChildPcs == {"none", "born", "read", "pick", "logon", "on", "trading", "late", "end"}
OnlinePcs == {"on", "trading", "late"}
New(pc) ==
    [pc |-> pc, sid |-> 0, tries |-> Tries, served |-> FALSE, first |-> FALSE, saw |-> << >>]

\* Nobody can read from the pipe, or has started, before the acceptor runs.
GateInv ==
    /\ config.nodes \in 1..MaxNodes /\ config.process \in config.nodes..MaxNodes
    /\ config.version \in Versions \cup {0}
    /\ parent.m \in 0..config.nodes
    /\ parent.pc \in {"setting", "start", "gate", "serve"} => parent.m = config.nodes
    /\ pipe \in [bytes : 0..4, writers : SUBSET (0..MaxNodes)]
    /\ acceptor \in [up : BOOLEAN, sessions : SUBSET Nat, end : BOOLEAN, fresh : BOOLEAN]
    /\ acceptor.up <=> Open
    /\ Early => pipe.bytes = 0 /\ Main \in pipe.writers /\ \A n \in Numbers : ~Started(n)
    /\ \A n \in Numbers : n >= parent.m => child[n].pc = "none"

TableInv ==
    /\ db \in [rows : Nat \ {0}, login : SUBSET Nat, active : Versions \cup {0}]
    /\ db.login \subseteq 2..db.rows
    /\ account \in Seq(TableRows)
    /\ \A i \in DOMAIN account : account[i].sid \in 2..db.rows

Kids == [pc : ChildPcs, sid : Nat, tries : Int, served : BOOLEAN, first : BOOLEAN, saw : Saws]

\* What is true of a node: its session is the one it chose.
Fine(n, c, rows, active, login) ==
    /\ c.sid \in {0} \cup 2..rows
    /\ c.pc \in {"logon", "on", "trading", "late"} => c.sid # 0
    /\ c.first => c.sid # 0 /\ c.saw # << >> /\ c.sid = Choice(n, FALSE, c.saw, rows, active)
    /\ c.saw # << >> => OneEach(c.saw[2])
    /\ c.pc \in OnlinePcs => c.served
    /\ c.pc = "trading" => c.sid \in login
    /\ c.pc \in {"none", "born", "read"} => c = New(c.pc)
    /\ c.pc = "pick" => ~c.first

KidInv ==
    /\ child \in [Numbers -> Kids]
    /\ \A n \in Numbers : Fine(n, child[n], db.rows, db.active, db.login)
    /\ \A n, k \in Numbers : n # k /\ Online(n) /\ Online(k) => child[n].sid # child[k].sid

Mates == 0..config.nodes - 1
FreshRows == parent.pc \in {"start", "gate", "serve"} /\ acceptor.fresh /\ ~raced

\* While nobody has come or left too early, who has chosen saw what all see, and
\* finds at its first attempt a session that the acceptor knows.
FreshInv ==
    FreshRows =>
        /\ \A n \in Mates : Before(n) => child[n].saw = << >>
        /\ \A n \in Mates : ~Before(n) =>
              /\ child[n].first /\ child[n].sid \in acceptor.sessions
              /\ child[n].pc # "logon" => child[n].served
        /\ (\E n \in Mates : Before(n)) =>
              /\ \A n \in Mates :
                    Choice(n, FALSE, Seen, db.rows, db.active) \in acceptor.sessions \ {0}
              /\ \A n \in Mates : ~Before(n) => child[n].saw = Seen
        /\ \A n, k \in Mates : ~Before(n) /\ ~Before(k) => child[n].saw = child[k].saw

IInv == NumberInv /\ AccountInv /\ GateInv /\ TableInv /\ KidInv /\ FreshInv

LEMMA MatesAre == GateInv => Mates \subseteq Numbers /\ MaxNodes \notin Numbers /\ Numbers \subseteq Nat
  BY Constants DEF GateInv, Mates, Numbers

LEMMA UnbornIs ==
    /\ New("none") = Unborn
    /\ \A pc \in ChildPcs : New(pc) \in Kids /\ New(pc).pc = pc /\ New(pc).sid = 0
                            /\ New(pc).saw = << >> /\ ~New(pc).first
    /\ \A p, q \in ChildPcs : [New(p) EXCEPT !.pc = q] = New(q)
<1>1. New("none") = Unborn
  BY DEF New, Unborn
<1>2. ASSUME NEW pc \in ChildPcs
      PROVE  New(pc) \in Kids /\ New(pc).pc = pc /\ New(pc).sid = 0
             /\ New(pc).saw = << >> /\ ~New(pc).first
  BY LaunchAssumption DEF New, Kids, Saws
<1>3. ASSUME NEW p \in ChildPcs, NEW q \in ChildPcs
      PROVE  [New(p) EXCEPT !.pc = q] = New(q)
  <2>1. PICK x \in Kids : x = New(p)
    BY <1>2
  <2>2. PICK y \in Kids : y = [x EXCEPT !.pc = q]
    BY DEF Kids
  <2>3. y.pc = q /\ y.sid = x.sid /\ y.tries = x.tries /\ y.served = x.served
        /\ y.first = x.first /\ y.saw = x.saw
    BY <2>2 DEF Kids
  <2>4. y = [pc |-> y.pc, sid |-> y.sid, tries |-> y.tries, served |-> y.served,
             first |-> y.first, saw |-> y.saw]
    BY DEF Kids
  <2>5. x.sid = 0 /\ x.tries = Tries /\ x.served = FALSE /\ x.first = FALSE /\ x.saw = << >>
    BY <2>1 DEF New
  <2>6. y = New(q)
    BY <2>3, <2>4, <2>5 DEF New
  <2> QED
    BY <2>1, <2>2, <2>6
<1> QED
  BY <1>1, <1>2, <1>3

LEMMA NewIsFine ==
    ASSUME NEW n, NEW rows \in Nat, NEW active, NEW login, NEW pc \in {"none", "born", "read"}
    PROVE  Fine(n, New(pc), rows, active, login)
<1>1. PICK c \in Kids : c = New(pc)
  BY UnbornIs DEF ChildPcs
<1>2. c.pc = pc /\ c.sid = 0 /\ c.saw = << >> /\ ~c.first
  BY <1>1, UnbornIs DEF ChildPcs
<1>3. Fine(n, c, rows, active, login)
  BY <1>1, <1>2 DEF Fine, OnlinePcs
<1> QED
  BY <1>1, <1>3

LEMMA InitIInv == LaunchInit => IInv
<1> SUFFICES ASSUME LaunchInit PROVE IInv
  OBVIOUS
<1>1. child = [n \in Numbers |-> New("none")] /\ db = [rows |-> 1, login |-> {}, active |-> 0]
      /\ account = << >> /\ parent.pc = "idle" /\ parent.m = 0
  BY UnbornIs DEF LaunchInit
<1>2. GateInv
  BY <1>1, UnbornIs, Constants DEF LaunchInit, GateInv, Early, Open, ChildPcs
<1>3. TableInv
  BY <1>1 DEF TableInv
<1>4. KidInv
  <2>1. New("none") \in Kids /\ New("none").pc = "none"
    BY UnbornIs DEF ChildPcs
  <2>2. \A n \in Numbers : Fine(n, New("none"), 1, 0, {})
    BY NewIsFine
  <2>3. db.rows = 1 /\ db.active = 0 /\ db.login = {}
    BY <1>1
  <2> QED
    BY <1>1, <2>1, <2>2, <2>3 DEF KidInv, Online
<1>5. FreshInv
  BY <1>1 DEF FreshInv, FreshRows
<1> QED
  BY <1>2, <1>3, <1>4, <1>5, NumberInit, AccountInit DEF IInv

-----------------------------------------------------------------------------
(* The steps of a node. *)

\* Node n becomes r.
Turns(n, r) ==
    /\ child' = [child EXCEPT ![n] = r]
    /\ parent' = parent /\ config' = config /\ acceptor' = acceptor
    /\ db'.rows = db.rows /\ db'.active = db.active

LEMMA KidStep ==
    ASSUME KidInv, NEW n \in Numbers, NEW r \in Kids, Turns(n, r),
           Fine(n, r, db.rows, db.active, db'.login),
           \A k \in Numbers : k # n /\ child[k].pc = "trading" => child[k].sid \in db'.login,
           r.pc \in OnlinePcs => \A k \in Numbers : k # n /\ Online(k) => child[k].sid # r.sid
    PROVE  KidInv'
<1>1. /\ child' \in [Numbers -> Kids] /\ child'[n] = r
      /\ \A k \in Numbers : k # n => child'[k] = child[k]
  BY DEF KidInv, Turns
<1>2. ASSUME NEW k \in Numbers
      PROVE  Fine(k, child'[k], db'.rows, db'.active, db'.login)
  <2>1. CASE k = n
    BY <1>1, <2>1 DEF Turns
  <2>2. CASE k # n
    <3>1. Fine(k, child[k], db.rows, db.active, db.login)
      BY DEF KidInv
    <3>2. Fine(k, child[k], db.rows, db.active, db'.login)
      BY <2>2, <3>1 DEF Fine
    <3> QED
      BY <1>1, <2>2, <3>2 DEF Turns
  <2> QED
    BY <2>1, <2>2
<1>3. ASSUME NEW i \in Numbers, NEW j \in Numbers, i # j,
             child'[i].pc \in OnlinePcs, child'[j].pc \in OnlinePcs
      PROVE  child'[i].sid # child'[j].sid
  BY <1>1, <1>3 DEF KidInv, Online, OnlinePcs
<1> QED
  BY <1>1, <1>2, <1>3 DEF KidInv, Online, OnlinePcs

LEMMA GateStep ==
    ASSUME GateInv, KidInv, NEW n \in Numbers, NEW r \in Kids, Turns(n, r),
           child[n].pc # "none",
           r.pc \notin {"none", "born", "read"} => ~Early,
           pipe' \in [bytes : 0..4, writers : SUBSET (0..MaxNodes)],
           Early => pipe'.bytes = 0 /\ Main \in pipe'.writers
    PROVE  GateInv'
<1>1. /\ child'[n] = r
      /\ \A k \in Numbers : k # n => child'[k] = child[k]
  BY DEF KidInv, Turns
<1>2. Early' = Early /\ Open' = Open
  BY DEF Turns, Early, Open
<1>3. Early => \A k \in Numbers : ~Started(k)'
  BY <1>1 DEF Started, GateInv
<1>4. \A k \in Numbers : k >= parent.m => child'[k].pc = "none"
  BY <1>1 DEF GateInv
<1> QED
  BY <1>2, <1>3, <1>4 DEF GateInv, Turns

LEMMA Living == ASSUME IInv, NEW n \in Numbers, child[n].pc # "none" PROVE n \in Mates
<1>1. n \in Nat /\ ~(n >= parent.m) /\ parent.m \in Nat /\ config.nodes \in Nat
      /\ parent.m <= config.nodes
  BY MatesAre, Constants DEF IInv, GateInv
<1> QED
  BY <1>1 DEF Mates

LEMMA KidIs ==
    ASSUME KidInv, NEW n \in Numbers
    PROVE  child[n] \in Kids /\ Fine(n, child[n], db.rows, db.active, db.login)
  BY DEF KidInv

\* What FreshInv is about stays.
Same ==
    /\ FreshRows' => FreshRows
    /\ config' = config /\ acceptor'.sessions = acceptor.sessions
    /\ db' = db /\ account' = account
    /\ \A k \in Mates :
          /\ Before(k)' = Before(k) /\ child'[k].saw = child[k].saw
          /\ ~Before(k) => child'[k] = child[k]

LEMMA FreshSame == FreshInv /\ Same => FreshInv'
<1> SUFFICES ASSUME FreshInv, Same, FreshRows' PROVE FreshInv'
  BY DEF FreshInv
<1>1. FreshRows /\ Mates' = Mates /\ Seen' = Seen
  BY DEF Same, Mates, Seen
<1>2. \A k \in Mates :
          /\ Before(k)' = Before(k) /\ child'[k].saw = child[k].saw
          /\ ~Before(k) => child'[k] = child[k]
  BY DEF Same
<1>3. (\E n \in Mates' : Before(n)') <=> (\E n \in Mates : Before(n))
  BY <1>1, <1>2
<1>4. \A n \in Mates' : Before(n)' => child'[n].saw = << >>
  BY <1>1, <1>2 DEF FreshInv
<1>5. \A n \in Mates' : ~Before(n)' =>
              /\ child'[n].first /\ child'[n].sid \in acceptor'.sessions
              /\ child'[n].pc # "logon" => child'[n].served
  BY <1>1, <1>2 DEF FreshInv, Same
<1>6. (\E n \in Mates' : Before(n)') =>
              /\ \A n \in Mates' :
                    Choice(n, FALSE, Seen', db'.rows, db'.active) \in acceptor'.sessions \ {0}
              /\ \A n \in Mates' : ~Before(n)' => child'[n].saw = Seen'
  BY <1>1, <1>2, <1>3 DEF FreshInv, Same
<1>7. \A n, k \in Mates' : ~Before(n)' /\ ~Before(k)' => child'[n].saw = child'[k].saw
  BY <1>1, <1>2 DEF FreshInv
<1> QED
  BY <1>4, <1>5, <1>6, <1>7 DEF FreshInv

LEMMA WaitsInv ==
    ASSUME IInv, NEW n \in Numbers, CloseWriter(n) \/ Read(n)
    PROVE  GateInv' /\ TableInv' /\ KidInv' /\ FreshInv'
<1>1. \E p \in {"born", "read"}, q \in {"read", "pick"} :
        /\ child[n].pc = p /\ child' = [child EXCEPT ![n].pc = q]
        /\ q = "pick" => pipe.bytes > 0 \/ pipe.writers = {}
  BY DEF CloseWriter, Read
<1>2. PICK p \in {"born", "read"}, q \in {"read", "pick"} :
        /\ child[n].pc = p /\ child' = [child EXCEPT ![n].pc = q]
        /\ q = "pick" => pipe.bytes > 0 \/ pipe.writers = {}
  BY <1>1
<1>3. /\ parent' = parent /\ config' = config /\ acceptor' = acceptor /\ db' = db
      /\ account' = account /\ raced' = raced
  BY DEF CloseWriter, Read
<1>4. GateInv /\ TableInv /\ KidInv /\ FreshInv /\ child \in [Numbers -> Kids]
  BY DEF IInv, KidInv
<1>5. child[n] = New(p)
  BY <1>2, <1>4 DEF KidInv, Fine
<1>6. Turns(n, New(q)) /\ New(q) \in Kids
  <2>1. [New(p) EXCEPT !.pc = q] = New(q)
    BY UnbornIs DEF ChildPcs
  <2>2. child' = [child EXCEPT ![n] = [child[n] EXCEPT !.pc = q]]
    BY <1>2
  <2>3. New(q) \in Kids
    BY UnbornIs DEF ChildPcs
  <2> QED
    BY <1>3, <1>5, <2>1, <2>2, <2>3 DEF Turns
<1>7. New(q).pc = q /\ New(q).saw = << >> /\ New(q).sid = 0 /\ ~New(q).first
      /\ New(p).pc = p /\ New(p).saw = << >>
  BY UnbornIs DEF ChildPcs
<1>8. Fine(n, New(q), db.rows, db.active, db'.login)
  BY <1>7 DEF Fine, OnlinePcs
<1>9. KidInv'
  <2>1. New(q).pc \notin OnlinePcs
    BY <1>7 DEF OnlinePcs
  <2>2. \A k \in Numbers : k # n /\ child[k].pc = "trading" => child[k].sid \in db'.login
    BY <1>3, <1>4 DEF KidInv, Fine
  <2> QED
    BY <1>4, <1>6, <1>8, <2>1, <2>2, KidStep
<1>10. /\ pipe' \in [bytes : 0..4, writers : SUBSET (0..MaxNodes)]
       /\ Early => pipe'.bytes = 0 /\ Main \in pipe'.writers
       /\ q = "pick" => ~Early
  <2>1. pipe \in [bytes : 0..4, writers : SUBSET (0..MaxNodes)]
        /\ (Early => pipe.bytes = 0 /\ Main \in pipe.writers)
    BY <1>4 DEF GateInv
  <2>2. n # Main
    BY <1>4, MatesAre DEF Main
  <2>3. q = "pick" => ~Early
    BY <1>2, <2>1
  <2>4. CASE CloseWriter(n)
    <3>1. pipe' = [pipe EXCEPT !.writers = pipe.writers \ {n}]
      BY <2>4 DEF CloseWriter
    <3> QED
      BY <2>1, <2>2, <2>3, <3>1
  <2>5. CASE Read(n)
    <3>1. PICK b \in 0..4 : b = IF pipe.bytes > 2 THEN pipe.bytes - 2 ELSE 0
      BY <2>1
    <3>2. pipe' = [pipe EXCEPT !.bytes = b]
      BY <2>5, <3>1 DEF Read
    <3>3. ~Early
      BY <2>1, <2>5 DEF Read
    <3> QED
      BY <2>1, <3>2, <3>3
  <2> QED
    BY <2>4, <2>5
<1>11. GateInv'
  <2>1. New(q).pc \notin {"none", "born", "read"} => ~Early
    BY <1>7, <1>10
  <2> QED
    BY <1>2, <1>4, <1>6, <1>10, <2>1, GateStep
<1>12. Same
  <2>1. child'[n] = New(q) /\ \A k \in Numbers : k # n => child'[k] = child[k]
    BY <1>4, <1>6 DEF Turns
  <2>2. Before(n) /\ Before(n)' /\ child'[n].saw = child[n].saw
    BY <1>2, <1>5, <1>7, <2>1 DEF Before
  <2>3. FreshRows' => FreshRows
    BY <1>3 DEF FreshRows
  <2>4. \A k \in Mates : k \in Numbers
    BY <1>4, MatesAre
  <2>5. \A k \in Mates : /\ Before(k)' = Before(k) /\ child'[k].saw = child[k].saw
                         /\ ~Before(k) => child'[k] = child[k]
    BY <2>1, <2>2, <2>4 DEF Before
  <2> QED
    BY <1>3, <2>3, <2>5 DEF Same
<1> QED
  BY <1>3, <1>4, <1>9, <1>11, <1>12, FreshSame DEF TableInv

\* EaSetting() for a node.
LEMMA PickInv ==
    ASSUME IInv, NEW n \in Numbers, Pick(n)
    PROVE  GateInv' /\ TableInv' /\ KidInv' /\ FreshInv'
<1>1. PICK c \in Kids : c = child[n]
  BY DEF IInv, KidInv
<1>2. PICK first \in BOOLEAN : first = (c.saw = << >>)
  OBVIOUS
<1>3. PICK sid : sid = Choice(n, ~first, Seen, db.rows, db.active)
  OBVIOUS
<1>4. /\ c.pc = "pick"
      /\ parent' = parent /\ config' = config /\ acceptor' = acceptor /\ db' = db
      /\ account' = account /\ raced' = raced /\ pipe' = pipe
  BY <1>1 DEF Pick
<1>5. GateInv /\ TableInv /\ KidInv /\ FreshInv /\ child \in [Numbers -> Kids]
      /\ Fine(n, c, db.rows, db.active, db.login) /\ n \in Nat /\ OneEach(account)
  BY <1>1, MatesAre DEF IInv, KidInv, AccountInv, OneAccountEach, OneEach
<1>6. Seen \in (SUBSET Nat) \X Seq(TableRows) /\ Seen[2] = account /\ Seen # << >> /\ Seen \in Saws
  <2>1. db.login \in SUBSET Nat /\ account \in Seq(TableRows)
    BY <1>5 DEF TableInv
  <2> QED
    BY <2>1 DEF Seen, Saws
<1>7. sid \in {0} \cup 2..db.rows /\ db.rows \in Nat
  <2>1. account \in Seq(TableRows) /\ db.rows \in Nat /\ \A i \in DOMAIN account : account[i].sid \in 2..db.rows
    BY <1>5 DEF TableInv
  <2>2. (~first) \in BOOLEAN
    OBVIOUS
  <2> QED
    BY <1>3, <1>5, <2>1, <2>2, ChoiceType DEF Seen
<1>8. PICK r \in Kids :
        /\ Turns(n, r)
        /\ IF sid # 0
           THEN /\ r.pc = "logon" /\ r.sid = sid /\ r.first = first /\ r.saw = Seen
                /\ r.served = c.served
           ELSE /\ r.pc \in {"pick", "end"} /\ r.sid = c.sid /\ r.first = c.first
                /\ r.saw \in {c.saw, Seen} /\ r.served = c.served
  <2>1. EaSetting(n, ~first, Seen) = sid
    BY <1>3, ChoiceIs
  <2>2. child' = [child EXCEPT ![n] =
              IF sid # 0
              THEN [c EXCEPT !.pc = "logon", !.sid = sid, !.tries = Tries,
                             !.first = first, !.saw = Seen]
              ELSE IF ~first /\ c.tries = 1 THEN [c EXCEPT !.pc = "end"]
              ELSE [c EXCEPT !.tries = IF first THEN c.tries ELSE c.tries - 1,
                             !.saw = Seen]]
    BY <1>1, <1>2, <2>1 DEF Pick
  <2>3. CASE sid # 0
    <3> DEFINE r == [c EXCEPT !.pc = "logon", !.sid = sid, !.tries = Tries,
                              !.first = first, !.saw = Seen]
    <3>1. sid \in Nat /\ Tries \in Int
      BY <1>7, LaunchAssumption
    <3>2. r \in Kids
      BY <1>6, <3>1 DEF Kids, ChildPcs
    <3>3. /\ r.pc = "logon" /\ r.sid = sid /\ r.first = first /\ r.saw = Seen
          /\ r.served = c.served
      BY DEF Kids
    <3>4. Turns(n, r)
      BY <1>4, <2>2, <2>3 DEF Turns
    <3> QED
      BY <2>3, <3>2, <3>3, <3>4
  <2>4. CASE sid = 0 /\ ~first /\ c.tries = 1
    <3> DEFINE r == [c EXCEPT !.pc = "end"]
    <3>1. r \in Kids /\ r.pc = "end" /\ r.sid = c.sid /\ r.first = c.first
          /\ r.saw = c.saw /\ r.served = c.served
      BY DEF Kids, ChildPcs
    <3>2. Turns(n, r)
      BY <1>4, <2>2, <2>4 DEF Turns
    <3> QED
      BY <2>4, <3>1, <3>2
  <2>5. CASE sid = 0 /\ ~(~first /\ c.tries = 1)
    <3>1. PICK t \in Int : t = IF first THEN c.tries ELSE c.tries - 1
      BY DEF Kids
    <3> DEFINE r == [c EXCEPT !.tries = t, !.saw = Seen]
    <3>2. r \in Kids /\ r.pc = "pick" /\ r.sid = c.sid /\ r.first = c.first
          /\ r.saw = Seen /\ r.served = c.served
      BY <1>4, <1>6 DEF Kids
    <3>3. Turns(n, r)
      BY <1>4, <2>2, <2>5, <3>1 DEF Turns
    <3> QED
      BY <2>5, <3>2, <3>3
  <2> QED
    BY <2>3, <2>4, <2>5
<1>9. c.saw \in Saws /\ (c.first => c.saw # << >>)
  BY <1>5 DEF Kids, Fine
<1>10. ~c.first
  BY <1>4, <1>5 DEF Fine
<1>11. Fine(n, r, db.rows, db.active, db'.login)
  <2>1. CASE sid # 0
    <3>1. r.first => sid = Choice(n, FALSE, Seen, db.rows, db.active)
      BY <1>3, <1>8, <2>1
    <3>2. /\ r.pc = "logon" /\ r.sid = sid /\ r.saw = Seen
      BY <1>8, <2>1
    <3> QED
      BY <1>5, <1>6, <1>7, <2>1, <3>1, <3>2 DEF Fine, OnlinePcs
  <2>2. CASE sid = 0
    <3>1. r.pc \in {"pick", "end"} /\ r.sid = c.sid /\ ~r.first /\ r.saw \in {c.saw, Seen}
      BY <1>8, <1>10, <2>2
    <3>2. r.saw # << >> => OneEach(r.saw[2])
      BY <1>5, <1>6, <3>1 DEF Fine
    <3>3. c.sid \in {0} \cup 2..db.rows
      BY <1>5 DEF Fine
    <3> QED
      BY <3>1, <3>2, <3>3 DEF Fine, OnlinePcs
  <2> QED
    BY <2>1, <2>2
<1>12. r.pc \notin OnlinePcs
  BY <1>8 DEF OnlinePcs
<1>13. KidInv'
  <2>1. \A k \in Numbers : k # n /\ child[k].pc = "trading" => child[k].sid \in db'.login
    BY <1>4, <1>5 DEF KidInv, Fine
  <2> QED
    BY <1>5, <1>8, <1>11, <1>12, <2>1, KidStep
<1>14. GateInv'
  <2>1. child[n].pc # "none" /\ ~Early
    BY <1>1, <1>4, <1>5 DEF GateInv, Started
  <2>2. pipe' \in [bytes : 0..4, writers : SUBSET (0..MaxNodes)]
        /\ (Early => pipe'.bytes = 0 /\ Main \in pipe'.writers)
    BY <1>4, <1>5 DEF GateInv
  <2> QED
    BY <1>5, <1>8, <2>1, <2>2, GateStep
<1>15. FreshInv'
  <2> SUFFICES ASSUME FreshRows' PROVE FreshInv'
    BY DEF FreshInv
  <2>1. FreshRows /\ Mates' = Mates /\ Seen' = Seen /\ acceptor' = acceptor /\ db' = db
    BY <1>4 DEF FreshRows, Mates, Seen
  <2>2. n \in Mates /\ Before(n)
    BY <1>1, <1>4, Living DEF Before
  <2>3. first /\ sid \in acceptor.sessions /\ sid # 0
    <3>1. first
      BY <1>5, <1>1, <1>2, <2>1, <2>2 DEF FreshInv
    <3>2. Choice(n, FALSE, Seen, db.rows, db.active) \in acceptor.sessions \ {0}
      BY <1>5, <2>1, <2>2 DEF FreshInv
    <3> QED
      BY <1>3, <3>1, <3>2
  <2>4. /\ child'[n] = r /\ r.pc = "logon" /\ r.sid = sid /\ r.first /\ r.saw = Seen
        /\ \A k \in Mates : k # n => child'[k] = child[k]
    BY <1>5, <1>8, <2>3, MatesAre DEF Turns
  <2>5. ~Before(n)' /\ \A k \in Mates : k # n => Before(k)' = Before(k)
    BY <2>4 DEF Before
  <2>6. \A k \in Mates : ~Before(k)' => child'[k].saw = Seen
    BY <1>5, <2>1, <2>2, <2>4, <2>5 DEF FreshInv
  <2>7. \A k \in Mates' : Before(k)' => child'[k].saw = << >>
    BY <1>5, <2>1, <2>4, <2>5 DEF FreshInv
  <2>8. \A k \in Mates' : ~Before(k)' =>
              /\ child'[k].first /\ child'[k].sid \in acceptor'.sessions
              /\ child'[k].pc # "logon" => child'[k].served
    BY <1>5, <2>1, <2>3, <2>4, <2>5 DEF FreshInv
  <2>9. \A k \in Mates : Choice(k, FALSE, Seen, db.rows, db.active) \in acceptor.sessions \ {0}
    BY <1>5, <2>1, <2>2 DEF FreshInv
  <2>10. (\E k \in Mates' : Before(k)') =>
              /\ \A k \in Mates' :
                    Choice(k, FALSE, Seen', db'.rows, db'.active) \in acceptor'.sessions \ {0}
              /\ \A k \in Mates' : ~Before(k)' => child'[k].saw = Seen'
    BY <2>1, <2>6, <2>9
  <2>11. \A i, k \in Mates' : ~Before(i)' /\ ~Before(k)' => child'[i].saw = child'[k].saw
    BY <2>1, <2>6
  <2> QED
    BY <1>5, <2>7, <2>8, <2>10, <2>11 DEF FreshInv
<1> QED
  BY <1>4, <1>5, <1>13, <1>14, <1>15 DEF TableInv

-----------------------------------------------------------------------------
(* Logging on and off. *)

\* The sessions of two nodes that saw the same differ.
LEMMA SeenSame ==
    ASSUME IInv, NEW n \in Numbers, NEW k \in Numbers, n # k,
           child[n].sid # 0, child[n].first, child[k].first, child[n].saw = child[k].saw
    PROVE  child[n].sid # child[k].sid
<1>1. PICK c \in Kids : c = child[n]
  BY DEF IInv, KidInv
<1>2. PICK d \in Kids : d = child[k]
  BY DEF IInv, KidInv
<1>3. PICK rows \in Nat : rows = db.rows
  BY DEF IInv, TableInv
<1>4. PICK active : active = db.active
  OBVIOUS
<1>5. Fine(n, c, rows, active, db.login) /\ Fine(k, d, rows, active, db.login)
  BY <1>1, <1>2, <1>3, <1>4 DEF IInv, KidInv
<1>6. n \in Nat /\ k \in Nat
  BY MatesAre DEF IInv
<1>7. c.first /\ d.first /\ c.sid # 0 /\ c.saw = d.saw
  BY <1>1, <1>2
<1>8. /\ c.saw \in (SUBSET Nat) \X Seq(TableRows) /\ OneEach(c.saw[2])
      /\ c.sid = Choice(n, FALSE, c.saw, rows, active)
      /\ d.sid = Choice(k, FALSE, c.saw, rows, active)
  BY <1>5, <1>7 DEF Fine, Kids, Saws
<1>9. c.sid # d.sid
  BY <1>6, <1>7, <1>8, ChoicesDiffer
<1> QED
  BY <1>1, <1>2, <1>9

LEMMA LogonInv ==
    ASSUME IInv, NEW n \in Numbers, Logon(n)
    PROVE  GateInv' /\ TableInv' /\ KidInv' /\ FreshInv'
<1>1. PICK c \in Kids : c = child[n]
  BY DEF IInv, KidInv
<1>2. /\ c.pc = "logon"
      /\ parent' = parent /\ config' = config /\ acceptor' = acceptor /\ db' = db
      /\ account' = account /\ raced' = raced /\ pipe' = pipe
  BY <1>1 DEF Logon
<1>3. GateInv /\ TableInv /\ KidInv /\ FreshInv /\ child \in [Numbers -> Kids]
      /\ Fine(n, c, db.rows, db.active, db.login)
  BY <1>1 DEF IInv, KidInv
<1>4. PICK r \in Kids :
        /\ Turns(n, r)
        /\ r.sid = c.sid /\ r.first = c.first /\ r.saw = c.saw
        /\ IF Accepts(n) THEN r.pc \in {"late", "on"} /\ r.served
           ELSE r.pc \in {"logon", "end"} /\ r.served = c.served
  <2>1. child' = [child EXCEPT ![n] =
          IF Accepts(n)
          THEN [c EXCEPT !.pc = IF acceptor.end THEN "late" ELSE "on",
                         !.served = TRUE]
          ELSE IF c.tries > 1 THEN [c EXCEPT !.tries = c.tries - 1]
          ELSE [c EXCEPT !.pc = "end"]]
    BY <1>1 DEF Logon
  <2>2. CASE Accepts(n)
    <3>1. PICK p \in {"late", "on"} : p = IF acceptor.end THEN "late" ELSE "on"
      OBVIOUS
    <3> DEFINE r == [c EXCEPT !.pc = p, !.served = TRUE]
    <3>2. r \in Kids /\ r.sid = c.sid /\ r.first = c.first /\ r.saw = c.saw
          /\ r.pc = p /\ r.served
      BY DEF Kids, ChildPcs
    <3>3. Turns(n, r)
      BY <1>2, <2>1, <2>2, <3>1 DEF Turns
    <3> QED
      BY <2>2, <3>2, <3>3
  <2>3. CASE ~Accepts(n) /\ c.tries > 1
    <3> DEFINE r == [c EXCEPT !.tries = c.tries - 1]
    <3>1. r \in Kids /\ r.sid = c.sid /\ r.first = c.first /\ r.saw = c.saw
          /\ r.pc = "logon" /\ r.served = c.served
      BY <1>2 DEF Kids
    <3>2. Turns(n, r)
      BY <1>2, <2>1, <2>3 DEF Turns
    <3> QED
      BY <2>3, <3>1, <3>2
  <2>4. CASE ~Accepts(n) /\ ~(c.tries > 1)
    <3> DEFINE r == [c EXCEPT !.pc = "end"]
    <3>1. r \in Kids /\ r.sid = c.sid /\ r.first = c.first /\ r.saw = c.saw
          /\ r.pc = "end" /\ r.served = c.served
      BY DEF Kids, ChildPcs
    <3>2. Turns(n, r)
      BY <1>2, <2>1, <2>4 DEF Turns
    <3> QED
      BY <2>4, <3>1, <3>2
  <2> QED
    BY <2>2, <2>3, <2>4
<1>5. Fine(n, r, db.rows, db.active, db'.login)
  BY <1>2, <1>3, <1>4 DEF Fine, OnlinePcs
<1>6. KidInv'
  <2>1. \A k \in Numbers : k # n /\ child[k].pc = "trading" => child[k].sid \in db'.login
    BY <1>2, <1>3 DEF KidInv, Fine
  <2>2. ASSUME r.pc \in OnlinePcs, NEW k \in Numbers, k # n, Online(k)
        PROVE  child[k].sid # r.sid
    <3>1. Accepts(n)
      BY <1>4, <2>2 DEF OnlinePcs
    <3> QED
      BY <1>1, <1>4, <2>2, <3>1 DEF Accepts
  <2> QED
    BY <1>3, <1>4, <1>5, <2>1, <2>2, KidStep
<1>7. ~Early /\ child[n].pc # "none"
  BY <1>1, <1>2, <1>3 DEF GateInv, Started
<1>8. GateInv'
  <2>1. pipe' \in [bytes : 0..4, writers : SUBSET (0..MaxNodes)]
        /\ (Early => pipe'.bytes = 0 /\ Main \in pipe'.writers)
    BY <1>2, <1>3 DEF GateInv
  <2> QED
    BY <1>3, <1>4, <1>7, <2>1, GateStep
<1>9. FreshInv'
  <2> SUFFICES ASSUME FreshRows' PROVE FreshInv'
    BY DEF FreshInv
  <2>1. FreshRows /\ Mates' = Mates /\ Seen' = Seen
    BY <1>2 DEF FreshRows, Mates, Seen
  <2>2. n \in Mates /\ ~Before(n)
    BY <1>1, <1>2, Living DEF Before
  <2>3. Accepts(n)
    <3>1. acceptor.up
      BY <1>3, <1>7, <2>1 DEF GateInv, FreshRows, Early, Open
    <3>2. c.first /\ c.sid \in acceptor.sessions
      BY <1>3, <1>1, <2>1, <2>2 DEF FreshInv
    <3>3. ASSUME NEW k \in Numbers, Online(k) PROVE child[k].sid # c.sid
      <4>1. k # n /\ child[k].pc # "none" /\ ~Before(k)
        BY <1>1, <1>2, <3>3 DEF Online, Before
      <4>2. k \in Mates
        BY <4>1, Living
      <4>3. child[k].first /\ child[k].saw = child[n].saw
        BY <1>3, <2>1, <2>2, <4>1, <4>2 DEF FreshInv
      <4>4. child[k].sid # 0
        BY <1>3, <3>3 DEF KidInv, Fine, Online
      <4> QED
        BY <1>1, <3>2, <4>1, <4>3, <4>4, SeenSame
    <3> QED
      BY <1>1, <3>1, <3>2, <3>3 DEF Accepts
  <2>4. /\ child'[n] = r /\ r.pc \in {"late", "on"} /\ r.served
        /\ r.sid = child[n].sid /\ r.first = child[n].first /\ r.saw = child[n].saw
        /\ \A k \in Mates : k # n => child'[k] = child[k]
    BY <1>1, <1>3, <1>4, <2>3, MatesAre DEF Turns
  <2>5. \A k \in Mates : Before(k)' = Before(k)
    BY <2>2, <2>4 DEF Before
  <2>6. \A k \in Mates : child'[k].saw = child[k].saw
    BY <2>4
  <2>7. \A k \in Mates' : Before(k)' => child'[k].saw = << >>
    BY <1>3, <2>1, <2>5, <2>6 DEF FreshInv
  <2>8. \A k \in Mates' : ~Before(k)' =>
              /\ child'[k].first /\ child'[k].sid \in acceptor'.sessions
              /\ child'[k].pc # "logon" => child'[k].served
    BY <1>3, <1>2, <2>1, <2>2, <2>4, <2>5 DEF FreshInv
  <2>9. (\E k \in Mates' : Before(k)') =>
              /\ \A k \in Mates' :
                    Choice(k, FALSE, Seen', db'.rows, db'.active) \in acceptor'.sessions \ {0}
              /\ \A k \in Mates' : ~Before(k)' => child'[k].saw = Seen'
    BY <1>3, <1>2, <2>1, <2>5, <2>6 DEF FreshInv
  <2>10. \A i, k \in Mates' : ~Before(i)' /\ ~Before(k)' => child'[i].saw = child'[k].saw
    BY <1>3, <2>1, <2>5, <2>6 DEF FreshInv
  <2> QED
    BY <1>3, <2>7, <2>8, <2>9, <2>10 DEF FreshInv
<1> QED
  BY <1>2, <1>3, <1>6, <1>8, <1>9 DEF TableInv

\* A login, or a logout, after all have chosen.
LEMMA FreshGone ==
    ASSUME FreshInv, KidInv, GateInv, NEW n \in Mates, NEW r \in Kids, Turns(n, r),
           raced' = (raced \/ \E k \in Mates : Before(k)),
           r.pc \notin {"none", "born", "read", "pick"}, r.served,
           r.sid = child[n].sid, r.first = child[n].first, r.saw = child[n].saw
    PROVE  FreshInv'
<1> SUFFICES ASSUME FreshRows' PROVE FreshInv'
  BY DEF FreshInv
<1>1. /\ FreshRows /\ Mates' = Mates /\ acceptor' = acceptor
      /\ \A k \in Mates : ~Before(k)
  BY DEF FreshRows, Mates, Turns
<1>2. /\ child'[n] = r
      /\ \A k \in Mates : k # n => child'[k] = child[k]
  BY MatesAre DEF KidInv, Turns
<1>3. \A k \in Mates : ~Before(k)' /\ child'[k].saw = child[k].saw
  BY <1>1, <1>2 DEF Before
<1>4. \A k \in Mates : /\ child'[k].first /\ child'[k].sid \in acceptor.sessions
                       /\ child'[k].pc # "logon" => child'[k].served
  BY <1>1, <1>2 DEF FreshInv
<1>5. \A i, k \in Mates : child'[i].saw = child'[k].saw
  BY <1>1, <1>3 DEF FreshInv
<1> QED
  BY <1>1, <1>3, <1>4, <1>5 DEF FreshInv

LEMMA MatesNow == Mates = 0..config.nodes - 1
  BY DEF Mates

\* traders()
LEMMA TradersInv ==
    ASSUME IInv, NEW n \in Numbers, Traders(n)
    PROVE  GateInv' /\ TableInv' /\ KidInv' /\ FreshInv'
<1>1. PICK c \in Kids : c = child[n]
  BY DEF IInv, KidInv
<1>2. /\ c.pc = "on"
      /\ parent' = parent /\ config' = config /\ acceptor' = acceptor
      /\ db' = [db EXCEPT !.login = db.login \cup {c.sid}]
      /\ account' = account \/ account' = Append(account, [sid |-> c.sid, verid |-> db.active])
      /\ raced' = (raced \/ \E k \in Mates : Before(k)) /\ pipe' = pipe
      /\ child' = [child EXCEPT ![n] = [c EXCEPT !.pc = "trading"]]
  BY <1>1, MatesNow DEF Traders
<1>3. GateInv /\ TableInv /\ KidInv /\ FreshInv /\ child \in [Numbers -> Kids]
      /\ Fine(n, c, db.rows, db.active, db.login)
  BY <1>1 DEF IInv, KidInv
<1>4. c.sid \in 2..db.rows /\ c.served
  BY <1>2, <1>3 DEF Fine, OnlinePcs
<1>5. /\ db' \in [rows : Nat \ {0}, login : SUBSET Nat, active : Versions \cup {0}]
      /\ db'.rows = db.rows /\ db'.active = db.active /\ db'.login = db.login \cup {c.sid}
      /\ db.rows \in Nat /\ db.active \in Nat /\ db.login \subseteq 2..db.rows
  BY <1>2, <1>3, <1>4, LaunchAssumption DEF TableInv
<1> DEFINE r == [c EXCEPT !.pc = "trading"]
<1>6. /\ r \in Kids /\ r.pc = "trading" /\ r.sid = c.sid /\ r.first = c.first
      /\ r.saw = c.saw /\ r.served
  BY <1>4 DEF Kids, ChildPcs
<1>7. Turns(n, r)
  BY <1>2, <1>5 DEF Turns
<1> HIDE DEF r
<1>8. Fine(n, r, db.rows, db.active, db'.login)
  <2>1. c.sid # 0 /\ c.sid \in {0} \cup 2..db.rows /\ c.sid \in db'.login
    BY <1>4, <1>5
  <2>2. /\ c.first => c.sid # 0 /\ c.saw # << >> /\ c.sid = Choice(n, FALSE, c.saw, db.rows, db.active)
        /\ c.saw # << >> => OneEach(c.saw[2])
    BY <1>3 DEF Fine
  <2> QED
    BY <1>6, <2>1, <2>2 DEF Fine
<1>9. KidInv'
  <2>1. \A k \in Numbers : k # n /\ child[k].pc = "trading" => child[k].sid \in db'.login
    BY <1>3, <1>5 DEF KidInv, Fine
  <2>2. \A k \in Numbers : k # n /\ Online(k) => child[k].sid # r.sid
    BY <1>1, <1>2, <1>3, <1>6 DEF KidInv, Online
  <2> QED
    BY <1>3, <1>6, <1>7, <1>8, <2>1, <2>2, KidStep
<1>10. ~Early /\ child[n].pc # "none"
  BY <1>1, <1>2, <1>3 DEF GateInv, Started
<1>11. GateInv'
  <2>1. pipe' \in [bytes : 0..4, writers : SUBSET (0..MaxNodes)]
        /\ (Early => pipe'.bytes = 0 /\ Main \in pipe'.writers)
    BY <1>2, <1>3 DEF GateInv
  <2> QED
    BY <1>3, <1>6, <1>7, <1>10, <2>1, GateStep
<1>12. FreshInv'
  <2>1. n \in Mates
    BY <1>10, Living
  <2> QED
    BY <1>1, <1>2, <1>3, <1>6, <1>7, <2>1, FreshGone
<1>13. TableInv'
  <2>1. PICK t \in Seq(TableRows) : t = account
    BY <1>3 DEF TableInv
  <2>2. PICK e \in TableRows : e = [sid |-> c.sid, verid |-> db.active]
    BY <1>4, <1>5 DEF TableRows
  <2>3. \A i \in DOMAIN t : t[i].sid \in 2..db.rows
    BY <1>3, <2>1 DEF TableInv
  <2>4. e.sid = c.sid
    BY <2>2
  <2>5. /\ Append(t, e) \in Seq(TableRows) /\ DOMAIN t = 1..Len(t)
        /\ DOMAIN Append(t, e) = 1..Len(t) + 1 /\ Len(t) \in Nat
        /\ \A i \in 1..Len(t) : Append(t, e)[i] = t[i]
        /\ Append(t, e)[Len(t) + 1] = e
    BY AppendProperties
  <2>6. \A i \in DOMAIN Append(t, e) : Append(t, e)[i].sid \in 2..db.rows
    BY <1>4, <2>3, <2>4, <2>5
  <2>7. account' \in Seq(TableRows) /\ \A i \in DOMAIN account' : account'[i].sid \in 2..db.rows
    BY <1>2, <2>1, <2>2, <2>3, <2>5, <2>6
  <2>8. db'.login \subseteq 2..db.rows
    BY <1>4, <1>5
  <2> QED
    BY <1>5, <2>7, <2>8 DEF TableInv
<1> QED
  BY <1>9, <1>11, <1>12, <1>13

\* SessionLogout(), unless the stream has ended.
LEMMA LeaveInv ==
    ASSUME IInv, NEW n \in Numbers, Leave(n)
    PROVE  GateInv' /\ TableInv' /\ KidInv' /\ FreshInv'
<1>1. PICK c \in Kids : c = child[n]
  BY DEF IInv, KidInv
<1>2. PICK login : login = IF acceptor.end THEN db.login ELSE db.login \ {c.sid}
  OBVIOUS
<1>3. /\ c.pc \in {"on", "trading"}
      /\ parent' = parent /\ config' = config /\ acceptor' = acceptor
      /\ db' = [db EXCEPT !.login = login] /\ account' = account
      /\ raced' = (raced \/ \E k \in Mates : Before(k)) /\ pipe' = pipe
      /\ child' = [child EXCEPT ![n] = [c EXCEPT !.pc = "end"]]
  BY <1>1, <1>2, MatesNow DEF Leave
<1>4. GateInv /\ TableInv /\ KidInv /\ FreshInv /\ child \in [Numbers -> Kids]
      /\ Fine(n, c, db.rows, db.active, db.login)
  BY <1>1 DEF IInv, KidInv
<1>5. c.served
  BY <1>3, <1>4 DEF Fine, OnlinePcs
<1>6. login \subseteq db.login /\ \A s \in db.login : s # c.sid => s \in login
  BY <1>2
<1>7. /\ db' \in [rows : Nat \ {0}, login : SUBSET Nat, active : Versions \cup {0}]
      /\ db'.rows = db.rows /\ db'.active = db.active /\ db'.login = login
  BY <1>3, <1>4, <1>6 DEF TableInv
<1> DEFINE r == [c EXCEPT !.pc = "end"]
<1>8. /\ r \in Kids /\ r.pc = "end" /\ r.sid = c.sid /\ r.first = c.first
      /\ r.saw = c.saw /\ r.served
  BY <1>5 DEF Kids, ChildPcs
<1>9. Turns(n, r)
  BY <1>3, <1>7 DEF Turns
<1> HIDE DEF r
<1>10. Fine(n, r, db.rows, db.active, db'.login)
  BY <1>4, <1>8 DEF Fine, OnlinePcs
<1>11. KidInv'
  <2>1. ASSUME NEW k \in Numbers, k # n, child[k].pc = "trading"
        PROVE  child[k].sid \in db'.login
    <3>1. child[k].sid \in db.login
      BY <1>4, <2>1 DEF KidInv, Fine
    <3>2. child[k].sid # c.sid
      BY <1>1, <1>3, <1>4, <2>1 DEF KidInv, Online
    <3> QED
      BY <1>6, <1>7, <3>1, <3>2
  <2>2. r.pc \notin OnlinePcs
    BY <1>8 DEF OnlinePcs
  <2> QED
    BY <1>4, <1>8, <1>9, <1>10, <2>1, <2>2, KidStep
<1>12. ~Early /\ child[n].pc # "none"
  BY <1>1, <1>3, <1>4 DEF GateInv, Started
<1>13. GateInv'
  <2>1. pipe' \in [bytes : 0..4, writers : SUBSET (0..MaxNodes)]
        /\ (Early => pipe'.bytes = 0 /\ Main \in pipe'.writers)
    BY <1>3, <1>4 DEF GateInv
  <2> QED
    BY <1>4, <1>8, <1>9, <1>12, <2>1, GateStep
<1>14. FreshInv'
  <2>1. n \in Mates
    BY <1>12, Living
  <2> QED
    BY <1>1, <1>3, <1>4, <1>8, <1>9, <2>1, FreshGone
<1>15. TableInv'
  <2>1. db'.login \subseteq 2..db.rows
    BY <1>4, <1>6, <1>7 DEF TableInv
  <2> QED
    BY <1>3, <1>4, <1>7, <2>1 DEF TableInv
<1> QED
  BY <1>11, <1>13, <1>14, <1>15

-----------------------------------------------------------------------------
(* The steps of main() and of the exchange. *)

LEMMA LaunchStepInv ==
    ASSUME IInv, Launch
    PROVE  GateInv' /\ TableInv' /\ KidInv' /\ FreshInv'
<1>1. PICK k \in 1..MaxNodes, v \in Versions \cup {0}, p \in 1..MaxNodes :
        /\ p \in {k, MaxNodes}
        /\ config' = [nodes |-> k, process |-> p, version |-> v]
  BY Constants DEF Launch
<1>2. /\ parent' = [pc |-> "fork", m |-> 0, now |-> 0]
      /\ pipe' = [bytes |-> 0, writers |-> {Main}]
      /\ acceptor' = [up |-> FALSE, sessions |-> {}, end |-> FALSE, fresh |-> FALSE]
      /\ child' = [n \in Numbers |-> New("none")]
      /\ db' = db /\ account' = account
  BY UnbornIs DEF Launch
<1>3. New("none") \in Kids /\ New("none").pc = "none"
  BY UnbornIs DEF ChildPcs
<1>4. k \in Nat /\ k >= 1 /\ k <= MaxNodes /\ p \in k..MaxNodes /\ MaxNodes \in Nat
  <2>1. MaxNodes \in Nat /\ k \in Nat /\ k >= 1 /\ k <= MaxNodes
    BY Constants
  <2> QED
    BY <1>1, <2>1
<1>5. GateInv'
  BY <1>1, <1>2, <1>3, <1>4 DEF GateInv, Early, Open, Started, Main
<1>6. KidInv'
  <2>1. \A n \in Numbers : Fine(n, New("none"), db.rows, db.active, db.login)
    <3>1. db.rows \in Nat
      BY DEF IInv, TableInv
    <3> QED
      BY <3>1, NewIsFine
  <2> QED
    BY <1>2, <1>3, <2>1 DEF KidInv, Online
<1>7. TableInv'
  BY <1>2 DEF IInv, TableInv
<1>8. FreshInv'
  BY <1>2 DEF FreshInv, FreshRows
<1> QED
  BY <1>5, <1>6, <1>7, <1>8

LEMMA ForkInv ==
    ASSUME IInv, Fork
    PROVE  GateInv' /\ TableInv' /\ KidInv' /\ FreshInv'
<1>1. PICK m : m = parent.m
  OBVIOUS
<1>2. /\ parent.pc = "fork" /\ m < config.nodes
      /\ parent' = [parent EXCEPT !.m = m + 1, !.now = parent.now + Processors]
      /\ child' = [child EXCEPT ![m] = [child[m] EXCEPT !.pc = "born"]]
      /\ pipe' = [pipe EXCEPT !.writers = pipe.writers \cup {m}]
      /\ config' = config /\ acceptor' = acceptor /\ db' = db /\ account' = account
  BY <1>1 DEF Fork
<1>3. GateInv /\ TableInv /\ KidInv /\ child \in [Numbers -> Kids]
      /\ parent \in [pc : Pcs, m : 0..MaxNodes, now : Nat]
  BY DEF IInv, KidInv, NumberInv
<1>4. m \in Numbers /\ m \in 0..MaxNodes /\ m \in Nat /\ config.nodes \in Nat
      /\ config.nodes <= MaxNodes
  BY <1>1, <1>2, <1>3, Constants DEF GateInv, Numbers
<1>5. child[m] = New("none")
  <2>1. child[m].pc = "none"
    BY <1>1, <1>3, <1>4 DEF GateInv
  <2> QED
    BY <1>3, <1>4, <2>1 DEF KidInv, Fine
<1>6. child' = [child EXCEPT ![m] = New("born")] /\ New("born") \in Kids
      /\ New("born").pc = "born"
  <2>1. [New("none") EXCEPT !.pc = "born"] = New("born") /\ New("born") \in Kids
        /\ New("born").pc = "born"
    BY UnbornIs DEF ChildPcs
  <2> QED
    BY <1>2, <1>5, <2>1
<1>7. /\ child' \in [Numbers -> Kids] /\ child'[m] = New("born")
      /\ \A n \in Numbers : n # m => child'[n] = child[n]
  BY <1>3, <1>4, <1>6
<1>8. /\ parent'.pc = "fork" /\ parent'.m = m + 1
      /\ pipe'.bytes = pipe.bytes /\ pipe'.writers = pipe.writers \cup {m}
      /\ pipe' \in [bytes : 0..4, writers : SUBSET (0..MaxNodes)]
  BY <1>2, <1>3, <1>4 DEF GateInv
<1>9. GateInv'
  <2>1. m + 1 \in 0..config.nodes
    BY <1>2, <1>4
  <2>2. pipe.bytes = 0 /\ Main \in pipe.writers /\ \A n \in Numbers : ~Started(n)
        /\ ~acceptor.up
    BY <1>2, <1>3 DEF GateInv, Early, Open
  <2>3. \A n \in Numbers : ~Started(n)'
    BY <1>6, <1>7, <2>2 DEF Started
  <2>4. \A n \in Numbers : n >= m + 1 => child'[n].pc = "none"
    <3>1. \A n \in Numbers : n >= m + 1 => n # m /\ n >= m
      BY <1>4, <1>3, MatesAre
    <3> QED
      BY <1>1, <1>3, <1>7, <3>1 DEF GateInv
  <2> QED
    BY <1>2, <1>3, <1>8, <2>1, <2>2, <2>3, <2>4 DEF GateInv, Early, Open
<1>10. KidInv'
  <2>1. db.rows \in Nat
    BY <1>3 DEF TableInv
  <2>2. Fine(m, New("born"), db.rows, db.active, db.login)
    BY <2>1, NewIsFine
  <2>3. \A n \in Numbers : Fine(n, child'[n], db.rows, db.active, db.login)
    BY <1>3, <1>7, <2>2 DEF KidInv
  <2> QED
    BY <1>2, <1>3, <1>6, <1>7, <2>3 DEF KidInv, Online
<1>11. TableInv' /\ FreshInv'
  BY <1>2, <1>3, <1>8 DEF TableInv, FreshInv, FreshRows
<1> QED
  BY <1>9, <1>10, <1>11

\* What the version of the exchange, or the new sessions, change nobody has seen:
\* the nodes wait.
LEMMA NobodyStarted ==
    ASSUME IInv, Early, child' = child, db'.rows \in Nat
    PROVE  KidInv'
<1>1. \A n \in Numbers : child[n].pc \in {"none", "born", "read"}
  BY DEF IInv, GateInv, Started
<1>2. \A n \in Numbers : child[n] = New(child[n].pc)
  BY <1>1 DEF IInv, KidInv, Fine
<1>3. \A n \in Numbers : Fine(n, child[n], db'.rows, db'.active, db'.login)
  BY <1>1, <1>2, NewIsFine
<1> QED
  BY <1>1, <1>3 DEF IInv, KidInv, Online

LEMMA ExchangeInv ==
    ASSUME IInv, Exchange
    PROVE  GateInv' /\ TableInv' /\ KidInv' /\ FreshInv'
<1>1. PICK v \in Versions \cup {0} :
         v = CASE config.version # 0 -> config.version
               [] config.version = 0 /\ db.active = 0 -> 1
               [] OTHER -> db.active
  BY LaunchAssumption DEF IInv, GateInv, TableInv
<1>2. /\ parent.pc = "fork" /\ parent.m = config.nodes
      /\ parent' = [parent EXCEPT !.pc = "setting"] /\ db' = [db EXCEPT !.active = v]
      /\ config' = config /\ pipe' = pipe /\ acceptor' = acceptor /\ child' = child
      /\ account' = account
  BY <1>1 DEF Exchange
<1>3. GateInv /\ TableInv /\ parent \in [pc : Pcs, m : 0..MaxNodes, now : Nat]
  BY DEF IInv, NumberInv
<1>4. parent'.pc = "setting" /\ parent'.m = parent.m
  BY <1>2, <1>3
<1>5. TableInv' /\ db'.rows \in Nat
  BY <1>2, <1>3 DEF TableInv
<1>6. GateInv'
  BY <1>2, <1>3, <1>4 DEF GateInv, Early, Open, Started
<1>7. KidInv'
  BY <1>2, <1>5, NobodyStarted DEF Early
<1>8. FreshInv'
  BY <1>4 DEF FreshInv, FreshRows
<1> QED
  BY <1>5, <1>6, <1>7, <1>8

\* ExSetting(): the accounts of the version if there are as many as processes, or
\* the newest sessions.
LEMMA ExSettingInv ==
    ASSUME IInv, ExSetting
    PROVE  GateInv' /\ TableInv' /\ KidInv' /\ FreshInv'
<1>1. PICK own : own = MyRow(account, db.active) /\ own = Accounts(account)
  BY DEF MyRow, Accounts
<1>2. PICK p \in Nat : p = config.process
  BY Constants DEF IInv, GateInv
<1>3. PICK rows \in Nat : rows = db.rows /\ rows >= 1
  BY DEF IInv, TableInv
<1>4. PICK L \in SUBSET Nat : L = db.login /\ L \subseteq 2..rows
  BY <1>3 DEF IInv, TableInv
<1>5. PICK T \in Seq(TableRows) : T = account /\ \A i \in DOMAIN T : T[i].sid \in 2..rows
  BY <1>3 DEF IInv, TableInv
<1>6. PICK active : active = db.active
  OBVIOUS
<1>7. Cardinality(own) \in Nat
  <2>1. own = MyRow(T, active) /\ IsFiniteSet(MyRow(T, active))
    BY <1>1, <1>3, <1>5, <1>6, Finite
  <2> QED
    BY <2>1, FS_CardinalityType
<1>8. /\ parent.pc = "setting" /\ parent' = [parent EXCEPT !.pc = "start"]
      /\ config' = config /\ pipe' = pipe /\ child' = child /\ account' = account
      /\ raced' = raced
  BY DEF ExSetting
<1>9. GateInv /\ TableInv /\ parent \in [pc : Pcs, m : 0..MaxNodes, now : Nat]
      /\ acceptor \in [up : BOOLEAN, sessions : SUBSET Nat, end : BOOLEAN, fresh : BOOLEAN]
      /\ db \in [rows : Nat \ {0}, login : SUBSET Nat, active : Versions \cup {0}]
  BY DEF IInv, NumberInv, GateInv, TableInv
<1>10. PICK need \in Int : need = p - Cardinality(own)
  BY <1>7
<1>11. PICK S \in SUBSET Nat, f \in BOOLEAN, q \in Nat :
         /\ acceptor' = [acceptor EXCEPT !.sessions = S, !.fresh = f]
         /\ db' = [db EXCEPT !.rows = q]
         /\ q >= rows
         /\ need <= 0 => /\ S = Sessions(T, own) /\ q = rows
                         /\ f => Sessions(T, own) \cap L = {}
         /\ need > 0 => /\ S = {s \in 1..q : s > q - p} /\ q = rows + need
                        /\ f => own = {}
  <2>1. CASE need <= 0
    <3>1. /\ acceptor' = [acceptor EXCEPT
                 !.sessions = Sessions(T, own), !.fresh = Sessions(T, own) \cap L = {}]
          /\ db' = db
      BY <1>1, <1>2, <1>4, <1>5, <1>10, <2>1 DEF ExSetting
    <3>2. db' = [db EXCEPT !.rows = rows]
      BY <1>3, <1>9, <3>1
    <3>3. Sessions(T, own) \in SUBSET Nat
      BY <1>1, <1>5 DEF Sessions, MyRow, TableRows
    <3>4. PICK S \in SUBSET Nat : S = Sessions(T, own)
      BY <3>3
    <3>5. PICK f \in BOOLEAN : f = (Sessions(T, own) \cap L = {})
      OBVIOUS
    <3>6. acceptor' = [acceptor EXCEPT !.sessions = S, !.fresh = f]
      BY <3>1, <3>4, <3>5
    <3> QED
      <4>1. rows >= rows /\ ~(need > 0)
        BY <2>1
      <4>2. /\ need <= 0 => /\ S = Sessions(T, own) /\ rows = rows
                            /\ f => Sessions(T, own) \cap L = {}
            /\ need > 0 => /\ S = {s \in 1..rows : s > rows - p} /\ rows = rows + need
                           /\ f => own = {}
        BY <3>4, <3>5, <4>1
      <4> QED
        BY <3>2, <3>6, <4>1, <4>2
  <2>2. CASE need > 0
    <3>1. PICK q \in Nat : q = rows + need
      BY <1>3, <2>2
    <3>2. /\ acceptor' = [acceptor EXCEPT !.sessions = {s \in 1..q : s > q - p},
                                          !.fresh = own = {}]
          /\ db' = [db EXCEPT !.rows = q]
      <4>1. ~(need <= 0)
        BY <2>2
      <4> QED
        BY <1>1, <1>2, <1>3, <1>10, <3>1, <4>1 DEF ExSetting
    <3>3. PICK S \in SUBSET Nat : S = {s \in 1..q : s > q - p}
      <4>1. 1..q \subseteq Nat
        OBVIOUS
      <4> QED
        BY <4>1
    <3>4. PICK f \in BOOLEAN : f = (own = {})
      OBVIOUS
    <3>5. acceptor' = [acceptor EXCEPT !.sessions = S, !.fresh = f]
      BY <3>2, <3>3, <3>4
    <3>6. q >= rows
      BY <2>2, <3>1
    <3> QED
      <4>1. ~(need <= 0)
        BY <2>2
      <4> QED
        BY <2>2, <3>1, <3>2, <3>3, <3>4, <3>5, <3>6, <4>1, ZenonT(40)
  <2>3. need <= 0 \/ need > 0
    OBVIOUS
  <2> QED
    BY <2>1, <2>2, <2>3
<1>12. /\ parent'.pc = "start" /\ parent'.m = parent.m
       /\ acceptor' \in [up : BOOLEAN, sessions : SUBSET Nat, end : BOOLEAN, fresh : BOOLEAN]
       /\ acceptor'.up = acceptor.up /\ acceptor'.sessions = S /\ acceptor'.fresh = f
       /\ db' \in [rows : Nat \ {0}, login : SUBSET Nat, active : Versions \cup {0}]
       /\ db'.rows = q /\ db'.login = L /\ db'.active = active
  <2>1. q \in Nat \ {0}
    BY <1>3, <1>11
  <2> QED
    BY <1>4, <1>6, <1>8, <1>9, <1>11, <2>1
<1>13. TableInv'
  <2>1. 2..rows \subseteq 2..q
    BY <1>11
  <2>2. account' = T
    BY <1>5, <1>8
  <2> QED
    BY <1>4, <1>5, <1>12, <2>1, <2>2 DEF TableInv
<1>14. GateInv'
  BY <1>8, <1>9, <1>12 DEF GateInv, Early, Open, Started
<1>15. KidInv'
  BY <1>8, <1>12, NobodyStarted DEF Early
<1>16. FreshInv'
  <2> SUFFICES ASSUME f PROVE FreshInv'
    BY <1>12 DEF FreshInv, FreshRows
  <2>1. Mates' = Mates /\ Mates \subseteq Numbers /\ Seen' = <<L, T>>
    BY <1>5, <1>8, <1>9, <1>12, MatesAre DEF Mates, Seen
  <2>2. \A n \in Numbers : child'[n].pc \in {"none", "born", "read"} /\ child'[n].saw = << >>
    <3> SUFFICES ASSUME NEW n \in Numbers
                 PROVE  child[n].pc \in {"none", "born", "read"} /\ child[n].saw = << >>
      BY <1>8
    <3>1. child[n].pc \in {"none", "born", "read"}
      BY <1>8, <1>9 DEF GateInv, Early, Started
    <3>2. child[n] = New(child[n].pc)
      BY <3>1 DEF IInv, KidInv, Fine
    <3>3. New(child[n].pc).saw = << >>
      BY <3>1, UnbornIs DEF ChildPcs
    <3> QED
      BY <3>1, <3>2, <3>3
  <2>3. \A n \in Mates : Before(n)'
    BY <2>1, <2>2 DEF Before
  <2>4. ASSUME NEW n \in Mates
        PROVE  Choice(n, FALSE, <<L, T>>, q, active) \in S \ {0}
    <3>1. n \in Nat /\ n < p
      BY <1>2, <1>9, Constants DEF Mates, GateInv
    <3>2. own = MyRow(T, active)
      BY <1>1, <1>5, <1>6
    <3>3. CASE need <= 0
      <4>1. S = Sessions(T, own) /\ Sessions(T, own) \cap L = {} /\ q = rows
        BY <1>11, <3>3
      <4>2. n < Cardinality(own)
        BY <1>7, <1>10, <3>1, <3>3
      <4> QED
        BY <1>5, <3>1, <3>2, <4>1, <4>2, OwnChoice
    <3>4. CASE need > 0
      <4>1. own = {} /\ q = rows + need /\ S = {s \in 1..q : s > q - p}
        BY <1>11, <3>4
      <4>2. q = rows + p
        <5>1. need = p
          BY <1>10, <4>1, FS_EmptySet
        <5> QED
          BY <4>1, <5>1
      <4>3. Choice(n, FALSE, <<L, T>>, q, active) \in rows + 1..q
        BY <1>3, <1>4, <3>1, <3>2, <4>1, <4>2, NewChoice
      <4>4. PICK c : c = Choice(n, FALSE, <<L, T>>, q, active)
        OBVIOUS
      <4>5. c \in rows + 1..q
        BY <4>3, <4>4
      <4>6. c \in S \ {0}
        BY <4>1, <4>2, <4>5, <3>1
      <4> QED
        BY <4>4, <4>6
    <3>5. need <= 0 \/ need > 0
      OBVIOUS
    <3> QED
      BY ONLY <3>3, <3>4, <3>5
  <2> QED
    BY <1>12, <2>1, <2>2, <2>3, <2>4 DEF FreshInv
<1> QED
  BY <1>13, <1>14, <1>15, <1>16

\* Steps of main() that leave the nodes and the tables alone.
LEMMA ParentInv ==
    ASSUME IInv, AcceptorStart \/ Gate \/ StreamEnds
    PROVE  GateInv' /\ TableInv' /\ KidInv' /\ FreshInv'
<1>1. GateInv /\ TableInv /\ KidInv /\ FreshInv
      /\ parent \in [pc : Pcs, m : 0..MaxNodes, now : Nat]
      /\ pipe \in [bytes : 0..4, writers : SUBSET (0..MaxNodes)]
      /\ acceptor \in [up : BOOLEAN, sessions : SUBSET Nat, end : BOOLEAN, fresh : BOOLEAN]
  BY DEF IInv, NumberInv, GateInv
<1>2. config' = config /\ child' = child /\ db' = db /\ account' = account
  BY DEF AcceptorStart, Gate, StreamEnds
<1>3. /\ acceptor'.sessions = acceptor.sessions /\ acceptor'.fresh = acceptor.fresh
      /\ acceptor' \in [up : BOOLEAN, sessions : SUBSET Nat, end : BOOLEAN, fresh : BOOLEAN]
      /\ acceptor'.up = IF AcceptorStart THEN TRUE ELSE acceptor.up
  BY <1>1 DEF AcceptorStart, Gate, StreamEnds
<1>4. /\ parent'.m = parent.m /\ parent.pc \in {"start", "gate", "serve"}
      /\ parent'.pc \in {"gate", "serve"} /\ (parent.pc = "start" <=> AcceptorStart)
  BY <1>1 DEF AcceptorStart, Gate, StreamEnds
<1>5. pipe' \in [bytes : 0..4, writers : SUBSET (0..MaxNodes)]
  BY <1>1 DEF AcceptorStart, Gate, StreamEnds
<1>6. GateInv'
  BY <1>1, <1>2, <1>3, <1>4, <1>5 DEF GateInv, Early, Open
<1>7. TableInv' /\ KidInv'
  BY <1>1, <1>2 DEF TableInv, KidInv, Online
<1>8. Same
  <2>1. raced => raced'
    BY DEF AcceptorStart, Gate, StreamEnds
  <2>2. FreshRows' => FreshRows
    BY <1>3, <1>4, <2>1 DEF FreshRows
  <2> QED
    BY <1>2, <1>3, <2>2 DEF Same, Before
<1> QED
  BY <1>1, <1>6, <1>7, <1>8, FreshSame

\* The launch is over, or given up.
LEMMA OverInv ==
    ASSUME IInv, ForkFails \/ RiskFixFails \/ AcceptorStop \/ Wait
    PROVE  GateInv' /\ TableInv' /\ KidInv' /\ FreshInv'
<1>1. GateInv /\ TableInv /\ KidInv
      /\ parent \in [pc : Pcs, m : 0..MaxNodes, now : Nat]
      /\ pipe \in [bytes : 0..4, writers : SUBSET (0..MaxNodes)]
      /\ acceptor \in [up : BOOLEAN, sessions : SUBSET Nat, end : BOOLEAN, fresh : BOOLEAN]
  BY DEF IInv, NumberInv, GateInv
<1>2. config' = config /\ child' = child /\ db' = db /\ account' = account
  BY DEF ForkFails, RiskFixFails, AcceptorStop, Wait
<1>3. parent'.m = parent.m /\ parent'.pc \in {"idle", "wait"}
  BY <1>1 DEF ForkFails, RiskFixFails, AcceptorStop, Wait
<1>4. /\ acceptor' \in [up : BOOLEAN, sessions : SUBSET Nat, end : BOOLEAN, fresh : BOOLEAN]
      /\ acceptor'.up = IF AcceptorStop THEN FALSE ELSE acceptor.up
      /\ parent.pc \in {"gate", "serve"} => AcceptorStop
  BY <1>1 DEF ForkFails, RiskFixFails, AcceptorStop, Wait
<1>5. pipe' \in [bytes : 0..4, writers : SUBSET (0..MaxNodes)]
  BY <1>1 DEF ForkFails, RiskFixFails, AcceptorStop, Wait
<1>6. GateInv'
  BY <1>1, <1>2, <1>3, <1>4, <1>5 DEF GateInv, Early, Open
<1>7. TableInv' /\ KidInv'
  BY <1>1, <1>2 DEF TableInv, KidInv, Online
<1>8. FreshInv'
  BY <1>3 DEF FreshInv, FreshRows
<1> QED
  BY <1>6, <1>7, <1>8

LEMMA KillInv ==
    ASSUME IInv, Kill
    PROVE  GateInv' /\ TableInv' /\ KidInv' /\ FreshInv'
<1>1. GateInv /\ TableInv
      /\ parent \in [pc : Pcs, m : 0..MaxNodes, now : Nat]
      /\ acceptor \in [up : BOOLEAN, sessions : SUBSET Nat, end : BOOLEAN, fresh : BOOLEAN]
  BY DEF IInv, NumberInv, GateInv
<1>2. /\ config' = config /\ db' = db /\ account' = account /\ pipe' = pipe
      /\ child' = [n \in Numbers |-> New("none")]
  BY UnbornIs DEF Kill
<1>3. New("none") \in Kids /\ New("none").pc = "none"
  BY UnbornIs DEF ChildPcs
<1>4. parent'.m = parent.m /\ parent'.pc = "idle"
  BY <1>1 DEF Kill
<1>5. /\ acceptor' \in [up : BOOLEAN, sessions : SUBSET Nat, end : BOOLEAN, fresh : BOOLEAN]
      /\ acceptor'.up = FALSE
  BY <1>1 DEF Kill
<1>6. GateInv'
  BY <1>1, <1>2, <1>3, <1>4, <1>5 DEF GateInv, Early, Open
<1>7. KidInv'
  <2>1. \A n \in Numbers : Fine(n, New("none"), db.rows, db.active, db.login)
    <3>1. db.rows \in Nat
      BY <1>1 DEF TableInv
    <3> QED
      BY <3>1, NewIsFine
  <2> QED
    BY <1>2, <1>3, <2>1 DEF KidInv, Online
<1>8. TableInv' /\ FreshInv'
  BY <1>1, <1>2, <1>4 DEF TableInv, FreshInv, FreshRows
<1> QED
  BY <1>6, <1>7, <1>8

LEMMA NextIInv == IInv /\ [LaunchNext]_launchVars => IInv'
<1> SUFFICES ASSUME IInv, [LaunchNext]_launchVars
             PROVE  GateInv' /\ TableInv' /\ KidInv' /\ FreshInv'
  BY NumberNext, AccountNext DEF IInv
<1>1. CASE UNCHANGED launchVars
  <2>1. Same
    BY <1>1 DEF launchVars, Same, FreshRows, Before
  <2>2. GateInv' /\ TableInv' /\ KidInv'
    BY <1>1 DEF launchVars, IInv, GateInv, TableInv, KidInv, Early, Open, Started, Online
  <2> QED
    BY <2>1, <2>2, FreshSame DEF IInv
<1>2. ASSUME NEW n \in Numbers, ChildSteps(n)
      PROVE  GateInv' /\ TableInv' /\ KidInv' /\ FreshInv'
  BY <1>2, WaitsInv, PickInv, LogonInv, TradersInv, LeaveInv DEF ChildSteps
<1>3. CASE ParentSteps
  BY <1>3, ForkInv, ExchangeInv, ExSettingInv, ParentInv, OverInv DEF ParentSteps
<1>4. CASE Launch \/ ForkFails \/ Kill
  BY <1>4, LaunchStepInv, OverInv, KillInv
<1> QED
  BY <1>1, <1>2, <1>3, <1>4 DEF LaunchNext

-----------------------------------------------------------------------------

\* A launch gives its nodes identifiers and sessions of their own, lets nobody
\* start before the acceptor runs, and turns nobody away who came in time (main(),
\* EaSetting(), ExSetting(), child_process()), for any nodes, versions, attempts
\* and launches.
THEOREM LaunchIsFair == LaunchSpec => []LaunchInv
<1>1. IInv => LaunchTypeOK
  <2> SUFFICES ASSUME IInv PROVE LaunchTypeOK
    OBVIOUS
  <2>1. \A n \in Numbers :
          /\ child[n].sid \in 0..db.rows
          /\ child[n].pc \in {"logon", "on", "trading", "late"} => child[n].sid # 0
    <3>1. db.rows \in Nat
      BY DEF IInv, TableInv
    <3> SUFFICES ASSUME NEW n \in Numbers
                 PROVE  /\ child[n].sid \in 0..db.rows
                        /\ child[n].pc \in {"logon", "on", "trading", "late"}
                              => child[n].sid # 0
      OBVIOUS
    <3>2. Fine(n, child[n], db.rows, db.active, db.login)
      BY DEF IInv, KidInv
    <3>3. child[n].sid \in {0} \cup 2..db.rows
      BY <3>2 DEF Fine
    <3>4. child[n].sid \in 0..db.rows
      BY <3>1, <3>3
    <3> QED
      BY <3>2, <3>4 DEF Fine
  <2> QED
    BY <2>1 DEF IInv, NumberInv, Pcs, GateInv, TableInv, LaunchTypeOK
<1>2. IInv => GateInOrder
  <2> SUFFICES ASSUME IInv, NEW n \in Numbers, Started(n)
               PROVE  acceptor.up \/ parent.pc \in {"wait", "idle"}
    BY DEF GateInOrder
  <2>1. parent.pc \in Pcs
    BY DEF IInv, NumberInv
  <2> QED
    BY <2>1 DEF IInv, GateInv, Early, Open, Pcs
<1>3. IInv => PicksAreDistinct
  BY SeenSame DEF PicksAreDistinct
<1>4. IInv => NoneTurnedAway
  <2> SUFFICES ASSUME IInv, NEW n \in Numbers, child[n].pc = "end", acceptor.fresh,
                      parent.pc = "serve", ~raced
               PROVE  child[n].served
    BY DEF NoneTurnedAway
  <2>1. n \in Mates /\ ~Before(n) /\ FreshRows
    BY Living DEF Before, FreshRows
  <2> QED
    BY <2>1 DEF IInv, FreshInv
<1>5. IInv => InUse
  BY DEF IInv, KidInv, Fine, InUse
<1>6. IInv => QuantIdsDistinct
  BY NumbersApart DEF IInv
<1>7. IInv => OneAccountEach
  BY DEF IInv, AccountInv
<1>8. IInv => LaunchInv
  BY <1>1, <1>2, <1>3, <1>4, <1>5, <1>6, <1>7 DEF LaunchInv
<1> QED
  BY InitIInv, NextIInv, <1>8, PTL DEF LaunchSpec

(****************************************************************************)
(* A number holds the value its operations say at its scale: what each of    *)
(* them loses is below one unit of that scale, and the losses add up.        *)
(****************************************************************************)


Scales == {1, 10, 100}

(* Products of whole numbers. *)

LEMMA ProductOfAbs ==
    ASSUME NEW a \in Int, NEW b \in Int
    PROVE  Abs(a * b) = Abs(a) * Abs(b) /\ Abs(a) \in Nat
<1>1. Abs(a) \in Nat
  BY DEF Abs
<1>2. CASE a >= 0 /\ b >= 0
  BY <1>2 DEF Abs
<1>3. CASE a >= 0 /\ b < 0
  BY <1>3 DEF Abs
<1>4. CASE a < 0 /\ b >= 0
  BY <1>4 DEF Abs
<1>5. CASE a < 0 /\ b < 0
  BY <1>5 DEF Abs
<1>6. QED
  BY <1>1, <1>2, <1>3, <1>4, <1>5

LEMMA ProductGrows ==
    ASSUME NEW a \in Nat, NEW b \in Nat, NEW c \in Nat, a <= b
    PROVE  a * c <= b * c
<1>1. b * c = a * c + (b - a) * c /\ (b - a) * c >= 0
  OBVIOUS
<1>2. QED
  BY <1>1

\* What m times as much is not above is not above.
LEMMA Cancelled ==
    ASSUME NEW m \in Int, m # 0, NEW x \in Int, NEW bound \in Nat,
           Abs(m * x) <= Abs(m) * bound
    PROVE  Abs(x) <= bound
<1> DEFINE p == Abs(m)
           y == Abs(x)
<1>1. p \in Nat /\ p >= 1 /\ y \in Nat
  BY DEF Abs
<1>2. Abs(m * x) = p * y
  BY ProductOfAbs
<1> HIDE DEF p, y
<1>3. SUFFICES ASSUME y >= bound + 1 PROVE FALSE
  BY <1>1 DEF y
<1>4. (bound + 1) * p <= y * p
  BY <1>1, <1>3, ProductGrows
<1>5. (bound + 1) * p = p * bound + p /\ y * p = p * y
  BY <1>1
<1>6. p * y <= p * bound
  BY <1>2 DEF p
<1>7. p * bound \in Int /\ p * y \in Int
  BY <1>1
<1>8. QED
  BY <1>1, <1>4, <1>5, <1>6, <1>7

(* Divisions round towards zero. *)

\* The rest has the sign of what is divided.
Divided(a, b, q, r) ==
    /\ q \in Int /\ r \in Int /\ a = b * q + r
    /\ Abs(r) < Abs(b)
    /\ a >= 0 => r >= 0 /\ b * q >= 0
    /\ a <= 0 => r <= 0 /\ b * q <= 0

LEMMA QuotientDivides ==
    ASSUME NEW a \in Int, NEW b \in Int, b # 0
    PROVE  Divided(a, b, Quotient(a, b), Remainder(a, b))
<1>1. PICK x, y : x = Abs(a) /\ y = Abs(b)
  OBVIOUS
<1>2. x \in Nat /\ y \in Nat /\ y > 0
  BY <1>1 DEF Abs
<1>3. PICK d, r : d = x \div y /\ r = x % y
  OBVIOUS
<1>4. d \in Nat /\ r \in 0..y - 1 /\ x = y * d + r
  BY <1>2, <1>3
<1>5. y * d \in Nat
  BY <1>2, <1>4
<1>6. Quotient(a, b) = Sign(a) * Sign(b) * d
  BY <1>1, <1>3 DEF Quotient
<1>7. b * Quotient(a, b) = Sign(a) * (y * d) /\ Quotient(a, b) \in Int
  <2>1. CASE a >= 0 /\ b > 0
    BY <1>1, <1>4, <1>6, <2>1 DEF Abs, Sign
  <2>2. CASE a >= 0 /\ b < 0
    BY <1>1, <1>4, <1>6, <2>2 DEF Abs, Sign
  <2>3. CASE a < 0 /\ b > 0
    BY <1>1, <1>4, <1>6, <2>3 DEF Abs, Sign
  <2>4. CASE a < 0 /\ b < 0
    BY <1>1, <1>4, <1>6, <2>4 DEF Abs, Sign
  <2>5. QED
    BY <2>1, <2>2, <2>3, <2>4
<1>8. PICK z, q : z = y * d /\ q = Quotient(a, b)
  OBVIOUS
<1>9. b * q = (IF a < 0 THEN -z ELSE z) /\ q \in Int /\ z \in Nat /\ x = z + r
  BY <1>4, <1>5, <1>7, <1>8 DEF Sign
<1>10. Remainder(a, b) = IF a < 0 THEN -r ELSE r
  BY <1>1, <1>4, <1>8, <1>9 DEF Remainder, Abs
<1>11. QED
  BY <1>1, <1>2, <1>4, <1>8, <1>9, <1>10 DEF Divided, Abs

\* There is one such quotient.
LEMMA QuotientIsOne ==
    ASSUME NEW a \in Int, NEW b \in Int, b # 0, NEW q, NEW r, Divided(a, b, q, r)
    PROVE  Quotient(a, b) = q /\ Remainder(a, b) = r
<1>1. PICK s, t : s = Quotient(a, b) /\ t = Remainder(a, b)
  OBVIOUS
<1>2. Divided(a, b, s, t)
  BY <1>1, QuotientDivides
<1>3. b * (q - s) = t - r
  BY <1>2 DEF Divided
<1>4. Abs(t - r) < Abs(b)
  BY <1>2 DEF Divided, Abs
<1>5. q - s = 0
  <2>1. Abs(b * (q - s)) < Abs(b)
    BY <1>3, <1>4
  <2>2. q - s \in Int
    BY <1>2 DEF Divided
  <2>3. Abs(b) * Abs(q - s) < Abs(b) /\ Abs(b) \in Nat /\ Abs(q - s) \in Nat
    BY <2>1, <2>2, ProductOfAbs
  <2>4. PICK p, y : p = Abs(b) /\ y = Abs(q - s)
    OBVIOUS
  <2>5. y < 1
    <3>1. SUFFICES ASSUME y >= 1 PROVE FALSE
      BY <2>3, <2>4
    <3>2. 1 * p <= y * p
      BY <2>3, <2>4, <3>1, ProductGrows
    <3>3. QED
      BY <2>3, <2>4, <3>2
  <2>6. QED
    BY <2>2, <2>3, <2>4, <2>5 DEF Abs
<1>6. QED
  BY <1>1, <1>2, <1>3, <1>5 DEF Divided

(* What is merged. *)

\* What is whole counts units of any scale; what is not, a unit less at most.
LEMMA MergeIsClose ==
    ASSUME NEW kind \in Kinds, NEW v \in Int, Written(kind, v), NEW deci \in Scales,
           NEW n \in Merge(kind, v, deci)
    PROVE  n \in Int /\ Abs(100 * n - v * deci) <= 100 * MayLose(kind, v)
<1>1. PICK q, r : q = Quotient(v * deci, 100) /\ r = Remainder(v * deci, 100)
  OBVIOUS
<1>2. v * deci \in Int /\ deci \in Nat /\ deci \in {1, 10, 100}
  BY DEF Scales
<1>3. Divided(v * deci, 100, q, r)
  BY <1>1, <1>2, QuotientDivides
<1>4. Whole(v) => 100 * q = v * deci
  <2>1. SUFFICES ASSUME Whole(v) PROVE 100 * q = v * deci
    OBVIOUS
  <2>2. PICK w \in Int : v = 100 * w
    BY <2>1 DEF Whole
  <2>3. Divided(v * deci, 100, w * deci, 0)
    BY <1>2, <2>2 DEF Divided, Abs
  <2>4. QED
    BY <1>1, <1>2, <2>2, <2>3, QuotientIsOne
<1>5. Abs(100 * q - v * deci) < 100 /\ q \in Int
  BY <1>2, <1>3 DEF Divided, Abs
<1>6. (v * deci) % 100 = 0 => 100 * q = v * deci
  <2>1. SUFFICES ASSUME (v * deci) % 100 = 0 PROVE 100 * q = v * deci
    OBVIOUS
  <2>2. PICK w \in Int : v * deci = 100 * w
    BY <1>2, <2>1
  <2>3. Divided(v * deci, 100, w, 0)
    BY <1>2, <2>2 DEF Divided, Abs
  <2>4. QED
    BY <1>1, <1>2, <2>2, <2>3, QuotientIsOne
<1>7. n = q \/ (~Whole(v) /\ kind # "long" /\ (v * deci) % 100 = 0 /\ n = q - Sign(q))
  BY <1>1 DEF Merge, Inexact
<1>8. CASE n = q
  <2>1. CASE Whole(v)
    BY <1>2, <1>4, <1>5, <1>8, <2>1 DEF MayLose, Abs
  <2>2. CASE ~Whole(v)
    <3>1. MayLose(kind, v) = 1
      BY <2>2 DEF MayLose, Written
    <3>2. QED
      BY <1>2, <1>5, <1>8, <3>1 DEF Abs
  <2>3. QED
    BY <2>1, <2>2
<1>9. CASE ~Whole(v) /\ kind # "long" /\ (v * deci) % 100 = 0 /\ n = q - Sign(q)
  <2>1. n \in Int /\ Abs(n - q) <= 1
    BY <1>5, <1>9 DEF Sign, Abs
  <2>2. 100 * q = v * deci /\ MayLose(kind, v) = 1
    BY <1>6, <1>9 DEF MayLose
  <2>3. QED
    BY <1>5, <2>1, <2>2 DEF Abs
<1>10. QED
  BY <1>7, <1>8, <1>9

\* A long is scaled.
LEMMA LongIsScaled ==
    ASSUME NEW v \in Int, Whole(v), NEW deci \in Scales, NEW n \in Merge("long", v, deci)
    PROVE  v \div 100 \in Int /\ v = 100 * (v \div 100) /\ n = (v \div 100) * deci
<1>1. v \div 100 \in Int /\ v = 100 * (v \div 100)
  BY DEF Whole
<1>2. n \in Int /\ Abs(100 * n - v * deci) <= 0
  BY MergeIsClose DEF Kinds, Written, MayLose
<1>3. deci \in {1, 10, 100}
  BY DEF Scales
<1>4. QED
  BY <1>1, <1>2, <1>3 DEF Abs

(* What the operations keep. *)

\* The number counts units of the factor's power, within what was lost.
Close(n, e, loss, pow) ==
    Abs(100 * n - e * <<1, Deci, Deci * Deci>>[pow + 1])
        <= 100 * loss * (IF pow = 2 THEN Deci ELSE 1)

NumbersIInv ==
    /\ big = [number |-> big.number, deci |-> big.deci, isNumber |-> big.isNumber]
    /\ big.number \in Int /\ big.deci \in Scales
    /\ exact \in Int /\ lossy \in Nat /\ power \in -1..2
    /\ power >= 0 => Close(big.number, exact, lossy, power)
    /\ power = 1 => big.deci = Deci \/ (big.number = 0 /\ exact = 0)

LEMMA OperandsAreWhole == Operands \subseteq Int /\ Deci \in Scales
<1>1. \A v \in Amounts : v \in Int /\ -v \in Int
  BY BigNumberAssumption
<1>2. QED
  BY <1>1, BigNumberAssumption DEF Operands, Scales

\* Of the same power.
LEMMA CloseIs ==
    ASSUME NEW n \in Int, NEW e \in Int, NEW loss \in Nat
    PROVE  /\ Close(n, e, loss, 0) <=> Abs(100 * n - e) <= 100 * loss
           /\ Close(n, e, loss, 1) <=> Abs(100 * n - e * Deci) <= 100 * loss
           /\ Close(n, e, loss, 2) <=>
                 Abs(100 * n - e * (Deci * Deci)) <= 100 * loss * Deci
<1>1. Deci \in {1, 10, 100}
  BY OperandsAreWhole DEF Scales
<1>2. /\ <<1, Deci, Deci * Deci>>[0 + 1] = 1
      /\ <<1, Deci, Deci * Deci>>[1 + 1] = Deci
      /\ <<1, Deci, Deci * Deci>>[2 + 1] = Deci * Deci
  OBVIOUS
<1>3. e * 1 = e /\ 100 * loss * 1 = 100 * loss
  OBVIOUS
<1>4. QED
  BY <1>2, <1>3 DEF Close

LEMMA NumbersStart == BigNumberInit => NumbersIInv
<1>1. Close(0, 0, 0, 1)
  BY CloseIs, OperandsAreWhole DEF Abs, Scales
<1>2. QED
  BY <1>1, OperandsAreWhole DEF BigNumberInit, NumbersIInv

LEMMA AssignKeeps ==
    ASSUME NumbersIInv, NEW kind \in Kinds, NEW v \in Operands, Assign(kind, v)
    PROVE  NumbersIInv'
<1>1. v \in Int /\ Deci \in Scales
  BY OperandsAreWhole
<1>2. Written(kind, v)
  BY DEF Assign
<1>3. PICK n \in Merge(kind, v, big.deci) :
          big' = [big EXCEPT !.number = n, !.isNumber = TRUE]
  BY DEF Assign
<1>4. /\ big = [number |-> big.number, deci |-> big.deci, isNumber |-> big.isNumber]
      /\ big.deci \in Scales
  BY DEF NumbersIInv
<1>5. n \in Int /\ Abs(100 * n - v * big.deci) <= 100 * MayLose(kind, v)
  BY <1>1, <1>2, <1>4, MergeIsClose
<1>6. big' = [number |-> n, deci |-> big.deci, isNumber |-> TRUE]
  BY <1>3, <1>4
<1>7. exact' = v /\ lossy' = MayLose(kind, v) /\ lossy' \in Nat
  BY DEF Assign, MayLose
<1>8. power' = IF big.deci = Deci THEN 1 ELSE -1
  BY DEF Assign
<1>9. power' >= 0 => Close(n, v, lossy', power')
  <2>1. SUFFICES ASSUME big.deci = Deci PROVE Close(n, v, lossy', 1)
    BY <1>8
  <2>2. QED
    BY <1>1, <1>5, <1>7, <2>1, CloseIs
<1>10. QED
  BY <1>1, <1>4, <1>5, <1>6, <1>7, <1>8, <1>9 DEF NumbersIInv

LEMMA AssignTextKeeps ==
    ASSUME NumbersIInv, AssignText
    PROVE  NumbersIInv'
<1>1. big = [number |-> big.number, deci |-> big.deci, isNumber |-> big.isNumber]
      /\ big.deci \in Scales
  BY DEF NumbersIInv
<1>2. big' = [number |-> 0, deci |-> big.deci, isNumber |-> FALSE]
  BY <1>1 DEF AssignText
<1>3. exact' = 0 /\ lossy' = 0 /\ power' = 1
  BY DEF AssignText
<1>4. Close(0, 0, 0, 1)
  BY CloseIs, OperandsAreWhole DEF Abs, Scales
<1>5. QED
  BY <1>1, <1>2, <1>3, <1>4 DEF NumbersIInv

LEMMA AddKeeps ==
    ASSUME NumbersIInv, NEW kind \in Kinds, NEW sign \in {1, -1}, NEW v \in Operands,
           Add(kind, sign, v)
    PROVE  NumbersIInv'
<1>1. v \in Int /\ Deci \in Scales /\ Deci \in {1, 10, 100}
  BY OperandsAreWhole DEF Scales
<1>2. Written(kind, v)
  BY DEF Add
<1>3. PICK n \in Merge(kind, v, Deci) : big' = Returned(big.number + sign * n)
  BY DEF Add, Plus
<1>4. n \in Int /\ Abs(100 * n - v * Deci) <= 100 * MayLose(kind, v)
  BY <1>1, <1>2, MergeIsClose
<1>5. PICK b, m : b = big.number /\ m = MayLose(kind, v)
  OBVIOUS
<1>6. b \in Int /\ exact \in Int /\ lossy \in Nat /\ m \in Nat
  BY <1>5 DEF NumbersIInv, MayLose
<1>7. big' = [number |-> b + sign * n, deci |-> Deci, isNumber |-> TRUE]
  BY <1>3, <1>5 DEF Returned
<1>8. exact' = exact + sign * v /\ lossy' = lossy + m
  BY <1>5 DEF Add
<1>9. power' = IF power = 1 THEN 1 ELSE -1
  BY DEF Add
<1>10. power' >= 0 => Close(b + sign * n, exact + sign * v, lossy + m, power')
  <2>1. SUFFICES ASSUME power = 1
                 PROVE  Close(b + sign * n, exact + sign * v, lossy + m, 1)
    BY <1>9
  <2>2. Close(b, exact, lossy, 1)
    BY <1>5, <2>1 DEF NumbersIInv
  <2>3. Abs(100 * b - exact * Deci) <= 100 * lossy
    BY <1>6, <2>2, CloseIs
  <2>4. Abs(100 * (b + sign * n) - (exact + sign * v) * Deci) <= 100 * (lossy + m)
    BY <1>1, <1>4, <1>5, <1>6, <2>3 DEF Abs
  <2>5. QED
    BY <1>1, <1>4, <1>6, <2>4, CloseIs
<1>11. QED
  BY <1>1, <1>4, <1>6, <1>7, <1>8, <1>9, <1>10 DEF NumbersIInv

LEMMA MultiplyKeeps ==
    ASSUME NumbersIInv, NEW v \in Operands, Multiply(v)
    PROVE  NumbersIInv'
<1>1. v \in Int /\ Deci \in Scales /\ Deci \in {1, 10, 100} /\ Whole(v)
  BY OperandsAreWhole DEF Scales, Multiply
<1>2. PICK n \in Merge("long", v, Deci) : big' = Returned(big.number * n)
  BY DEF Multiply, Times
<1>3. PICK k : k = v \div 100
  OBVIOUS
<1>4. k \in Int /\ n = k * Deci
  BY <1>1, <1>2, <1>3, LongIsScaled
<1>5. PICK b, e, l : b = big.number /\ e = exact /\ l = lossy
  OBVIOUS
<1>6. b \in Int /\ e \in Int /\ l \in Nat /\ Abs(k) \in Nat
  BY <1>4, <1>5 DEF NumbersIInv, Abs
<1>7. big' = [number |-> b * n, deci |-> Deci, isNumber |-> TRUE]
  BY <1>2, <1>5 DEF Returned
<1>8. exact' = e * k /\ lossy' = l * Abs(k)
  BY <1>3, <1>5 DEF Multiply
<1>9. power' = IF power = 1 THEN 2 ELSE -1
  BY DEF Multiply
<1>10. b * n \in Int /\ e * k \in Int /\ l * Abs(k) \in Nat
  BY <1>1, <1>4, <1>6
<1>11. power' >= 0 => Close(b * n, e * k, l * Abs(k), power')
  <2>1. SUFFICES ASSUME power = 1 PROVE Close(b * n, e * k, l * Abs(k), 2)
    BY <1>9
  <2>2. Abs(100 * b - e * Deci) <= 100 * l
    BY <1>5, <1>6, <2>1, CloseIs DEF NumbersIInv
  <2>3. PICK x, y : x = 100 * b - e * Deci /\ y = Abs(k)
    OBVIOUS
  <2>4. x \in Int /\ y \in Nat /\ Abs(x) \in Nat
    BY <1>1, <1>6, <2>3 DEF Abs
  <2>5. Abs(k * x) <= 100 * (l * y)
    <3>1. Abs(k * x) = y * Abs(x)
      BY <1>4, <2>3, <2>4, ProductOfAbs
    <3>2. Abs(x) * y <= (100 * l) * y
      BY <1>6, <2>2, <2>3, <2>4, ProductGrows
    <3>3. QED
      BY <1>6, <2>4, <3>1, <3>2
  <2>6. 100 * (b * n) - (e * k) * (Deci * Deci) = (k * x) * Deci
    BY <1>1, <1>4, <1>6, <2>3
  <2>7. Abs((k * x) * Deci) = Abs(k * x) * Deci
    BY <1>1, <1>4, <2>4 DEF Abs
  <2>8. Abs((k * x) * Deci) <= 100 * (l * y) * Deci
    <3>1. PICK z, w : z = k * x /\ w = l * y
      OBVIOUS
    <3>2. z \in Int /\ w \in Nat
      BY <1>4, <1>6, <2>4, <3>1
    <3>3. QED
      BY <1>1, <2>5, <3>1, <3>2 DEF Abs
  <2>9. QED
    BY <1>10, <2>3, <2>6, <2>8, CloseIs
<1>12. QED
  BY <1>1, <1>7, <1>8, <1>9, <1>10, <1>11 DEF NumbersIInv

(* Both rests have the sign of what is divided, so they differ by less than one; or *)
(* the signs differ, and both are part of what was lost.                      *)
LEMMA QuotientIsClose ==
    ASSUME NEW b \in Int, NEW e \in Int, NEW l \in Nat, NEW k \in Int, k # 0,
           NEW d \in Scales, NEW f \in {1, d},
           Abs(100 * b - e * (f * d)) <= 100 * l * f
    PROVE  Abs(100 * Quotient(b, k * d) - Quotient(e, k) * f) <= 100 * (l + 1)
<1>1. d \in {1, 10, 100} /\ f \in {1, 10, 100} /\ f <= d
  BY DEF Scales
<1>2. PICK m : m = k * d
  OBVIOUS
<1>3. m \in Int /\ m # 0 /\ Abs(m) = Abs(k) * d /\ Abs(m) \in Nat
  BY <1>1, <1>2 DEF Abs
<1>4. PICK p, r : p = Quotient(b, m) /\ r = Remainder(b, m)
  OBVIOUS
<1>5. PICK q, s : q = Quotient(e, k) /\ s = Remainder(e, k)
  OBVIOUS
<1>6. Divided(b, m, p, r) /\ Divided(e, k, q, s)
  BY <1>3, <1>4, <1>5, QuotientDivides
<1>7. PICK x : x = 100 * p - q * f
  OBVIOUS
<1>8. /\ p \in Int /\ q \in Int /\ r \in Int /\ s \in Int /\ x \in Int
      /\ b = m * p + r /\ e = k * q + s
  BY <1>1, <1>6, <1>7 DEF Divided
<1>9. m * x = 100 * (m * p) - (k * q) * (f * d)
  BY <1>1, <1>2, <1>7, <1>8
<1>10. PICK y, z, c : y = m * p /\ z = k * q /\ c = Abs(k)
  OBVIOUS
<1>11. /\ y \in Int /\ z \in Int /\ c \in Nat /\ c >= 1 /\ b = y + r /\ e = z + s
       /\ Abs(r) < c * d /\ Abs(s) < c
       /\ b >= 0 => r >= 0 /\ y >= 0
       /\ b <= 0 => r <= 0 /\ y <= 0
       /\ e >= 0 => s >= 0 /\ z >= 0
       /\ e <= 0 => s <= 0 /\ z <= 0
  <2>1. y \in Int /\ z \in Int /\ c \in Nat /\ c >= 1
    BY <1>3, <1>8, <1>10 DEF Abs
  <2>2. QED
    BY <1>3, <1>6, <1>8, <1>10, <2>1 DEF Divided
<1>12. Abs(100 * y - z * (f * d)) <= 100 * l * f + 100 * (c * d)
  <2>1. PICK j, v : j = f * d /\ v = 100 * l * f
    OBVIOUS
  <2>2. j \in Nat /\ j >= 1 /\ j <= 100 * d /\ v \in Nat /\ c * d \in Nat
    BY <1>1, <1>11, <2>1
  <2>3. PICK yy, zz, g, h : yy = z * j /\ zz = s * j /\ g = 100 * y - yy /\ h = 100 * r - zz
    OBVIOUS
  <2>4. yy \in Int /\ zz \in Int /\ g \in Int /\ h \in Int
    BY <1>8, <1>11, <2>2, <2>3
  <2>5. Abs(g + h) <= v
    BY <1>1, <1>8, <1>11, <2>1, <2>2, <2>3
  <2>6. /\ s >= 0 => zz >= 0
        /\ s <= 0 => zz <= 0
        /\ z >= 0 => yy >= 0
        /\ z <= 0 => yy <= 0
    BY <1>8, <1>11, <2>2, <2>3
  <2>7. Abs(zz) <= 100 * (c * d) /\ Abs(100 * r) <= 100 * (c * d)
    <3>1. Abs(zz) = Abs(s) * j /\ Abs(s) \in Nat
      BY <1>8, <2>2, <2>3, ProductOfAbs DEF Abs
    <3>2. j * Abs(s) <= (100 * d) * Abs(s)
      BY <1>1, <2>2, <3>1, ProductGrows
    <3>3. Abs(s) * d <= c * d
      BY <1>1, <1>11, <3>1, ProductGrows
    <3>4. (100 * d) * Abs(s) = 100 * (Abs(s) * d) /\ Abs(s) * d \in Nat
      BY <1>1, <3>1
    <3>5. Abs(s) * j = j * Abs(s) /\ j * Abs(s) \in Nat
      BY <2>2, <3>1
    <3>6. Abs(100 * r) <= 100 * (c * d)
      BY <1>8, <1>11, <2>2 DEF Abs
    <3>7. QED
      BY <2>2, <3>1, <3>2, <3>3, <3>4, <3>5, <3>6
  <2>8. Abs(g) <= v + 100 * (c * d)
    <3>1. PICK o, n : o = 100 * (c * d) /\ n = 100 * r
      OBVIOUS
    <3>2. /\ o \in Nat /\ n \in Int /\ h = n - zz /\ Abs(zz) <= o /\ Abs(n) <= o
          /\ r >= 0 => n >= 0
          /\ r <= 0 => n <= 0
      BY <1>8, <2>2, <2>3, <2>7, <3>1
    <3>3. CASE (b >= 0 /\ e >= 0) \/ (b <= 0 /\ e <= 0)
      <4>1. Abs(h) <= o
        BY <1>8, <1>11, <2>4, <2>6, <3>2, <3>3 DEF Abs
      <4>2. QED
        BY <2>2, <2>4, <2>5, <3>1, <3>2, <4>1 DEF Abs
    <3>4. CASE (b >= 0 /\ e <= 0) \/ (b <= 0 /\ e >= 0)
      <4>1. (g >= 0 /\ h >= 0) \/ (g <= 0 /\ h <= 0)
        BY <1>8, <1>11, <2>3, <2>4, <2>6, <3>2, <3>4
      <4>2. QED
        BY <2>2, <2>4, <2>5, <3>1, <3>2, <4>1 DEF Abs
    <3>5. QED
      BY <3>3, <3>4
  <2>9. QED
    BY <2>1, <2>3, <2>8
<1>13. l * f <= Abs(m) * l
  <2>1. f <= Abs(m) /\ f \in Nat
    BY <1>1, <1>3, <1>10, <1>11
  <2>2. f * l <= Abs(m) * l
    BY <1>3, <2>1, ProductGrows
  <2>3. QED
    BY <1>1, <2>2
<1>14. Abs(m * x) <= Abs(m) * (100 * (l + 1))
  <2>1. Abs(m * x) <= 100 * (l * f) + 100 * Abs(m)
    BY <1>1, <1>3, <1>9, <1>10, <1>12
  <2>2. PICK u, w : u = Abs(m) /\ w = u * l
    OBVIOUS
  <2>3. u \in Nat /\ w \in Nat /\ u * (100 * (l + 1)) = 100 * w + 100 * u
    BY <1>3, <2>2
  <2>4. Abs(m * x) \in Int /\ l * f \in Int
    BY <1>1, <1>3, <1>8 DEF Abs
  <2>5. QED
    BY <1>13, <2>1, <2>2, <2>3, <2>4
<1>15. Abs(x) <= 100 * (l + 1)
  BY <1>3, <1>8, <1>14, Cancelled
<1>16. QED
  BY <1>2, <1>4, <1>5, <1>7, <1>15

LEMMA DivideKeeps ==
    ASSUME NumbersIInv, NEW v \in Operands, Divide(v)
    PROVE  NumbersIInv'
<1>1. v \in Int /\ v # 0 /\ Deci \in Scales /\ Deci \in {1, 10, 100} /\ Whole(v)
  BY OperandsAreWhole DEF Scales, Divide
<1>2. PICK n \in Merge("long", v, Deci) : big' = Returned(Quotient(big.number, n))
  BY DEF Divide
<1>3. PICK k : k = v \div 100
  OBVIOUS
<1>4. k \in Int /\ n = k * Deci /\ v = 100 * k
  BY <1>1, <1>2, <1>3, LongIsScaled
<1>5. k # 0 /\ k * Deci # 0 /\ k * Deci \in Int
  BY <1>1, <1>4
<1>6. PICK b, e, l : b = big.number /\ e = exact /\ l = lossy
  OBVIOUS
<1>7. b \in Int /\ e \in Int /\ l \in Nat /\ power \in -1..2
  BY <1>6 DEF NumbersIInv
<1>8. PICK p, q : p = Quotient(b, k * Deci) /\ q = Quotient(e, k)
  OBVIOUS
<1>9. p \in Int /\ q \in Int
  BY <1>4, <1>5, <1>7, <1>8, QuotientDivides DEF Divided
<1>10. big' = [number |-> p, deci |-> Deci, isNumber |-> TRUE]
  BY <1>2, <1>4, <1>6, <1>8 DEF Returned
<1>11. exact' = q /\ lossy' = l + 1
  BY <1>3, <1>6, <1>8 DEF Divide
<1>12. power' = IF power > 0 THEN power - 1 ELSE -1
  BY DEF Divide
<1>13. CASE power = 1
  <2>1. Abs(100 * b - e * Deci) <= 100 * l
    BY <1>6, <1>7, <1>13, CloseIs DEF NumbersIInv
  <2>2. 1 * Deci = Deci /\ 100 * l * 1 = 100 * l /\ q * 1 = q
    BY <1>1, <1>7, <1>9
  <2>3. Abs(100 * b - e * (1 * Deci)) <= 100 * l * 1
    BY <2>1, <2>2
  <2>4. Abs(100 * p - q * 1) <= 100 * (l + 1)
    BY <1>1, <1>4, <1>5, <1>7, <1>8, <2>3, QuotientIsClose
  <2>5. Close(p, q, l + 1, 0)
    BY <1>7, <1>9, <2>2, <2>4, CloseIs
  <2>6. QED
    BY <1>1, <1>7, <1>9, <1>10, <1>11, <1>12, <1>13, <2>5 DEF NumbersIInv
<1>14. CASE power = 2
  <2>1. Abs(100 * b - e * (Deci * Deci)) <= 100 * l * Deci
    BY <1>6, <1>7, <1>14, CloseIs DEF NumbersIInv
  <2>2. Abs(100 * p - q * Deci) <= 100 * (l + 1)
    <3>1. Deci \in {1, Deci}
      OBVIOUS
    <3>2. Abs(100 * Quotient(b, k * Deci) - Quotient(e, k) * Deci) <= 100 * (l + 1)
      <4>1. b \in Int /\ e \in Int /\ l \in Nat
        BY <1>7
      <4>2. k \in Int /\ k # 0 /\ Deci \in Scales
        BY <1>1, <1>4, <1>5
      <4>3. QED
        BY ONLY <2>1, <3>1, <4>1, <4>2, QuotientIsClose, ZenonT(60)
    <3>3. QED
      BY <1>8, <3>2
  <2>3. Close(p, q, l + 1, 1)
    BY <1>7, <1>9, <2>2, CloseIs
  <2>4. QED
    BY <1>1, <1>7, <1>9, <1>10, <1>11, <1>12, <1>14, <2>3 DEF NumbersIInv
<1>15. CASE power <= 0
  BY <1>1, <1>7, <1>9, <1>10, <1>11, <1>12, <1>15 DEF NumbersIInv
<1>16. QED
  BY <1>7, <1>13, <1>14, <1>15

\* What is exact, in hundredths and in units, divides alike.
LEMMA ExactDivides ==
    ASSUME NEW b \in Int, NEW e \in Int, NEW k \in Int, k # 0, NEW d \in Scales,
           100 * b = e * d, NEW m, NEW c, m = k * d, c = 100 * k
    PROVE  /\ Quotient(b, m) = Quotient(e, c)
           /\ 100 * Remainder(b, m) = Remainder(e, c) * d
           /\ Remainder(b, m) \in Int /\ Remainder(e, c) \in Int
<1>1. d \in {1, 10, 100}
  BY DEF Scales
<1>2. m = k * d /\ c = 100 * k
  OBVIOUS
<1>3. m \in Int /\ c \in Int /\ m # 0 /\ c # 0
  BY <1>1, <1>2
<1>4. PICK q, r : q = Quotient(b, m) /\ r = Remainder(b, m)
  OBVIOUS
<1>5. Divided(b, m, q, r)
  BY <1>3, <1>4, QuotientDivides
<1>6. PICK t : t = IF d = 1 THEN 100 * r ELSE IF d = 10 THEN 10 * r ELSE r
  OBVIOUS
<1>7. PICK y, z : y = m * q /\ z = k * q
  OBVIOUS
<1>8. /\ q \in Int /\ r \in Int /\ b = y + r /\ Abs(r) < Abs(m) /\ y \in Int /\ z \in Int
      /\ b >= 0 => r >= 0 /\ y >= 0
      /\ b <= 0 => r <= 0 /\ y <= 0
  BY <1>3, <1>5, <1>7 DEF Divided
<1>9. y = z * d /\ c * q = 100 * z
  BY <1>1, <1>2, <1>7, <1>8
<1>10. Divided(e, c, q, t)
  <2>1. t \in Int /\ 100 * r = t * d
    BY <1>1, <1>6, <1>8
  <2>2. e = 100 * z + t
    BY <1>1, <1>8, <1>9, <2>1
  <2>3. Abs(t) < Abs(c)
    BY <1>1, <1>2, <1>6, <1>8 DEF Abs
  <2>4. /\ e >= 0 => t >= 0 /\ z >= 0
        /\ e <= 0 => t <= 0 /\ z <= 0
    BY <1>1, <1>6, <1>8, <1>9
  <2>5. QED
    BY <1>8, <1>9, <2>1, <2>2, <2>3, <2>4 DEF Divided
<1>11. Quotient(e, c) = q /\ Remainder(e, c) = t
  BY <1>3, <1>10, QuotientIsOne
<1>12. 100 * r = t * d /\ t \in Int
  BY <1>1, <1>6, <1>8
<1>13. QED
  BY <1>2, <1>4, <1>8, <1>11, <1>12

LEMMA ModuloKeeps ==
    ASSUME NumbersIInv, NEW v \in Operands, Modulo(v)
    PROVE  NumbersIInv'
<1>1. v \in Int /\ v # 0 /\ Deci \in Scales /\ Deci \in {1, 10, 100} /\ Whole(v)
  BY OperandsAreWhole DEF Scales, Modulo
<1>2. PICK n \in Merge("long", v, Deci) : big' = Returned(Remainder(big.number, n))
  BY DEF Modulo
<1>3. PICK k : k = v \div 100
  OBVIOUS
<1>4. k \in Int /\ n = k * Deci /\ v = 100 * k
  BY <1>1, <1>2, <1>3, LongIsScaled
<1>5. k # 0 /\ k * Deci # 0 /\ k * Deci \in Int
  BY <1>1, <1>4
<1>6. PICK b, e, l : b = big.number /\ e = exact /\ l = lossy
  OBVIOUS
<1>7. b \in Int /\ e \in Int /\ l \in Nat
  BY <1>6 DEF NumbersIInv
<1>8. PICK r, t : r = Remainder(b, k * Deci) /\ t = Remainder(e, v)
  OBVIOUS
<1>9. r \in Int /\ t \in Int
  BY <1>1, <1>5, <1>7, <1>8, QuotientDivides DEF Divided
<1>10. big' = [number |-> r, deci |-> Deci, isNumber |-> TRUE]
  BY <1>2, <1>4, <1>6, <1>8 DEF Returned
<1>11. exact' = t /\ lossy' = l
  BY <1>6, <1>8 DEF Modulo
<1>12. power' = IF power = 1 /\ lossy = 0 THEN 1 ELSE -1
  BY DEF Modulo
<1>13. ASSUME power = 1, l = 0 PROVE Close(r, t, l, 1)
  <2>1. Abs(100 * b - e * Deci) <= 0
    BY <1>6, <1>7, <1>13, CloseIs DEF NumbersIInv
  <2>2. 100 * b = e * Deci
    BY <1>1, <1>7, <2>1 DEF Abs
  <2>3. 100 * r = t * Deci
    <3>1. PICK d, m, c : d = Deci /\ m = k * d /\ c = 100 * k
      OBVIOUS
    <3>2. d \in Scales /\ b \in Int /\ e \in Int /\ k \in Int /\ k # 0 /\ 100 * b = e * d
      BY <1>1, <1>4, <1>5, <1>7, <2>2, <3>1
    <3>3. 100 * Remainder(b, m) = Remainder(e, c) * d
      BY ONLY <3>1, <3>2, ExactDivides
    <3>4. r = Remainder(b, m) /\ t = Remainder(e, c)
      BY <1>4, <1>8, <3>1
    <3>5. QED
      BY <3>1, <3>3, <3>4
  <2>4. Abs(100 * r - t * Deci) <= 100 * l
    BY <1>1, <1>9, <1>13, <2>3 DEF Abs
  <2>5. QED
    BY <1>7, <1>9, <2>4, CloseIs
<1>14. QED
  BY <1>1, <1>6, <1>7, <1>9, <1>10, <1>11, <1>12, <1>13 DEF NumbersIInv

LEMMA SetScaleKeeps ==
    ASSUME NumbersIInv, NEW deci \in Scales, SetScale(deci)
    PROVE  NumbersIInv'
<1>1. big' = [number |-> big.number, deci |-> deci, isNumber |-> big.isNumber]
  BY DEF NumbersIInv, SetScale
<1>2. exact' = exact /\ lossy' = lossy
  BY DEF SetScale
<1>3. power' = IF big.number = 0 /\ exact = 0 THEN power ELSE -1
  BY DEF SetScale
<1>4. QED
  BY <1>1, <1>2, <1>3 DEF NumbersIInv

LEMMA NumbersStep ==
    ASSUME NumbersIInv, [BigNumberNext]_bigVars
    PROVE  NumbersIInv'
<1>1. CASE UNCHANGED bigVars
  BY <1>1 DEF bigVars, NumbersIInv, Close
<1>2. ASSUME NEW v \in Operands, NEW kind \in Kinds, Assign(kind, v) PROVE NumbersIInv'
  BY <1>2, AssignKeeps
<1>3. ASSUME NEW v \in Operands, NEW kind \in Kinds, NEW sign \in {1, -1},
             Add(kind, sign, v)
      PROVE  NumbersIInv'
  BY <1>3, AddKeeps
<1>4. ASSUME NEW v \in Operands, Multiply(v) PROVE NumbersIInv'
  BY <1>4, MultiplyKeeps
<1>5. ASSUME NEW v \in Operands, Divide(v) PROVE NumbersIInv'
  BY <1>5, DivideKeeps
<1>6. ASSUME NEW v \in Operands, Modulo(v) PROVE NumbersIInv'
  BY <1>6, ModuloKeeps
<1>7. CASE AssignText
  BY <1>7, AssignTextKeeps
<1>8. ASSUME NEW deci \in Scales, SetScale(deci) PROVE NumbersIInv'
  BY <1>8, SetScaleKeeps
<1>9. QED
  BY <1>1, <1>2, <1>3, <1>4, <1>5, <1>6, <1>7, <1>8 DEF BigNumberNext, Scales

LEMMA ExactIsRead ==
    ASSUME NumbersIInv
    PROVE  NumbersInv
<1>1. Deci \in Scales /\ Deci \in {1, 10, 100} /\ Operands \subseteq Int
  BY OperandsAreWhole DEF Scales
<1>2. PICK b, e, l : b = big.number /\ e = exact /\ l = lossy
  OBVIOUS
<1>3. b \in Int /\ e \in Int /\ l \in Nat /\ big.deci \in Scales
  BY <1>2 DEF NumbersIInv
<1>4. StaysClose
  BY <1>2 DEF StaysClose, Close, NumbersIInv
<1>5. ASSUME power = 1, lossy = 0 PROVE 100 * b = e * Deci
  <2>1. Abs(100 * b - e * Deci) <= 0
    BY <1>2, <1>3, <1>5, CloseIs DEF NumbersIInv
  <2>2. QED
    BY <1>1, <1>3, <2>1 DEF Abs
<1>6. ASSUME power = 1, lossy = 0, big.isNumber
      PROVE  Int64Value = Quotient(exact, 100)
  <2>1. PICK d : d = big.deci
    OBVIOUS
  <2>2. d \in {1, 10, 100} /\ 1 * d = d /\ 100 * 1 = 100
    BY <1>3, <2>1 DEF Scales
  <2>3. 100 * b = e * d
    <3>1. CASE d = Deci
      BY <1>5, <1>6, <3>1
    <3>2. CASE b = 0 /\ e = 0
      BY <2>2, <3>2
    <3>3. QED
      BY <1>2, <1>6, <2>1, <3>1, <3>2 DEF NumbersIInv
  <2>4. Quotient(b, d) = Quotient(e, 100)
    <3>1. PICK k : k = 1
      OBVIOUS
    <3>2. d = k * d /\ 100 = 100 * k /\ k \in Int /\ k # 0
      BY <1>3, <2>1, <3>1 DEF Scales
    <3>3. b \in Int /\ e \in Int /\ d \in Scales /\ 100 * b = e * d
      BY <1>3, <2>1, <2>3
    <3>4. QED
      BY ONLY <3>2, <3>3, ExactDivides
  <2>5. QED
    BY <1>2, <1>6, <2>1, <2>2, <2>4 DEF Int64Value
<1>7. ASSUME power = 1, lossy = 0, NEW kind \in Kinds \ {"long"}, NEW v \in Operands,
             Whole(v), NEW n \in Compared(kind, v)
      PROVE  (big.number < n) = (exact < v) /\ (big.number = n) = (exact = v)
  <2>1. n \in Merge(kind, v, Deci) /\ v \in Int
    BY <1>1, <1>7 DEF Compared
  <2>2. n \in Int /\ Abs(100 * n - v * Deci) <= 0
    BY <1>1, <1>7, <2>1, MergeIsClose DEF Written, MayLose
  <2>3. 100 * n = v * Deci
    BY <1>1, <2>1, <2>2 DEF Abs
  <2>4. /\ b < n <=> e < v
        /\ b = n <=> e = v
    BY <1>1, <1>3, <1>5, <1>7, <2>1, <2>2, <2>3
  <2>5. QED
    BY <1>2, <1>3, <2>1, <2>2, <2>4
<1>8. ReadsExactly
  BY <1>6, <1>7 DEF ReadsExactly
<1>9. QED
  BY <1>4, <1>8 DEF NumbersInv

\* BigNumber.cpp, whatever the amounts and the default scale, over any number of
\* operations of any kind: sums and differences stay within a unit per operand that
\* was not exact, products and quotients within what their factors make of it, though
\* operator*= and operator/= multiply and divide the scales too; and of a number that
\* is exact, Int64Value() and the comparisons read what it stands for.
THEOREM NumbersStayClose == BigNumberSpec => []NumbersInv
<1>1. BigNumberInit => NumbersIInv
  BY NumbersStart
<1>2. NumbersIInv /\ [BigNumberNext]_bigVars => NumbersIInv'
  BY NumbersStep
<1>3. NumbersIInv => NumbersInv
  BY ExactIsRead
<1>4. QED
  BY <1>1, <1>2, <1>3, PTL DEF BigNumberSpec
-----------------------------------------------------------------------------

(* Arrays and numbers, next to each other. *)

LEMMA ValuesStep ==
    RingInv /\ NumbersIInv /\ [Next]_vars => RingInv' /\ NumbersIInv'
<1>1. SUFFICES ASSUME RingInv, NumbersIInv, [Next]_vars
               PROVE  RingInv' /\ NumbersIInv'
  OBVIOUS
<1>2. [Next]_vars => [ArraysNext]_arraysVars /\ [BigNumberNext]_bigVars
  BY Zenon DEF Next, Others, vars
<1>3. QED
  BY <1>1, <1>2, RingNext, NumbersStep

\* What a script or a feed puts away is what it gets back, for any values, lengths,
\* amounts and scales: the array it added to (RingLoop.cpp, math.cpp) and the number it
\* computed with (BigNumber.cpp), while the other parts of the process go on.
THEOREM ValuesAreRight == Spec => []ValuesInv
<1>1. Init => RingInv /\ NumbersIInv
  BY RingInit, NumbersStart DEF Init
<1>2. RingInv /\ NumbersIInv /\ [Next]_vars => RingInv' /\ NumbersIInv'
  BY ValuesStep
<1>3. RingInv /\ NumbersIInv => ValuesInv
  BY RingIsRead, ExactIsRead DEF ValuesInv
<1>4. QED
  BY <1>1, <1>2, <1>3, PTL DEF Spec

=============================================================================
