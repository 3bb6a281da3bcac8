------------------------------ MODULE Storage ------------------------------
(****************************************************************************)
(* The memory of a process: Silkworm hands out ranges of arenas to the rings *)
(* (SilkPermit) of buses and bars, and takes them back.  Each arena keeps an *)
(* await_list of free ranges; the arenas are the nodes of a BinTree, found   *)
(* by their number.                                                         *)
(*                                                                          *)
(* A permit keeps the place of its range in the await_list (index), and      *)
(* release() takes that for the number of the arena.                        *)
(****************************************************************************)
EXTENDS Integers, Sequences, FiniteSets

CONSTANTS Permits,      \* rings that may be live at once
          Total,        \* _rows * _columns: elements of an arena
          Needs,        \* row * column of the requests
          Nodes,        \* capacity of the BinTree, 2^N - 1
          NoPermit      \* no ring

ASSUME StorageAssumption ==
    /\ Total \in Nat \ {0} /\ Nodes \in Nat \ {0}
    /\ Needs \subseteq 1..Total      \* asserted by BuildMulbeery()

VARIABLES silk,         \* await_list of each arena, arena n at n + 1
          mulberry      \* of each ring: where its range is

storageVars == <<silk, mulberry>>

Span(f, o) == [first |-> f, second |-> o]

\* addOneBinTree()
Fresh == <<Span(0, Total)>>

StorageInit ==
    /\ silk = <<Fresh>>
    /\ mulberry = [p \in Permits |-> NoPermit]

_current_id == Len(silk) - 1

-----------------------------------------------------------------------------
(* make_share(): BuildMulbeery(), ranking(). *)

\* The first of the smallest ranges that are large enough.
Fits(list, need, n) ==
    /\ list[n].second >= need
    /\ \A k \in DOMAIN list :
          list[k].second >= need =>
             \/ list[n].second < list[k].second
             \/ list[n].second = list[k].second /\ n <= k

\* The range is cut off at its front.
Carve(list, n, need) ==
    [list EXCEPT ![n] = Span(list[n].first + need, list[n].second - need)]

Mulberry(arena, n, first, need) ==
    [arena |-> arena, index |-> n - 1, first |-> first, offset |-> need]

\* A slip: the search starts with the first arena.
RankingFromFirst(p, need) ==
    \E a \in DOMAIN silk : \E n \in DOMAIN silk[a] :
        /\ Fits(silk[a], need, n)
        /\ \A b \in 1..a - 1 : \A k \in DOMAIN silk[b] : ~Fits(silk[b], need, k)
        /\ silk' = [silk EXCEPT ![a] = Carve(@, n, need)]
        /\ mulberry' = [mulberry EXCEPT
              ![p] = Mulberry(a - 1, n, silk[a][n].first, need)]

\* Only the newest arena is searched: start_id is _current_id.
Ranking(p, need) ==
    LET a == Len(silk)
    IN  \E n \in DOMAIN silk[a] :
          /\ Fits(silk[a], need, n)
          /\ silk' = [silk EXCEPT ![a] = Carve(@, n, need)]
          /\ mulberry' = [mulberry EXCEPT
                ![p] = Mulberry(a - 1, n, silk[a][n].first, need)]

\* None fits: the next arena (the BinTree takes Nodes of them).
RankingNew(p, need) ==
    /\ \A n \in DOMAIN silk[Len(silk)] : ~Fits(silk[Len(silk)], need, n)
    /\ Len(silk) < Nodes
    /\ silk' = Append(silk, Carve(Fresh, 1, need))
    /\ mulberry' = [mulberry EXCEPT ![p] = Mulberry(Len(silk), 1, 0, need)]

MakeShare(p) ==
    /\ mulberry[p] = NoPermit
    /\ \E need \in Needs : Ranking(p, need) \/ RankingNew(p, need)

-----------------------------------------------------------------------------
(* ~SilkPermit(): released(), release(). *)

Touches(free, m) ==
    /\ free.second # 0
    /\ \/ m.first = free.first + free.second
       \/ m.first + m.offset = free.first

Touched(list, m) == {n \in DOMAIN list : Touches(list[n], m)}
FirstTouched(list, m) ==
    CHOOSE n \in Touched(list, m) : \A k \in Touched(list, m) : n <= k

\* The list entry that grows: entries without elements are not counted.
Entry(list, n) == 1 + Cardinality({k \in 1..n - 1 : list[k].second # 0})

\* A slip: the inner m is tested, the range is appended.
Appended(list, m) == Append(list, Span(m.first, m.offset))

\* A range that touches a free one joins it.  Another one is lost: the entry it
\* would take is looked for only among those without elements, and only if
\* there is none; nor is it appended (the m that is tested is the outer one).
Joined(list, m) ==
    IF Touched(list, m) = {} THEN list
    ELSE LET n == FirstTouched(list, m)
             e == Entry(list, n)
         IN  [list EXCEPT ![e] =
                Span(IF m.first = list[n].first + list[n].second
                      THEN list[e].first ELSE m.first,
                      list[e].second + m.offset)]

\* The arena that gets it is the one whose number is index.
Release(p) ==
    LET m == mulberry[p] IN
    /\ m # NoPermit
    /\ mulberry' = [mulberry EXCEPT ![p] = NoPermit]
    /\ IF m.index + 1 \in DOMAIN silk
       THEN silk' = [silk EXCEPT ![m.index + 1] = Joined(@, m)]
       ELSE UNCHANGED silk

StorageNext == \E p \in Permits : MakeShare(p) \/ Release(p)

StorageSpec == StorageInit /\ [][StorageNext]_storageVars

-----------------------------------------------------------------------------
(* Properties. *)

Live == {p \in Permits : mulberry[p] # NoPermit}

\* Types.  An await_list never gets a second entry, so index is always 0.
StorageTypeOK ==
    /\ \A a \in DOMAIN silk :
          silk[a] \in [{1} -> [first : Nat, second : Nat]]
    /\ \A p \in Live : mulberry[p] \in
          [arena : 0.._current_id, index : {0}, first : 0..Total, offset : Needs]

\* No element is handed out twice and none beyond its arena, although ranges
\* come back into the list of the wrong arena: that one is never searched
\* again.
NeverShared ==
    /\ \A p \in Live : mulberry[p].first + mulberry[p].offset <= Total
    /\ \A p, q \in Live :
          p # q /\ mulberry[p].arena = mulberry[q].arena =>
             \/ mulberry[p].first + mulberry[p].offset <= mulberry[q].first
             \/ mulberry[q].first + mulberry[q].offset <= mulberry[p].first
=============================================================================
