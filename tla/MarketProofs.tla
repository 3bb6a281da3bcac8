---------------------------- MODULE MarketProofs ----------------------------
(***************************************************************************)
(* The order lists and the matching of a market, for any prices,           *)
(* quantities, tickets and days.                                           *)
(*                                                                         *)
(* The invariant has layers, each kept by every step.  StateInv gives the  *)
(* orders, the quote and the threads their types; Adds makes what an order *)
(* executed and what it leaves its quantity.  ListInv says what a list     *)
(* is: no ticket twice, each in its side's list until it is cancelled,     *)
(* nothing behind an empty level or the tail, a filled order at the head.  *)
(* SortInv adds the order of the levels when no external deal cancels      *)
(* orders behind the matcher's back.  DayInv and CountInv follow the day   *)
(* and the executions of a round.  The lists are reasoned about level by   *)
(* level and position by position: what shift_out, an arrival at a level   *)
(* and an arrival between two do is three lemmas, and every property of    *)
(* the lists is derived from those.                                        *)
(***************************************************************************)
EXTENDS Market, SequenceTheorems, Arithmetic

\* A list, read by level and position.
ListShape == [levels : Seq(Seq(Nat)), tail : Nat]

Shaped(l) == l \in ListShape /\ l.tail \in DOMAIN l.levels

\* No ticket stands twice.
Distinct(ls) ==
    \A i, k \in DOMAIN ls : \A j \in DOMAIN ls[i], m \in DOMAIN ls[k] :
        ls[i][j] = ls[k][m] => i = k /\ j = m

Holds(ls, t) == \E i \in DOMAIN ls : \E j \in DOMAIN ls[i] : ls[i][j] = t

\* A level has one price, the older tickets first; it is better than all the
\* levels after it.
Sorted(ls, os) ==
    \A i, k \in DOMAIN ls : \A j \in DOMAIN ls[i], m \in DOMAIN ls[k] :
        /\ i < k => Better(os[ls[i][j]], os[ls[k][m]])
        /\ i = k => os[ls[i][j]].price = os[ls[k][m]].price
        /\ i = k /\ j < m => ls[i][j] < ls[k][m]

\* Nothing stands behind an empty level or behind the tail.
Packed(l) ==
    /\ \A i, k \in DOMAIN l.levels :
          i < k /\ l.levels[i] = <<>> => l.levels[k] = <<>>
    /\ \A i \in DOMAIN l.levels : l.tail < i => l.levels[i] = <<>>

\* A filled order is at the head, and alone unless the loop is on.
HeadOnly(ls, os, looping) ==
    \A i \in DOMAIN ls : \A j \in DOMAIN ls[i] :
        Filled(os[ls[i][j]]) =>
            /\ i = 1 /\ j = 1
            /\ looping \/ \A k \in DOMAIN ls : \A m \in DOMAIN ls[k] : k = 1 /\ m = 1

OfSide(ls, os, s) ==
    \A i \in DOMAIN ls : \A j \in DOMAIN ls[i] :
        ls[i][j] \in DOMAIN os /\ os[ls[i][j]].side = s

\* The lists hold the tickets of their sides, every live one.
ListInv ==
    /\ list \in [Sides -> ListShape]
    /\ \A s \in Sides :
          Shaped(list[s]) /\ Distinct(list[s].levels)
          /\ OfSide(list[s].levels, orders, s)
    /\ \A t \in Live : Holds(list[orders[t].side].levels, t)

\* Without external deals the lists are sorted, too.
SortInv ==
    mode # "external" =>
        \A s \in Sides :
            /\ Sorted(list[s].levels, orders) /\ Packed(list[s])
            /\ HeadOnly(list[s].levels, orders, round.pc = "match")

\* The types of all but the lists, and what a thread may rely on.
Rounds ==
    {Idle} \cup [pc : {"ready", "match"}, price : Prices \cup {0},
                 day : 1 .. MaxDay, quote : QuoteRecord \cup {None}]

Intakes ==
    {Idle} \cup [pc : {"bot", "order"}, side : Sides, kind : Kinds \cup {"stop"},
                 price : Prices, quantity : Nat \ {0}, closes : 0 .. MaxTickets,
                 day : 1 .. MaxDay]

Adds(o) == o.open # 0 => o.executed + o.leaves = o.quantity

OrdersInv ==
    orders \in Seq(Order) /\ Len(orders) <= MaxTickets /\ \A t \in Tickets : Adds(orders[t])

QuotesInv ==
    /\ stock \in QuoteRecord \cup {None} /\ bus \in QuoteRecord \cup {None}
    /\ pre \in QuoteRecord \cup {None}
    /\ today \in 1 .. MaxDay /\ mode \in Modes

IntakeInv ==
    /\ intake \in Intakes
    /\ intake.pc = "bot" => Len(orders) + 2 <= MaxTickets
    /\ intake.pc = "order" => Len(orders) + 1 <= MaxTickets
    /\ intake.pc # "idle" => stock # None

StateInv == OrdersInv /\ QuotesInv /\ round \in Rounds /\ IntakeInv

\* How the days of quotes, orders and rounds follow each other.
DayInv ==
    /\ Tickets # {} \/ intake.pc # "idle" => stock # None
    /\ stock # None => stock.day <= today
    /\ \A t \in Tickets : orders[t].day <= stock.day
    /\ intake.pc # "idle" => intake.day <= stock.day
    /\ bus # None => bus.day = today
    /\ pre # None => pre.day = today /\ Tickets # {} /\ mode \in {"close", "next"}
    /\ round.pc # "idle" /\ stock # None => stock.day <= round.day
    /\ round.pc # "idle" /\ bus # None => bus.day <= round.day
    /\ round.pc # "idle" /\ round.quote # None => round.quote.day = today

\* Nobody closes and no batch comes from outside: the quantities of an order
\* add up.
Count(o) ==
    /\ o.executed <= o.quantity /\ o.leaves = o.quantity - o.executed
    /\ o.open = o.quantity /\ ~o.closer /\ o.active = 0

\* A new order.
Count0(o) ==
    o.executed = 0 /\ o.leaves = o.quantity /\ o.open = o.quantity /\ ~o.closer /\ o.active = 0

CountInv ==
    ~Closing /\ mode # "external" =>
        \A t \in Tickets : Count(orders[t])

-----------------------------------------------------------------------------
(* Levels. *)

\* A set of naturals that is not empty has a least member.
LEMMA Least ==
    ASSUME NEW T, T \subseteq Nat, T # {}
    PROVE  \E n \in T : \A m \in T : n <= m
  <1>1. IsWellFoundedOn(OpToRel(<, Nat), Nat)
    BY NatLessThanWellFounded
  <1>2. PICK n \in T : \A m \in T : <<m, n>> \notin OpToRel(<, Nat)
    BY <1>1, WFMin
  <1>3. ASSUME NEW m \in T PROVE n <= m
    <2>1. ~(m < n)
      BY <1>2 DEF OpToRel
    <2>2. QED
      BY <2>1
  <1>4. QED
    BY <1>3

LEMMA Levels ==
    ASSUME NEW ls \in Seq(Seq(Nat))
    PROVE  /\ Len(ls) \in Nat /\ DOMAIN ls = 1 .. Len(ls)
           /\ \A i \in DOMAIN ls :
                 /\ ls[i] \in Seq(Nat) /\ Len(ls[i]) \in Nat
                 /\ DOMAIN ls[i] = 1 .. Len(ls[i])
                 /\ ls[i] = <<>> <=> Len(ls[i]) = 0
                 /\ \A j \in DOMAIN ls[i] : ls[i][j] \in Nat
  <1>1. Len(ls) \in Nat /\ DOMAIN ls = 1 .. Len(ls)
    BY LenProperties
  <1>2. ASSUME NEW i \in DOMAIN ls
        PROVE  /\ ls[i] \in Seq(Nat) /\ Len(ls[i]) \in Nat
               /\ DOMAIN ls[i] = 1 .. Len(ls[i])
               /\ ls[i] = <<>> <=> Len(ls[i]) = 0
               /\ \A j \in DOMAIN ls[i] : ls[i][j] \in Nat
    <2>1. ls[i] \in Seq(Nat)
      BY <1>1, ElementOfSeq
    <2>2. Len(ls[i]) \in Nat /\ DOMAIN ls[i] = 1 .. Len(ls[i])
          /\ \A j \in DOMAIN ls[i] : ls[i][j] \in Nat
      BY <2>1, LenProperties, ElementOfSeq
    <2>3. ls[i] = <<>> <=> Len(ls[i]) = 0
      BY <2>1, EmptySeq
    <2>4. QED
      BY <2>1, <2>2, <2>3
  <1>3. QED
    BY <1>1, <1>2

\* How many orders leave() drops from a level.
Gone(level, os) == IF level # <<>> /\ Filled(os[level[1]]) THEN 1 ELSE 0

LEMMA LeaveIs ==
    ASSUME NEW os, NEW level \in Seq(Nat)
    PROVE  /\ Leave(level, os) \in Seq(Nat)
           /\ Len(Leave(level, os)) = Len(level) - Gone(level, os)
           /\ \A j \in 1 .. Len(Leave(level, os)) :
                 Leave(level, os)[j] = level[j + Gone(level, os)]
  <1>1. level # <<>> => Head(level) = level[1]
    BY DEF Head
  <1>2. CASE level # <<>> /\ Filled(os[level[1]])
    <2>1. Leave(level, os) = Tail(level) /\ Gone(level, os) = 1
      BY <1>1, <1>2 DEF Leave, Gone
    <2>2. QED
      BY <1>2, <2>1, HeadTailProperties
  <1>3. CASE ~(level # <<>> /\ Filled(os[level[1]]))
    <2>1. Leave(level, os) = level /\ Gone(level, os) = 0
      BY <1>1, <1>3 DEF Leave, Gone
    <2>2. Len(level) \in Nat
      BY LenProperties
    <2>3. QED
      BY <2>1, <2>2
  <1>4. QED
    BY <1>2, <1>3

LEMMA ShapedList ==
    ASSUME NEW l, Shaped(l)
    PROVE  /\ l.levels \in Seq(Seq(Nat)) /\ l.tail \in 1 .. Len(l.levels)
           /\ l = [levels |-> l.levels, tail |-> l.tail]
           /\ 1 \in DOMAIN l.levels
  <1>1. l.levels \in Seq(Seq(Nat)) /\ l.tail \in DOMAIN l.levels
        /\ l = [levels |-> l.levels, tail |-> l.tail]
    BY DEF Shaped, ListShape
  <1>2. QED
    BY <1>1, Levels

\* roll(): the head loses what leave() drops.
LEMMA RollIs ==
    ASSUME NEW os, NEW l, Shaped(l)
    PROVE  /\ Shaped(Roll(l, os)) /\ Roll(l, os).tail = l.tail
           /\ Len(Roll(l, os).levels) = Len(l.levels)
           /\ \A i \in DOMAIN l.levels :
                 Roll(l, os).levels[i] =
                     IF i = 1 THEN Leave(l.levels[1], os) ELSE l.levels[i]
  <1> DEFINE r == Roll(l, os)
             new == [l.levels EXCEPT ![1] = Leave(l.levels[1], os)]
  <1>1. l.levels \in Seq(Seq(Nat)) /\ l.tail \in 1 .. Len(l.levels)
        /\ l = [levels |-> l.levels, tail |-> l.tail] /\ 1 \in 1 .. Len(l.levels)
    BY ShapedList, Levels
  <1>2. r = [levels |-> new, tail |-> l.tail]
    <2>1. r = [l EXCEPT !.levels = new]
      BY DEF Roll
    <2>2. QED
      BY <1>1, <2>1
  <1>3. Leave(l.levels[1], os) \in Seq(Nat)
    BY <1>1, LeaveIs, Levels
  <1>4. new \in Seq(Seq(Nat)) /\ Len(new) = Len(l.levels)
        /\ \A i \in 1 .. Len(l.levels) :
              new[i] = IF i = 1 THEN Leave(l.levels[1], os) ELSE l.levels[i]
    BY <1>1, <1>3, ExceptSeq
  <1>5. DOMAIN new = 1 .. Len(new) /\ DOMAIN l.levels = 1 .. Len(l.levels)
    BY <1>1, <1>4, LenProperties
  <1>6. Shaped(r)
    BY <1>1, <1>2, <1>4, <1>5 DEF Shaped, ListShape
  <1>7. QED
    BY <1>2, <1>4, <1>5, <1>6

\* The next level becomes the head.
LEMMA RotateIs ==
    ASSUME NEW l, Shaped(l)
    PROVE  /\ Shaped(Rotate(l)) /\ Len(Rotate(l).levels) = Len(l.levels)
           /\ Rotate(l).tail = IF l.tail = 1 THEN Len(l.levels) ELSE l.tail - 1
           /\ \A i \in DOMAIN l.levels :
                 Rotate(l).levels[i] =
                     IF i = Len(l.levels) THEN l.levels[1] ELSE l.levels[i + 1]
  <1> DEFINE ls == l.levels
             new == Append(Tail(ls), Head(ls))
             tail == IF l.tail = 1 THEN Len(ls) ELSE l.tail - 1
  <1>1. ls \in Seq(Seq(Nat)) /\ l.tail \in 1 .. Len(ls) /\ Len(ls) \in Nat
        /\ DOMAIN ls = 1 .. Len(ls) /\ 1 \in DOMAIN ls
    BY ShapedList, Levels
  <1>2. ls # <<>> /\ Head(ls) = ls[1]
    BY <1>1, EmptySeq DEF Head
  <1>3. Head(ls) \in Seq(Nat) /\ Tail(ls) \in Seq(Seq(Nat))
        /\ Len(Tail(ls)) = Len(ls) - 1
        /\ \A i \in 1 .. Len(Tail(ls)) : Tail(ls)[i] = ls[i + 1]
    BY <1>1, <1>2, HeadTailProperties
  <1>4. new \in Seq(Seq(Nat)) /\ Len(new) = Len(Tail(ls)) + 1
        /\ (\A i \in 1 .. Len(Tail(ls)) : new[i] = Tail(ls)[i])
        /\ new[Len(Tail(ls)) + 1] = Head(ls)
    BY <1>3, AppendProperties
  <1>5. Rotate(l) = [levels |-> new, tail |-> tail]
    BY DEF Rotate
  <1>6. Len(new) = Len(ls)
        /\ \A i \in 1 .. Len(ls) : new[i] = IF i = Len(ls) THEN ls[1] ELSE ls[i + 1]
    BY <1>1, <1>2, <1>3, <1>4
  <1>7. tail \in 1 .. Len(ls) /\ tail \in Nat /\ DOMAIN new = 1 .. Len(new)
    BY <1>1, <1>4, LenProperties
  <1>8. Shaped(Rotate(l))
    BY <1>4, <1>5, <1>6, <1>7 DEF Shaped, ListShape
  <1>9. QED
    BY <1>1, <1>5, <1>6, <1>8

\* A level is put in front of place k.
LEMMA PutIs ==
    ASSUME NEW ls \in Seq(Seq(Nat)), NEW k \in 1 .. Len(ls) + 1,
           NEW level \in Seq(Nat)
    PROVE  /\ PutLevel(ls, k, level) \in Seq(Seq(Nat))
           /\ Len(PutLevel(ls, k, level)) = Len(ls) + 1
           /\ \A i \in 1 .. Len(ls) + 1 :
                 PutLevel(ls, k, level)[i] = IF i < k THEN ls[i]
                                             ELSE IF i = k THEN level
                                             ELSE ls[i - 1]
  <1> DEFINE front == SubSeq(ls, 1, k - 1)
             back == SubSeq(ls, k, Len(ls))
  <1>1. Len(ls) \in Nat /\ \A i \in 1 .. Len(ls) : ls[i] \in Seq(Nat)
    BY LenProperties, ElementOfSeq
  <1>2. front \in Seq(Seq(Nat)) /\ Len(front) = k - 1
        /\ \A i \in 1 .. k - 1 : front[i] = ls[i]
    <2>1. \A i \in 1 .. k - 1 : ls[i] \in Seq(Nat)
      BY <1>1
    <2>2. front \in Seq(Seq(Nat))
          /\ Len(front) = (IF 1 <= k - 1 THEN k - 1 - 1 + 1 ELSE 0)
          /\ \A i \in 1 .. k - 1 - 1 + 1 : front[i] = ls[1 + i - 1]
      BY <1>1, <2>1, SubSeqProperties
    <2>3. QED
      BY <1>1, <2>2
  <1>3. back \in Seq(Seq(Nat)) /\ Len(back) = Len(ls) - k + 1
        /\ \A i \in 1 .. Len(ls) - k + 1 : back[i] = ls[k + i - 1]
    <2>1. \A i \in k .. Len(ls) : ls[i] \in Seq(Nat)
      BY <1>1
    <2>2. back \in Seq(Seq(Nat))
          /\ Len(back) = (IF k <= Len(ls) THEN Len(ls) - k + 1 ELSE 0)
          /\ \A i \in 1 .. Len(ls) - k + 1 : back[i] = ls[k + i - 1]
      BY <1>1, <2>1, SubSeqProperties
    <2>3. QED
      BY <1>1, <2>2
  <1> DEFINE one == <<level>>
  <1>4. one \in Seq(Seq(Nat)) /\ Len(one) = 1 /\ one[1] = level
    OBVIOUS
  <1> HIDE DEF front, back, one
  <1> DEFINE upto == front \o one
  <1>5. upto \in Seq(Seq(Nat)) /\ Len(upto) = k
        /\ \A i \in 1 .. k : upto[i] = IF i <= k - 1 THEN front[i] ELSE level
    <2>1. upto \in Seq(Seq(Nat)) /\ Len(upto) = Len(front) + Len(one)
          /\ \A i \in 1 .. Len(front) + Len(one) :
                upto[i] = IF i <= Len(front) THEN front[i] ELSE one[i - Len(front)]
      BY <1>2, <1>4, ConcatProperties
    <2> HIDE DEF upto
    <2>2. Len(upto) = k /\ Len(front) = k - 1
      BY <1>1, <1>2, <1>4, <2>1
    <2>3. ASSUME NEW i \in 1 .. k
          PROVE  upto[i] = IF i <= k - 1 THEN front[i] ELSE level
      <3>1. upto[i] = IF i <= k - 1 THEN front[i] ELSE one[i - (k - 1)]
        BY <1>1, <1>4, <2>1, <2>2
      <3>2. CASE i = k
        BY <1>1, <1>4, <3>1, <3>2
      <3>3. CASE i <= k - 1
        BY <3>1, <3>3
      <3>4. QED
        BY <1>1, <3>2, <3>3
    <2>4. QED
      BY <2>1, <2>2, <2>3
  <1>6. PutLevel(ls, k, level) = upto \o back
    BY DEF PutLevel, front, back, one
  <1> HIDE DEF upto
  <1> DEFINE all == upto \o back
  <1>7. all \in Seq(Seq(Nat)) /\ Len(all) = Len(upto) + Len(back)
        /\ \A i \in 1 .. Len(upto) + Len(back) :
              all[i] = IF i <= Len(upto) THEN upto[i] ELSE back[i - Len(upto)]
    BY <1>3, <1>5, ConcatProperties
  <1> HIDE DEF all
  <1>8. all \in Seq(Seq(Nat)) /\ Len(all) = Len(ls) + 1
        /\ \A i \in 1 .. Len(ls) + 1 :
              all[i] = IF i < k THEN ls[i] ELSE IF i = k THEN level ELSE ls[i - 1]
    <2>1. k \in Int /\ 1 <= k /\ k <= Len(ls) + 1
      BY <1>1
    <2>2. Len(all) = Len(ls) + 1 /\ Len(upto) + Len(back) = Len(ls) + 1
      BY <1>1, <1>3, <1>5, <1>7, <2>1
    <2>3. ASSUME NEW i \in 1 .. Len(ls) + 1
          PROVE  all[i] = IF i < k THEN ls[i] ELSE IF i = k THEN level ELSE ls[i - 1]
      <3>1. all[i] = IF i <= k THEN upto[i] ELSE back[i - k]
        BY <1>5, <1>7, <2>2
      <3>2. CASE i < k
        <4>1. upto[i] = front[i] /\ front[i] = ls[i]
          BY <1>1, <1>2, <1>5, <2>1, <3>2
        <4>2. QED
          BY <2>1, <3>1, <3>2, <4>1
      <3>3. CASE i = k
        BY <1>1, <1>5, <2>1, <3>1, <3>3
      <3>4. CASE i > k
        <4>1. i - k \in 1 .. Len(ls) - k + 1
          BY <1>1, <2>1, <3>4
        <4>2. back[i - k] = ls[k + (i - k) - 1]
          BY <1>3, <4>1
        <4>3. k + (i - k) - 1 = i - 1
          BY <2>1
        <4>4. QED
          BY <2>1, <3>1, <3>4, <4>2, <4>3
      <3>5. QED
        BY <2>1, <3>2, <3>3, <3>4
    <2>4. QED
      BY <1>7, <2>2, <2>3
  <1>9. QED
    BY <1>6, <1>8 DEF all
-----------------------------------------------------------------------------
(* What the places of a list keep when its levels move. *)

\* Level i of `new' is level f[i] of `ls' without its first d[i] tickets.
Moved(new, ls, f, d) ==
    /\ f \in [DOMAIN new -> DOMAIN ls] /\ d \in [DOMAIN new -> Nat]
    /\ \A i, k \in DOMAIN new : i # k => f[i] # f[k]
    /\ \A i \in DOMAIN new : \A j \in DOMAIN new[i] :
          j + d[i] \in DOMAIN ls[f[i]] /\ new[i][j] = ls[f[i]][j + d[i]]

InOrder(new, f) ==
    \A i, k \in DOMAIN new :
        i < k /\ new[i] # <<>> /\ new[k] # <<>> => f[i] < f[k]

LEMMA MovedKeeps ==
    ASSUME NEW ls \in Seq(Seq(Nat)), NEW new \in Seq(Seq(Nat)), NEW os, NEW s,
           NEW f, NEW d, Moved(new, ls, f, d)
    PROVE  /\ Distinct(ls) => Distinct(new)
           /\ OfSide(ls, os, s) => OfSide(new, os, s)
           /\ InOrder(new, f) /\ Sorted(ls, os) => Sorted(new, os)
  <1>1. /\ DOMAIN new \subseteq Nat /\ DOMAIN ls \subseteq Nat
        /\ \A i \in DOMAIN new : DOMAIN new[i] \subseteq Nat
        /\ \A i \in DOMAIN new : new[i] = <<>> => DOMAIN new[i] = {}
    BY Levels
  <1>2. \A i \in DOMAIN new : f[i] \in DOMAIN ls /\ d[i] \in Nat
    BY DEF Moved
  <1>3. \A i \in DOMAIN new : \A j \in DOMAIN new[i] :
          j + d[i] \in DOMAIN ls[f[i]] /\ new[i][j] = ls[f[i]][j + d[i]]
    BY DEF Moved
  <1>4. ASSUME Distinct(ls) PROVE Distinct(new)
    <2> SUFFICES ASSUME NEW i \in DOMAIN new, NEW k \in DOMAIN new,
                        NEW j \in DOMAIN new[i], NEW m \in DOMAIN new[k],
                        new[i][j] = new[k][m]
                 PROVE  i = k /\ j = m
      BY DEF Distinct
    <2> DEFINE p == f[i]
               q == f[k]
               x == j + d[i]
               y == m + d[k]
    <2>1. p \in DOMAIN ls /\ q \in DOMAIN ls
      BY <1>2
    <2>2. x \in DOMAIN ls[p] /\ y \in DOMAIN ls[q] /\ ls[p][x] = ls[q][y]
      BY <1>3
    <2> HIDE DEF p, q, x, y
    <2>3. p = q /\ x = y
      BY <1>4, <2>1, <2>2 DEF Distinct
    <2>4. i = k
      BY <2>3 DEF Moved, p, q
    <2>5. j \in Nat /\ m \in Nat /\ d[i] \in Nat
      BY <1>1, <1>2
    <2>6. j + d[i] = m + d[i]
      BY <2>3, <2>4 DEF x, y
    <2>7. QED
      BY <2>4, <2>5, <2>6
  <1>5. ASSUME OfSide(ls, os, s) PROVE OfSide(new, os, s)
    <2> SUFFICES ASSUME NEW i \in DOMAIN new, NEW j \in DOMAIN new[i]
                 PROVE  new[i][j] \in DOMAIN os /\ os[new[i][j]].side = s
      BY DEF OfSide
    <2>1. f[i] \in DOMAIN ls /\ j + d[i] \in DOMAIN ls[f[i]]
          /\ new[i][j] = ls[f[i]][j + d[i]]
      BY <1>2, <1>3
    <2>2. QED
      BY <1>5, <2>1 DEF OfSide
  <1>6. ASSUME InOrder(new, f), Sorted(ls, os) PROVE Sorted(new, os)
    <2> SUFFICES ASSUME NEW i \in DOMAIN new, NEW k \in DOMAIN new,
                        NEW j \in DOMAIN new[i], NEW m \in DOMAIN new[k]
                 PROVE  /\ i < k => Better(os[new[i][j]], os[new[k][m]])
                        /\ i = k => os[new[i][j]].price = os[new[k][m]].price
                        /\ i = k /\ j < m => new[i][j] < new[k][m]
      BY DEF Sorted
    <2> DEFINE a == ls[f[i]][j + d[i]]
               b == ls[f[k]][m + d[k]]
    <2>1. new[i][j] = a /\ new[k][m] = b
      BY <1>3
    <2>2. /\ f[i] < f[k] => Better(os[a], os[b])
          /\ f[i] = f[k] => os[a].price = os[b].price
          /\ f[i] = f[k] /\ j + d[i] < m + d[k] => a < b
      BY <1>2, <1>3, <1>6 DEF Sorted
    <2>3. i < k => f[i] < f[k]
      <3>1. new[i] # <<>> /\ new[k] # <<>>
        BY <1>1
      <3>2. QED
        BY <1>6, <3>1 DEF InOrder
    <2> HIDE DEF a, b
    <2>4. i = k /\ j < m => j + d[i] < m + d[k]
      BY <1>1, <1>2
    <2>5. QED
      BY <2>1, <2>2, <2>3, <2>4
  <1>7. QED
    BY <1>4, <1>5, <1>6

\* Rolling drops at most the head's oldest order, a filled one.
LEMMA RollKeeps ==
    ASSUME NEW os, NEW s, NEW l, Shaped(l)
    PROVE  /\ Distinct(l.levels) => Distinct(Roll(l, os).levels)
           /\ OfSide(l.levels, os, s) => OfSide(Roll(l, os).levels, os, s)
           /\ Sorted(l.levels, os) => Sorted(Roll(l, os).levels, os)
           /\ \A t : Holds(l.levels, t) /\ ~Filled(os[t])
                       => Holds(Roll(l, os).levels, t)
           /\ \A t : Holds(Roll(l, os).levels, t) => Holds(l.levels, t)
  <1> DEFINE ls == l.levels
             new == Roll(l, os).levels
             gone == Gone(ls[1], os)
             f == [i \in DOMAIN new |-> i]
             d == [i \in DOMAIN new |-> IF i = 1 THEN gone ELSE 0]
  <1>1. ls \in Seq(Seq(Nat)) /\ new \in Seq(Seq(Nat)) /\ DOMAIN new = DOMAIN ls
        /\ 1 \in DOMAIN ls /\ DOMAIN ls \subseteq Nat
        /\ \A i \in DOMAIN ls : new[i] = IF i = 1 THEN Leave(ls[1], os) ELSE ls[i]
    BY RollIs, ShapedList, Levels
  <1>2. gone \in {0, 1} /\ (gone = 1 => Filled(os[ls[1][1]]))
    BY DEF Gone
  <1>3. \A i \in DOMAIN ls : /\ Len(ls[i]) \in Nat /\ Len(new[i]) \in Nat
                             /\ DOMAIN ls[i] = 1 .. Len(ls[i])
                             /\ DOMAIN new[i] = 1 .. Len(new[i])
    BY <1>1, Levels
  <1>4. /\ Len(new[1]) = Len(ls[1]) - gone
        /\ \A j \in DOMAIN new[1] : new[1][j] = ls[1][j + gone]
    <2>1. ls[1] \in Seq(Nat) /\ new[1] = Leave(ls[1], os)
          /\ DOMAIN new[1] = 1 .. Len(new[1])
      BY <1>1, <1>3, Levels
    <2> HIDE DEF ls, new, gone
    <2>2. QED
      BY <2>1, LeaveIs DEF gone
  <1> HIDE DEF gone, ls, new
  <1>5. Moved(new, ls, f, d)
    <2>1. f \in [DOMAIN new -> DOMAIN ls] /\ d \in [DOMAIN new -> Nat]
          /\ \A i, k \in DOMAIN new : i # k => f[i] # f[k]
      BY <1>1, <1>2
    <2>2. ASSUME NEW i \in DOMAIN new, NEW j \in DOMAIN new[i]
          PROVE  j + d[i] \in DOMAIN ls[f[i]] /\ new[i][j] = ls[f[i]][j + d[i]]
      <3>1. CASE i = 1
        <4>1. f[i] = 1 /\ d[i] = gone
          BY <3>1
        <4>2. j + gone \in DOMAIN ls[1]
          BY <1>1, <1>2, <1>3, <1>4, <3>1
        <4>3. QED
          BY <1>4, <3>1, <4>1, <4>2
      <3>2. CASE i # 1
        <4>1. f[i] = i /\ d[i] = 0 /\ new[i] = ls[i]
          BY <1>1, <3>2
        <4>2. j \in Nat
          BY <1>1, <1>3
        <4>3. QED
          BY <4>1, <4>2
      <3>3. QED
        BY <3>1, <3>2
    <2>3. QED
      BY <2>1, <2>2 DEF Moved
  <1>6. InOrder(new, f)
    BY DEF InOrder
  <1>7. ASSUME NEW t, Holds(ls, t), ~Filled(os[t]) PROVE Holds(new, t)
    <2>1. PICK i \in DOMAIN ls : \E j \in DOMAIN ls[i] : ls[i][j] = t
      BY <1>7 DEF Holds
    <2>2. PICK j \in DOMAIN ls[i] : ls[i][j] = t
      BY <2>1
    <2>3. CASE i = 1
      <3>1. gone = 1 => j # 1
        BY <1>2, <1>7, <2>2, <2>3
      <3>2. j - gone \in DOMAIN new[1]
        BY <1>1, <1>2, <1>3, <1>4, <2>3, <3>1
      <3>3. new[1][j - gone] = ls[1][(j - gone) + gone] /\ (j - gone) + gone = j
        BY <1>1, <1>2, <1>3, <1>4, <2>3, <3>2
      <3>4. QED
        BY <1>1, <2>2, <2>3, <3>2, <3>3 DEF Holds
    <2>4. CASE i # 1
      BY <1>1, <2>2, <2>4 DEF Holds
    <2>5. QED
      BY <2>3, <2>4
  <1>8. ASSUME NEW t, Holds(new, t) PROVE Holds(ls, t)
    <2>1. PICK i \in DOMAIN new : \E j \in DOMAIN new[i] : new[i][j] = t
      BY <1>8 DEF Holds
    <2>2. PICK j \in DOMAIN new[i] : new[i][j] = t
      BY <2>1
    <2>3. f[i] \in DOMAIN ls /\ j + d[i] \in DOMAIN ls[f[i]]
          /\ ls[f[i]][j + d[i]] = t
      BY <1>5, <2>2 DEF Moved
    <2>4. QED
      BY <2>3 DEF Holds
  <1>9. /\ Distinct(ls) => Distinct(new)
        /\ OfSide(ls, os, s) => OfSide(new, os, s)
        /\ Sorted(ls, os) => Sorted(new, os)
    BY <1>1, <1>5, <1>6, MovedKeeps
  <1>10. QED
    BY <1>7, <1>8, <1>9 DEF ls, new

\* The list goes round.
LEMMA RotateKeeps ==
    ASSUME NEW os, NEW s, NEW l, Shaped(l)
    PROVE  /\ Distinct(l.levels) => Distinct(Rotate(l).levels)
           /\ OfSide(l.levels, os, s) => OfSide(Rotate(l).levels, os, s)
           /\ l.levels[1] = <<>> /\ Sorted(l.levels, os)
                 => Sorted(Rotate(l).levels, os)
           /\ \A t : Holds(l.levels, t) <=> Holds(Rotate(l).levels, t)
  <1> DEFINE ls == l.levels
             new == Rotate(l).levels
             n == Len(ls)
             f == [i \in DOMAIN new |-> IF i = n THEN 1 ELSE i + 1]
             d == [i \in DOMAIN new |-> 0]
  <1>1. ls \in Seq(Seq(Nat)) /\ new \in Seq(Seq(Nat)) /\ n \in Nat
        /\ DOMAIN new = 1 .. n /\ DOMAIN ls = 1 .. n /\ 1 \in 1 .. n
        /\ \A i \in 1 .. n : new[i] = IF i = n THEN ls[1] ELSE ls[i + 1]
    BY RotateIs, ShapedList, Levels
  <1>2. \A i \in 1 .. n : DOMAIN new[i] \subseteq Nat
    BY <1>1, Levels
  <1> HIDE DEF ls, new, n
  <1>3. \A i \in 1 .. n : f[i] \in 1 .. n /\ d[i] = 0 /\ new[i] = ls[f[i]]
    BY <1>1
  <1>4. Moved(new, ls, f, d)
    <2>1. f \in [DOMAIN new -> DOMAIN ls] /\ d \in [DOMAIN new -> Nat]
      BY <1>1, <1>3
    <2>2. \A i, k \in DOMAIN new : i # k => f[i] # f[k]
      BY <1>1
    <2>3. ASSUME NEW i \in DOMAIN new, NEW j \in DOMAIN new[i]
          PROVE  j + d[i] \in DOMAIN ls[f[i]] /\ new[i][j] = ls[f[i]][j + d[i]]
      <3>1. j \in Nat /\ d[i] = 0 /\ new[i] = ls[f[i]] /\ f[i] \in DOMAIN ls
        BY <1>1, <1>2, <1>3
      <3>2. QED
        BY <3>1
    <2>4. QED
      BY <2>1, <2>2, <2>3 DEF Moved
  <1>5. ASSUME ls[1] = <<>> PROVE InOrder(new, f)
    <2> SUFFICES ASSUME NEW i \in 1 .. n, NEW k \in 1 .. n, i < k,
                        new[i] # <<>>, new[k] # <<>>
                 PROVE  f[i] < f[k]
      BY <1>1 DEF InOrder
    <2>1. k # n /\ i # n
      BY <1>1, <1>5
    <2>2. QED
      BY <1>1, <2>1
  <1>6. ASSUME NEW t, Holds(ls, t) PROVE Holds(new, t)
    <2>1. PICK i \in DOMAIN ls : \E j \in DOMAIN ls[i] : ls[i][j] = t
      BY <1>6 DEF Holds
    <2>2. CASE i = 1
      <3>1. n \in DOMAIN new /\ new[n] = ls[1]
        BY <1>1
      <3>2. QED
        BY <2>1, <2>2, <3>1 DEF Holds
    <2>3. CASE i # 1
      <3>1. i - 1 \in DOMAIN new /\ new[i - 1] = ls[i]
        BY <1>1, <2>3
      <3>2. QED
        BY <2>1, <3>1 DEF Holds
    <2>4. QED
      BY <2>2, <2>3
  <1>7. ASSUME NEW t, Holds(new, t) PROVE Holds(ls, t)
    <2>1. PICK i \in DOMAIN new : \E j \in DOMAIN new[i] : new[i][j] = t
      BY <1>7 DEF Holds
    <2>2. f[i] \in DOMAIN ls /\ new[i] = ls[f[i]]
      BY <1>1, <1>3
    <2>3. QED
      BY <2>1, <2>2 DEF Holds
  <1>8. /\ Distinct(ls) => Distinct(new)
        /\ OfSide(ls, os, s) => OfSide(new, os, s)
        /\ InOrder(new, f) /\ Sorted(ls, os) => Sorted(new, os)
    BY <1>1, <1>4, MovedKeeps
  <1>9. QED
    BY <1>5, <1>6, <1>7, <1>8 DEF ls, new
\* spread() rolls, and goes round when the head is empty.
LEMMA SpreadKeeps ==
    ASSUME NEW os, NEW s, NEW l, Shaped(l)
    PROVE  /\ Shaped(Spread(l, os))
           /\ Distinct(l.levels) => Distinct(Spread(l, os).levels)
           /\ OfSide(l.levels, os, s) => OfSide(Spread(l, os).levels, os, s)
           /\ Sorted(l.levels, os) => Sorted(Spread(l, os).levels, os)
           /\ \A t : Holds(l.levels, t) /\ ~Filled(os[t])
                       => Holds(Spread(l, os).levels, t)
           /\ \A t : Holds(Spread(l, os).levels, t) => Holds(l.levels, t)
  <1> DEFINE r == Roll(l, os)
  <1>1. Shaped(r)
    BY RollIs
  <1>2. CASE r.levels[1] # <<>>
    <2>1. Spread(l, os) = r
      BY <1>2 DEF Spread
    <2>2. QED
      BY <1>1, <2>1, RollKeeps
  <1>3. CASE r.levels[1] = <<>>
    <2>1. Spread(l, os) = Rotate(r)
      BY <1>3 DEF Spread
    <2>2. Shaped(Rotate(r))
      BY <1>1, RotateIs
    <2> HIDE DEF r
    <2>3. /\ Distinct(r.levels) => Distinct(Rotate(r).levels)
          /\ OfSide(r.levels, os, s) => OfSide(Rotate(r).levels, os, s)
          /\ Sorted(r.levels, os) => Sorted(Rotate(r).levels, os)
          /\ \A t : Holds(r.levels, t) <=> Holds(Rotate(r).levels, t)
      BY <1>1, <1>3, RotateKeeps
    <2>4. QED
      BY <2>1, <2>2, <2>3, RollKeeps DEF r
  <1>4. QED
    BY <1>2, <1>3

\* What is behind an empty level or the tail stays empty.
LEMMA SpreadPacks ==
    ASSUME NEW os, NEW l, Shaped(l), Packed(l)
    PROVE  Packed(Spread(l, os))
  <1> DEFINE r == Roll(l, os)
             ls == l.levels
             n == Len(ls)
  <1>1. /\ n \in Nat /\ DOMAIN ls = 1 .. n /\ 1 \in 1 .. n /\ l.tail \in 1 .. n
        /\ Shaped(r) /\ r.tail = l.tail /\ Len(r.levels) = n
        /\ DOMAIN r.levels = 1 .. n
        /\ \A i \in 1 .. n : i # 1 => r.levels[i] = ls[i]
    BY RollIs, ShapedList, Levels
  <1>2. r.levels[1] # <<>> => ls[1] # <<>>
    <2>1. r.levels[1] = Leave(ls[1], os)
      BY <1>1, RollIs
    <2>2. QED
      BY <2>1 DEF Leave
  <1>3. /\ \A i, k \in 1 .. n : i < k /\ ls[i] = <<>> => ls[k] = <<>>
        /\ \A i \in 1 .. n : l.tail < i => ls[i] = <<>>
    BY <1>1 DEF Packed
  <1> HIDE DEF r, ls, n
  <1>4. CASE r.levels[1] # <<>>
    <2>1. Spread(l, os) = r
      BY <1>4 DEF Spread, r
    <2>2. ASSUME NEW i \in 1 .. n, NEW k \in 1 .. n, i < k, r.levels[i] = <<>>
          PROVE  r.levels[k] = <<>>
      <3>1. i # 1 /\ k # 1
        BY <1>1, <1>4, <2>2
      <3>2. QED
        BY <1>1, <1>3, <2>2, <3>1
    <2>3. ASSUME NEW i \in 1 .. n, r.tail < i PROVE r.levels[i] = <<>>
      <3>1. i # 1
        BY <1>1, <2>3
      <3>2. QED
        BY <1>1, <1>3, <2>3, <3>1
    <2>4. QED
      BY <1>1, <2>1, <2>2, <2>3 DEF Packed
  <1>5. CASE r.levels[1] = <<>>
    <2> DEFINE new == Rotate(r)
    <2>1. Spread(l, os) = new
      BY <1>5 DEF Spread, r
    <2>2. /\ DOMAIN new.levels = 1 .. n
          /\ new.tail = IF l.tail = 1 THEN n ELSE l.tail - 1
          /\ \A i \in 1 .. n :
                new.levels[i] = IF i = n THEN r.levels[1] ELSE r.levels[i + 1]
      <3>1. Shaped(new) /\ Len(new.levels) = n
            /\ new.tail = (IF l.tail = 1 THEN n ELSE l.tail - 1)
            /\ \A i \in 1 .. n :
                 new.levels[i] = IF i = n THEN r.levels[1] ELSE r.levels[i + 1]
        BY <1>1, RotateIs
      <3> HIDE DEF new
      <3>2. DOMAIN new.levels = 1 .. n
        BY <3>1, ShapedList, Levels
      <3>3. QED
        BY <3>1, <3>2
    <2> HIDE DEF new
    <2>3. new.levels[n] = <<>> /\ \A i \in 1 .. n : i # n => new.levels[i] = ls[i + 1]
      BY <1>1, <1>5, <2>2
    <2>4. ASSUME NEW i \in 1 .. n, NEW k \in 1 .. n, i < k, new.levels[i] = <<>>
          PROVE  new.levels[k] = <<>>
      <3>1. CASE k = n
        BY <2>3, <3>1
      <3>2. CASE k # n
        <4>1. i # n /\ i + 1 \in 1 .. n /\ k + 1 \in 1 .. n /\ i + 1 < k + 1
          BY <1>1, <2>4, <3>2
        <4>2. new.levels[i] = ls[i + 1] /\ new.levels[k] = ls[k + 1]
          BY <2>3, <3>2, <4>1
        <4>3. QED
          BY <1>3, <2>4, <4>1, <4>2
      <3>3. QED
        BY <3>1, <3>2
    <2>5. ASSUME NEW i \in 1 .. n, new.tail < i PROVE new.levels[i] = <<>>
      <3>1. CASE i = n
        BY <2>3, <3>1
      <3>2. CASE i # n
        <4>1. i + 1 \in 1 .. n /\ l.tail < i + 1
          BY <1>1, <2>2, <2>5, <3>2
        <4>2. new.levels[i] = ls[i + 1]
          BY <2>3, <3>2
        <4>3. QED
          BY <1>3, <4>1, <4>2
      <3>3. QED
        BY <3>1, <3>2
    <2>6. QED
      BY <2>1, <2>2, <2>4, <2>5 DEF Packed
  <1>6. QED
    BY <1>4, <1>5

NoneFilled(ls, os) ==
    \A i \in DOMAIN ls : \A j \in DOMAIN ls[i] : ~Filled(os[ls[i][j]])

\* If only the head was filled, rolling leaves no filled order behind.
LEMMA HeadGoes ==
    ASSUME NEW os, NEW l, Shaped(l), NEW looping, HeadOnly(l.levels, os, looping)
    PROVE  NoneFilled(Roll(l, os).levels, os) /\ NoneFilled(Spread(l, os).levels, os)
  <1> DEFINE ls == l.levels
             new == Roll(l, os).levels
             gone == Gone(ls[1], os)
  <1>1. ls \in Seq(Seq(Nat)) /\ new \in Seq(Seq(Nat)) /\ DOMAIN new = DOMAIN ls
        /\ 1 \in DOMAIN ls /\ DOMAIN ls \subseteq Nat /\ Shaped(Roll(l, os))
        /\ \A i \in DOMAIN ls : new[i] = IF i = 1 THEN Leave(ls[1], os) ELSE ls[i]
    BY RollIs, ShapedList, Levels
  <1>2. ASSUME NEW i \in DOMAIN new, NEW j \in DOMAIN new[i]
        PROVE  ~Filled(os[new[i][j]])
    <2>1. CASE i # 1
      <3>1. new[i] = ls[i]
        BY <1>1, <2>1
      <3>2. QED
        BY <1>1, <2>1, <3>1 DEF HeadOnly
    <2>2. CASE i = 1
      <3>1. /\ ls[1] \in Seq(Nat) /\ Len(ls[1]) \in Nat
            /\ DOMAIN ls[1] = 1 .. Len(ls[1])
            /\ DOMAIN new[1] = 1 .. Len(new[1]) /\ Len(new[1]) \in Nat
            /\ ls[1] = <<>> <=> Len(ls[1]) = 0
        BY <1>1, Levels
      <3>2. /\ Len(new[1]) = Len(ls[1]) - gone
            /\ \A m \in 1 .. Len(new[1]) : new[1][m] = ls[1][m + gone]
        <4>1. new[1] = Leave(ls[1], os)
          BY <1>1
        <4> HIDE DEF ls, new, gone
        <4>2. QED
          BY <3>1, <4>1, LeaveIs DEF gone
      <3>3. gone \in {0, 1} /\ (gone = 1 <=> ls[1] # <<>> /\ Filled(os[ls[1][1]]))
        BY DEF Gone
      <3> HIDE DEF ls, new, gone
      <3>4. j \in 1 .. Len(new[1]) /\ new[i][j] = ls[1][j + gone]
            /\ j + gone \in DOMAIN ls[1]
        BY <2>2, <3>1, <3>2, <3>3
      <3>5. ASSUME Filled(os[ls[1][j + gone]]) PROVE FALSE
        <4>1. j + gone = 1
          BY <1>1, <3>4, <3>5 DEF HeadOnly, ls
        <4>2. j = 1 /\ gone = 0 /\ ls[1] # <<>>
          BY <3>1, <3>3, <3>4, <4>1
        <4>3. QED
          BY <3>3, <3>5, <4>1, <4>2
      <3>6. QED
        BY <3>4, <3>5
    <2>3. QED
      BY <2>1, <2>2
  <1>3. NoneFilled(new, os)
    BY <1>2 DEF NoneFilled
  <1>4. NoneFilled(Spread(l, os).levels, os)
    <2> DEFINE r == Roll(l, os)
    <2>1. CASE r.levels[1] # <<>>
      BY <1>3, <2>1 DEF Spread
    <2>2. CASE r.levels[1] = <<>>
      <3>1. Spread(l, os) = Rotate(r)
        BY <2>2 DEF Spread
      <3> HIDE DEF r
      <3>2. /\ Len(r.levels) \in Nat /\ DOMAIN r.levels = 1 .. Len(r.levels)
            /\ DOMAIN Rotate(r).levels = 1 .. Len(r.levels)
            /\ \A i \in DOMAIN r.levels :
                 Rotate(r).levels[i] = IF i = Len(r.levels) THEN r.levels[1]
                                       ELSE r.levels[i + 1]
        BY <1>1, RotateIs, ShapedList, Levels DEF r
      <3>3. ASSUME NEW i \in DOMAIN Rotate(r).levels
            PROVE  \E k \in DOMAIN r.levels : Rotate(r).levels[i] = r.levels[k]
        BY <3>2
      <3>4. NoneFilled(Rotate(r).levels, os)
        BY <1>3, <3>3 DEF NoneFilled, r
      <3>5. QED
        BY <3>1, <3>4
    <2>3. QED
      BY <2>1, <2>2
  <1>5. QED
    BY <1>3, <1>4

\* The order that spread() returns, if any, is the head's oldest after the roll.
LEMMA OfferedIs ==
    ASSUME NEW os, NEW s, NEW l, Shaped(l), OfSide(l.levels, os, s),
           NoTicket \notin DOMAIN os, Offered(l, os) # NoTicket
    PROVE  /\ Spread(l, os) = Roll(l, os)
           /\ 1 \in DOMAIN Spread(l, os).levels
           /\ 1 \in DOMAIN Spread(l, os).levels[1]
           /\ Offered(l, os) = Spread(l, os).levels[1][1]
           /\ Offered(l, os) \in DOMAIN os /\ os[Offered(l, os)].side = s
  <1> DEFINE r == Roll(l, os)
  <1>1. Shaped(r) /\ r.levels \in Seq(Seq(Nat)) /\ 1 \in DOMAIN r.levels
        /\ r.levels[1] = Leave(l.levels[1], os) /\ OfSide(r.levels, os, s)
    BY RollIs, RollKeeps, ShapedList, Levels
  <1>2. r.levels[1] # <<>> /\ Offered(l, os) = Head(r.levels[1])
    BY <1>1 DEF Offered
  <1>3. 1 \in DOMAIN r.levels[1]
    BY <1>1, <1>2, Levels
  <1>4. Head(r.levels[1]) = r.levels[1][1]
    BY <1>2 DEF Head
  <1>5. Spread(l, os) = r
    BY <1>2 DEF Spread
  <1>6. QED
    BY <1>1, <1>2, <1>3, <1>4, <1>5 DEF OfSide
-----------------------------------------------------------------------------
(* Inserting. *)

\* A level of the one ticket t is put in front of place k.
PutAt(new, ls, t, k) ==
    k \in 1 .. Len(ls) + 1 /\ new = PutLevel(ls, k, <<t>>)

\* Its price lies between those of the levels around it.
FitsBefore(ls, os, t, k) ==
    \A i \in DOMAIN ls : \A j \in DOMAIN ls[i] :
        /\ i < k => Better(os[ls[i][j]], os[t])
        /\ i >= k => Better(os[t], os[ls[i][j]])

\* The levels behind it move on.
ShiftedAt(new, ls, k) ==
    /\ DOMAIN new = 1 .. Len(ls) + 1
    /\ \A i \in 1 .. Len(ls) + 1 :
          /\ i < k => i \in 1 .. Len(ls) /\ new[i] = ls[i]
          /\ i = k => new[i] # <<>>
          /\ i > k => i - 1 \in 1 .. Len(ls) /\ new[i] = ls[i - 1]

LEMMA PutKeeps ==
    ASSUME NEW ls \in Seq(Seq(Nat)), NEW t \in Nat, NEW k, NEW new,
           PutAt(new, ls, t, k)
    PROVE  /\ ShiftedAt(new, ls, k)
           /\ Distinct(ls) /\ ~Holds(ls, t) => Distinct(new)
           /\ Holds(new, t)
           /\ \A u : Holds(ls, u) => Holds(new, u)
           /\ \A u : Holds(new, u) => u = t \/ Holds(ls, u)
           /\ \A os, s : OfSide(ls, os, s) /\ t \in DOMAIN os /\ os[t].side = s
                            => OfSide(new, os, s)
           /\ \A os : Sorted(ls, os) /\ FitsBefore(ls, os, t, k) => Sorted(new, os)
  <1> DEFINE n == Len(ls)
  <1>0. k \in 1 .. n + 1 /\ new = PutLevel(ls, k, <<t>>)
    BY DEF PutAt
  <1>1. n \in Nat /\ DOMAIN ls = 1 .. n /\ k \in Int /\ 1 <= k /\ k <= n + 1
    BY <1>0, Levels
  <1>2. <<t>> \in Seq(Nat)
    OBVIOUS
  <1>3. /\ new \in Seq(Seq(Nat)) /\ Len(new) = n + 1
        /\ \A i \in 1 .. n + 1 : new[i] = IF i < k THEN ls[i]
                                       ELSE IF i = k THEN <<t>> ELSE ls[i - 1]
    <2> DEFINE level == <<t>>
               put == PutLevel(ls, k, level)
    <2>1. level \in Seq(Nat) /\ k \in 1 .. Len(ls) + 1
      BY <1>0, <1>2
    <2> HIDE DEF level
    <2>2. /\ put \in Seq(Seq(Nat)) /\ Len(put) = Len(ls) + 1
          /\ \A i \in 1 .. Len(ls) + 1 : put[i] = IF i < k THEN ls[i]
                                       ELSE IF i = k THEN level ELSE ls[i - 1]
      BY <2>1, PutIs
    <2>3. new = put
      BY <1>0 DEF level
    <2> HIDE DEF put
    <2>4. QED
      BY <2>2, <2>3 DEF level
  <1>4. DOMAIN new = 1 .. n + 1
    BY <1>3, Levels
  <1>5. k \in DOMAIN new /\ DOMAIN new[k] = {1} /\ new[k][1] = t /\ new[k] # <<>>
    <2>1. DOMAIN <<t>> = {1} /\ <<t>>[1] = t /\ <<t>> # <<>>
      OBVIOUS
    <2> HIDE DEF n
    <2>2. k \in 1 .. n + 1
      BY <1>1
    <2>3. new[k] = <<t>>
      BY <1>1, <1>3, <2>2
    <2>4. QED
      BY <1>4, <2>1, <2>2, <2>3
  <1> HIDE DEF n
  <1> DEFINE Old(i) == IF i < k THEN i ELSE i - 1
  <1>6. ASSUME NEW i \in 1 .. n + 1, i # k
        PROVE  Old(i) \in 1 .. n /\ new[i] = ls[Old(i)]
    <2>1. CASE i < k
      <3>1. new[i] = ls[i] /\ i \in 1 .. n
        BY <1>1, <1>3, <2>1
      <3>2. QED
        BY <2>1, <3>1
    <2>2. CASE i > k
      <3>1. new[i] = ls[i - 1] /\ i - 1 \in 1 .. n /\ ~(i < k)
        BY <1>1, <1>3, <2>2
      <3>2. QED
        BY <3>1
    <2>3. QED
      BY <1>1, <1>6, <2>1, <2>2
  <1>7. ASSUME NEW i \in DOMAIN new, i # k, NEW j \in DOMAIN new[i]
        PROVE  j \in DOMAIN ls[Old(i)] /\ new[i][j] = ls[Old(i)][j]
               /\ Old(i) \in DOMAIN ls
    BY <1>1, <1>4, <1>6, <1>7
  <1>15. ASSUME NEW i \in 1 .. n + 1
         PROVE  /\ i < k => i \in 1 .. n /\ new[i] = ls[i]
                /\ i = k => new[i] # <<>>
                /\ i > k => i - 1 \in 1 .. n /\ new[i] = ls[i - 1]
    <2>1. i < k => i \in 1 .. n /\ new[i] = ls[i]
      BY <1>1, <1>6
    <2>2. new[k] # <<>>
      BY <1>5
    <2>3. i > k => i - 1 \in 1 .. n /\ new[i] = ls[i - 1]
      <3>1. i > k => i # k /\ Old(i) = i - 1
        BY <1>1
      <3> HIDE DEF Old
      <3>2. QED
        BY <1>6, <3>1
    <2>4. QED
      BY <2>1, <2>2, <2>3
  <1> HIDE DEF Old
  <1>8. ASSUME Distinct(ls), ~Holds(ls, t) PROVE Distinct(new)
    <2> SUFFICES ASSUME NEW i \in DOMAIN new, NEW m \in DOMAIN new,
                        NEW j \in DOMAIN new[i], NEW x \in DOMAIN new[m],
                        new[i][j] = new[m][x]
                 PROVE  i = m /\ j = x
      BY DEF Distinct
    <2>1. CASE i = k /\ m = k
      BY <1>5, <2>1
    <2>2. CASE i = k /\ m # k
      BY <1>5, <1>7, <1>8, <2>2 DEF Holds
    <2>3. CASE i # k /\ m = k
      BY <1>5, <1>7, <1>8, <2>3 DEF Holds
    <2>4. CASE i # k /\ m # k
      <3>1. ls[Old(i)][j] = ls[Old(m)][x] /\ Old(i) \in DOMAIN ls
            /\ Old(m) \in DOMAIN ls /\ j \in DOMAIN ls[Old(i)]
            /\ x \in DOMAIN ls[Old(m)]
        BY <1>7, <2>4
      <3>2. Old(i) = Old(m) /\ j = x
        BY <1>8, <3>1 DEF Distinct
      <3>3. QED
        BY <1>1, <1>4, <2>4, <3>2 DEF Old
    <2>5. QED
      BY <2>1, <2>2, <2>3, <2>4
  <1>9. ASSUME NEW os, NEW s, OfSide(ls, os, s), t \in DOMAIN os, os[t].side = s
        PROVE  OfSide(new, os, s)
    <2> SUFFICES ASSUME NEW i \in DOMAIN new, NEW j \in DOMAIN new[i]
                 PROVE  new[i][j] \in DOMAIN os /\ os[new[i][j]].side = s
      BY DEF OfSide
    <2>1. CASE i = k
      BY <1>5, <1>9, <2>1
    <2>2. CASE i # k
      <3>1. j \in DOMAIN ls[Old(i)] /\ new[i][j] = ls[Old(i)][j]
            /\ Old(i) \in DOMAIN ls
        BY <1>7, <2>2
      <3>2. QED
        BY <1>9, <3>1 DEF OfSide
    <2>3. QED
      BY <2>1, <2>2
  <1>10. Holds(new, t)
    <2>1. k \in DOMAIN new
      BY <1>1, <1>4
    <2>2. QED
      BY <1>5, <2>1 DEF Holds
  <1>11. ASSUME NEW u, Holds(ls, u) PROVE Holds(new, u)
    <2>1. PICK i \in DOMAIN ls : \E j \in DOMAIN ls[i] : ls[i][j] = u
      BY <1>11 DEF Holds
    <2>2. CASE i < k
      <3>1. i \in DOMAIN new /\ new[i] = ls[i]
        BY <1>1, <1>3, <1>4, <2>2
      <3>2. QED
        BY <2>1, <3>1 DEF Holds
    <2>3. CASE ~(i < k)
      <3>1. i + 1 \in 1 .. n + 1 /\ i + 1 > k /\ (i + 1) - 1 = i
        BY <1>1, <2>3
      <3>2. i + 1 \in DOMAIN new /\ new[i + 1] = ls[i]
        BY <1>1, <1>3, <1>4, <3>1
      <3>3. QED
        BY <2>1, <3>2 DEF Holds
    <2>4. QED
      BY <2>2, <2>3
  <1>16. ASSUME NEW u, Holds(new, u) PROVE u = t \/ Holds(ls, u)
    <2>1. PICK i \in DOMAIN new : \E j \in DOMAIN new[i] : new[i][j] = u
      BY <1>16 DEF Holds
    <2>2. PICK j \in DOMAIN new[i] : new[i][j] = u
      BY <2>1
    <2>3. CASE i = k
      BY <1>5, <2>2, <2>3
    <2>4. CASE i # k
      BY <1>7, <2>2, <2>4 DEF Holds
    <2>5. QED
      BY <2>3, <2>4
  <1>12. ASSUME NEW os, Sorted(ls, os), FitsBefore(ls, os, t, k)
         PROVE  Sorted(new, os)
    <2> SUFFICES ASSUME NEW i \in DOMAIN new, NEW m \in DOMAIN new,
                        NEW j \in DOMAIN new[i], NEW x \in DOMAIN new[m]
                 PROVE  /\ i < m => Better(os[new[i][j]], os[new[m][x]])
                        /\ i = m => os[new[i][j]].price = os[new[m][x]].price
                        /\ i = m /\ j < x => new[i][j] < new[m][x]
      BY DEF Sorted
    <2>1. CASE i = k /\ m = k
      <3>1. j = 1 /\ x = 1
        BY <1>5, <2>1
      <3>2. QED
        BY <1>1, <2>1, <3>1
    <2>2. CASE i = k /\ m # k
      <3>1. x \in DOMAIN ls[Old(m)] /\ new[m][x] = ls[Old(m)][x]
            /\ Old(m) \in DOMAIN ls /\ new[i][j] = t
        BY <1>5, <1>7, <2>2
      <3>2. i < m => Old(m) >= k
        BY <1>1, <1>4, <2>2 DEF Old
      <3>3. i < m => Better(os[t], os[ls[Old(m)][x]])
        BY <1>12, <3>1, <3>2 DEF FitsBefore
      <3>4. QED
        BY <2>2, <3>1, <3>3
    <2>3. CASE i # k /\ m = k
      <3>1. j \in DOMAIN ls[Old(i)] /\ new[i][j] = ls[Old(i)][j]
            /\ Old(i) \in DOMAIN ls /\ new[m][x] = t
        BY <1>5, <1>7, <2>3
      <3>2. i < m => Old(i) < k
        BY <1>1, <1>4, <2>3 DEF Old
      <3>3. i < m => Better(os[ls[Old(i)][j]], os[t])
        BY <1>12, <3>1, <3>2 DEF FitsBefore
      <3>4. QED
        BY <2>3, <3>1, <3>3
    <2>4. CASE i # k /\ m # k
      <3> DEFINE a == Old(i)
                 b == Old(m)
      <3>1. /\ j \in DOMAIN ls[a] /\ new[i][j] = ls[a][j] /\ a \in DOMAIN ls
            /\ x \in DOMAIN ls[b] /\ new[m][x] = ls[b][x] /\ b \in DOMAIN ls
        BY <1>7, <2>4
      <3>2. (i < m => a < b) /\ (i = m => a = b)
        BY <1>1, <1>4, <2>4 DEF Old
      <3> HIDE DEF a, b
      <3>3. /\ a < b => Better(os[ls[a][j]], os[ls[b][x]])
            /\ a = b => os[ls[a][j]].price = os[ls[b][x]].price
            /\ a = b /\ j < x => ls[a][j] < ls[b][x]
        BY <1>12, <3>1 DEF Sorted
      <3>4. QED
        BY <3>1, <3>2, <3>3
    <2>5. QED
      BY <2>1, <2>2, <2>3, <2>4
  <1>13. QED
    <2>1. ShiftedAt(new, ls, k)
      BY <1>4, <1>15 DEF ShiftedAt, n
    <2>2. QED
      BY <1>8, <1>9, <1>10, <1>11, <1>12, <1>16, <2>1

\* Ticket t joins level k.
JoinedAt(new, ls, t, k) ==
    /\ k \in DOMAIN ls /\ Len(new) = Len(ls)
    /\ \A i \in DOMAIN ls : new[i] = IF i = k THEN Append(ls[k], t) ELSE ls[i]

\* It has the price of the level, and is younger.
FitsInto(ls, os, t, k) ==
    \A i \in DOMAIN ls : \A j \in DOMAIN ls[i] :
        /\ i < k => Better(os[ls[i][j]], os[t])
        /\ i = k => os[ls[i][j]].price = os[t].price /\ ls[i][j] < t
        /\ i > k => Better(os[t], os[ls[i][j]])

LEMMA JoinKeeps ==
    ASSUME NEW ls \in Seq(Seq(Nat)), NEW new \in Seq(Seq(Nat)), NEW t \in Nat,
           NEW k, JoinedAt(new, ls, t, k)
    PROVE  /\ Distinct(ls) /\ ~Holds(ls, t) => Distinct(new)
           /\ Holds(new, t)
           /\ \A u : Holds(ls, u) => Holds(new, u)
           /\ \A u : Holds(new, u) => u = t \/ Holds(ls, u)
           /\ \A os, s : OfSide(ls, os, s) /\ t \in DOMAIN os /\ os[t].side = s
                            => OfSide(new, os, s)
           /\ \A os : Sorted(ls, os) /\ FitsInto(ls, os, t, k) => Sorted(new, os)
  <1>0. /\ k \in DOMAIN ls /\ Len(new) = Len(ls)
        /\ \A i \in DOMAIN ls : new[i] = IF i = k THEN Append(ls[k], t) ELSE ls[i]
    BY DEF JoinedAt
  <1> DEFINE z == Len(ls[k]) + 1
             IsNew(i, j) == i = k /\ j = z
  <1>1. DOMAIN new = DOMAIN ls /\ DOMAIN ls \subseteq Nat
    BY <1>0, Levels
  <1>2. ls[k] \in Seq(Nat) /\ Len(ls[k]) \in Nat /\ DOMAIN ls[k] = 1 .. Len(ls[k])
    BY <1>0, Levels
  <1>3. /\ Len(new[k]) = z /\ DOMAIN new[k] = 1 .. z /\ new[k][z] = t
        /\ \A j \in 1 .. Len(ls[k]) : new[k][j] = ls[k][j]
    <2>1. new[k] = Append(ls[k], t)
      BY <1>0
    <2>2. /\ Append(ls[k], t) \in Seq(Nat) /\ Len(Append(ls[k], t)) = Len(ls[k]) + 1
          /\ \A i \in 1 .. Len(ls[k]) : Append(ls[k], t)[i] = ls[k][i]
          /\ Append(ls[k], t)[Len(ls[k]) + 1] = t
      BY <1>2, AppendProperties
    <2>3. QED
      BY <2>1, <2>2, LenProperties
  <1>4. ASSUME NEW i \in DOMAIN new, NEW j \in DOMAIN new[i], ~IsNew(i, j)
        PROVE  i \in DOMAIN ls /\ j \in DOMAIN ls[i] /\ new[i][j] = ls[i][j]
    <2>1. CASE i = k
      <3>1. j \in 1 .. z /\ j # z
        BY <1>3, <1>4, <2>1
      <3>2. j \in 1 .. Len(ls[k])
        BY <1>2, <3>1
      <3>3. QED
        BY <1>0, <1>2, <1>3, <2>1, <3>2
    <2>2. CASE i # k
      BY <1>0, <1>1, <2>2
    <2>3. QED
      BY <2>1, <2>2
  <1>5. \A i \in DOMAIN new : DOMAIN new[i] \subseteq Nat
    BY Levels
  <1>6. ASSUME Distinct(ls), ~Holds(ls, t) PROVE Distinct(new)
    <2> SUFFICES ASSUME NEW i \in DOMAIN new, NEW m \in DOMAIN new,
                        NEW j \in DOMAIN new[i], NEW x \in DOMAIN new[m],
                        new[i][j] = new[m][x]
                 PROVE  i = m /\ j = x
      BY DEF Distinct
    <2>1. CASE IsNew(i, j) /\ IsNew(m, x)
      BY <2>1
    <2>2. CASE IsNew(i, j) /\ ~IsNew(m, x)
      <3>1. new[i][j] = t
        BY <1>3, <2>2
      <3>2. m \in DOMAIN ls /\ x \in DOMAIN ls[m] /\ ls[m][x] = t
        BY <1>4, <2>2, <3>1
      <3>3. QED
        BY <1>6, <3>2 DEF Holds
    <2>3. CASE ~IsNew(i, j) /\ IsNew(m, x)
      <3>1. new[m][x] = t
        BY <1>3, <2>3
      <3>2. i \in DOMAIN ls /\ j \in DOMAIN ls[i] /\ ls[i][j] = t
        BY <1>4, <2>3, <3>1
      <3>3. QED
        BY <1>6, <3>2 DEF Holds
    <2>4. CASE ~IsNew(i, j) /\ ~IsNew(m, x)
      <3>1. /\ i \in DOMAIN ls /\ j \in DOMAIN ls[i] /\ m \in DOMAIN ls
            /\ x \in DOMAIN ls[m] /\ ls[i][j] = ls[m][x]
        BY <1>4, <2>4
      <3>2. QED
        BY <1>6, <3>1 DEF Distinct
    <2>5. QED
      BY <2>1, <2>2, <2>3, <2>4
  <1>7. ASSUME NEW os, NEW s, OfSide(ls, os, s), t \in DOMAIN os, os[t].side = s
        PROVE  OfSide(new, os, s)
    <2> SUFFICES ASSUME NEW i \in DOMAIN new, NEW j \in DOMAIN new[i]
                 PROVE  new[i][j] \in DOMAIN os /\ os[new[i][j]].side = s
      BY DEF OfSide
    <2>1. CASE IsNew(i, j)
      BY <1>3, <1>7, <2>1
    <2>2. CASE ~IsNew(i, j)
      BY <1>4, <1>7, <2>2 DEF OfSide
    <2>3. QED
      BY <2>1, <2>2
  <1>8. Holds(new, t)
    BY <1>0, <1>1, <1>2, <1>3 DEF Holds
  <1>9. ASSUME NEW u, Holds(ls, u) PROVE Holds(new, u)
    <2>1. PICK i \in DOMAIN ls : \E j \in DOMAIN ls[i] : ls[i][j] = u
      BY <1>9 DEF Holds
    <2>2. PICK j \in DOMAIN ls[i] : ls[i][j] = u
      BY <2>1
    <2>3. i \in DOMAIN new /\ j \in DOMAIN new[i] /\ new[i][j] = u
      <3>1. CASE i = k
        BY <1>1, <1>2, <1>3, <2>2, <3>1
      <3>2. CASE i # k
        BY <1>0, <1>1, <2>2, <3>2
      <3>3. QED
        BY <3>1, <3>2
    <2>4. QED
      BY <2>3 DEF Holds
  <1>12. ASSUME NEW u, Holds(new, u) PROVE u = t \/ Holds(ls, u)
    <2>1. PICK i \in DOMAIN new : \E j \in DOMAIN new[i] : new[i][j] = u
      BY <1>12 DEF Holds
    <2>2. PICK j \in DOMAIN new[i] : new[i][j] = u
      BY <2>1
    <2>3. CASE IsNew(i, j)
      BY <1>3, <2>2, <2>3
    <2>4. CASE ~IsNew(i, j)
      BY <1>4, <2>2, <2>4 DEF Holds
    <2>5. QED
      BY <2>3, <2>4
  <1>10. ASSUME NEW os, Sorted(ls, os), FitsInto(ls, os, t, k)
         PROVE  Sorted(new, os)
    <2> SUFFICES ASSUME NEW i \in DOMAIN new, NEW m \in DOMAIN new,
                        NEW j \in DOMAIN new[i], NEW x \in DOMAIN new[m]
                 PROVE  /\ i < m => Better(os[new[i][j]], os[new[m][x]])
                        /\ i = m => os[new[i][j]].price = os[new[m][x]].price
                        /\ i = m /\ j < x => new[i][j] < new[m][x]
      BY DEF Sorted
    <2>0. j \in Nat /\ x \in Nat /\ i \in Nat /\ m \in Nat /\ k \in Nat
      BY <1>0, <1>1, <1>5
    <2>1. CASE IsNew(i, j) /\ IsNew(m, x)
      BY <2>0, <2>1
    <2>2. CASE IsNew(i, j) /\ ~IsNew(m, x)
      <3>1. new[i][j] = t /\ i = k /\ j = z
        BY <1>3, <2>2
      <3>2. m \in DOMAIN ls /\ x \in DOMAIN ls[m] /\ new[m][x] = ls[m][x]
        BY <1>4, <2>2
      <3>3. i < m => Better(os[t], os[ls[m][x]])
        BY <1>10, <2>0, <3>1, <3>2 DEF FitsInto
      <3>4. i = m => os[ls[m][x]].price = os[t].price
        BY <1>10, <3>1, <3>2 DEF FitsInto
      <3>5. ~(i = m /\ j < x)
        BY <1>2, <2>0, <3>1, <3>2
      <3>6. QED
        BY <3>1, <3>2, <3>3, <3>4, <3>5
    <2>3. CASE ~IsNew(i, j) /\ IsNew(m, x)
      <3>1. new[m][x] = t /\ m = k
        BY <1>3, <2>3
      <3>2. i \in DOMAIN ls /\ j \in DOMAIN ls[i] /\ new[i][j] = ls[i][j]
        BY <1>4, <2>3
      <3>3. /\ i < m => Better(os[ls[i][j]], os[t])
            /\ i = m => os[ls[i][j]].price = os[t].price /\ ls[i][j] < t
        BY <1>10, <3>1, <3>2 DEF FitsInto
      <3>4. QED
        BY <3>1, <3>2, <3>3
    <2>4. CASE ~IsNew(i, j) /\ ~IsNew(m, x)
      <3>1. /\ i \in DOMAIN ls /\ j \in DOMAIN ls[i] /\ m \in DOMAIN ls
            /\ x \in DOMAIN ls[m] /\ new[i][j] = ls[i][j] /\ new[m][x] = ls[m][x]
        BY <1>4, <2>4
      <3>2. Sorted(ls, os)
        BY <1>10
      <3>3. /\ i < m => Better(os[ls[i][j]], os[ls[m][x]])
            /\ i = m => os[ls[i][j]].price = os[ls[m][x]].price
            /\ i = m /\ j < x => ls[i][j] < ls[m][x]
        BY <3>1, <3>2 DEF Sorted
      <3>4. QED
        BY <3>1, <3>3
    <2>5. QED
      BY <2>1, <2>2, <2>3, <2>4
  <1>11. QED
    BY <1>6, <1>7, <1>8, <1>9, <1>10, <1>12
\* The walk from the head stops, at the tail at the latest.
LEMMA InsertStops ==
    ASSUME NEW os, NEW t, NEW r, Shaped(r)
    PROVE  LET i == InsertPlace(r, os, t)
           IN  /\ i \in DOMAIN r.levels /\ StopsAt(r, os, t, i)
               /\ \A j \in 1 .. i - 1 : ~StopsAt(r, os, t, j)
  <1> DEFINE S == {i \in DOMAIN r.levels : StopsAt(r, os, t, i)}
  <1>1. DOMAIN r.levels \subseteq Nat /\ DOMAIN r.levels = 1 .. Len(r.levels)
        /\ Len(r.levels) \in Nat /\ r.tail \in DOMAIN r.levels
    BY ShapedList, Levels DEF Shaped
  <1>2. r.tail \in S
    BY <1>1 DEF StopsAt
  <1>3. PICK i \in S : \A m \in S : i <= m
    <2>1. S \subseteq Nat /\ S # {}
      BY <1>1, <1>2
    <2> HIDE DEF S
    <2>2. QED
      BY <2>1, Least
  <1>4. ASSUME NEW j \in 1 .. i - 1 PROVE ~StopsAt(r, os, t, j)
    <2>1. i \in DOMAIN r.levels /\ j \in DOMAIN r.levels /\ ~(i <= j)
      BY <1>1
    <2>2. j \notin S
      BY <1>3, <2>1
    <2>3. QED
      BY <2>1, <2>2
  <1>5. \E x \in DOMAIN r.levels :
           /\ StopsAt(r, os, t, x) /\ \A j \in 1 .. x - 1 : ~StopsAt(r, os, t, j)
    BY <1>3, <1>4
  <1>6. QED
    BY <1>5 DEF InsertPlace

\* A level appended to.
LEMMA JoinIs ==
    ASSUME NEW t \in Nat, NEW r, Shaped(r), NEW k \in DOMAIN r.levels,
           NEW l, l = [r EXCEPT !.levels[k] = Append(@, t)]
    PROVE  /\ Shaped(l) /\ l.tail = r.tail
           /\ Len(l.levels) = Len(r.levels)
           /\ \A i \in DOMAIN r.levels :
                 l.levels[i] = IF i = k THEN Append(r.levels[k], t)
                               ELSE r.levels[i]
  <1> DEFINE new == [r.levels EXCEPT ![k] = Append(r.levels[k], t)]
  <1>1. r.levels \in Seq(Seq(Nat)) /\ r.tail \in 1 .. Len(r.levels)
        /\ r = [levels |-> r.levels, tail |-> r.tail] /\ k \in 1 .. Len(r.levels)
        /\ r.levels[k] \in Seq(Nat)
    BY ShapedList, Levels
  <1>2. l = [levels |-> new, tail |-> r.tail]
    <2>1. l = [r EXCEPT !.levels = new]
      OBVIOUS
    <2> HIDE DEF new
    <2>2. QED
      BY <1>1, <2>1
  <1>3. Append(r.levels[k], t) \in Seq(Nat)
    BY <1>1, AppendProperties
  <1>4. new \in Seq(Seq(Nat)) /\ Len(new) = Len(r.levels)
        /\ \A i \in 1 .. Len(r.levels) :
              new[i] = IF i = k THEN Append(r.levels[k], t) ELSE r.levels[i]
    BY <1>1, <1>3, ExceptSeq
  <1>5. DOMAIN new = 1 .. Len(new) /\ DOMAIN r.levels = 1 .. Len(r.levels)
    BY <1>1, <1>4, LenProperties
  <1>6. Shaped(l)
    BY <1>1, <1>2, <1>4, <1>5 DEF Shaped, ListShape
  <1>7. QED
    BY <1>2, <1>4, <1>5, <1>6

\* insert() opens a level at k or joins level k of the rolled list.
Opens(l, r, os, t, k) ==
    /\ PutAt(l.levels, r.levels, t, k)
    /\ \/ /\ k = r.tail + 1 /\ l.tail = k /\ r.levels[r.tail] # <<>>
          /\ Better(os[r.levels[r.tail][1]], os[t])
          /\ \A j \in 1 .. r.tail - 1 : ~StopsAt(r, os, t, j)
       \/ /\ k \in DOMAIN r.levels /\ l.tail = r.tail + 1 /\ r.levels[k] # <<>>
          /\ Better(os[t], os[r.levels[k][1]])
          /\ \A j \in 1 .. k - 1 : ~StopsAt(r, os, t, j)

Joins(l, r, os, t, k) ==
    /\ JoinedAt(l.levels, r.levels, t, k) /\ l.tail = r.tail
    /\ r.levels[k] # <<>> => /\ ~Better(os[r.levels[k][1]], os[t])
                             /\ ~Better(os[t], os[r.levels[k][1]])
    /\ \A j \in 1 .. k - 1 : ~StopsAt(r, os, t, j)

LEMMA InsertIs ==
    ASSUME NEW os, NEW t \in Nat, NEW list0, Shaped(list0)
    PROVE  LET l == Insert(list0, os, t)
               r == Roll(list0, os)
           IN  /\ Shaped(l) /\ Shaped(r)
               /\ \E k \in Nat : Opens(l, r, os, t, k) \/ Joins(l, r, os, t, k)
  <1> DEFINE l == Insert(list0, os, t)
             r == Roll(list0, os)
             i == InsertPlace(r, os, t)
             level == r.levels[i]
             oldest == os[Head(level)]
  <1>1. Shaped(r)
    BY RollIs
  <1> HIDE DEF r
  <1>2. i \in DOMAIN r.levels /\ StopsAt(r, os, t, i)
        /\ \A j \in 1 .. i - 1 : ~StopsAt(r, os, t, j)
    BY <1>1, InsertStops
  <1> HIDE DEF i
  <1>3. /\ r.levels \in Seq(Seq(Nat)) /\ DOMAIN r.levels = 1 .. Len(r.levels)
        /\ Len(r.levels) \in Nat /\ r.tail \in 1 .. Len(r.levels)
    BY <1>1, ShapedList, Levels
  <1>4. level # <<>> => Head(level) = level[1]
    BY DEF Head
  <1>5. l = IF level # <<>> /\ Better(oldest, os[t])
            THEN [levels |-> PutLevel(r.levels, i + 1, <<t>>), tail |-> i + 1]
            ELSE IF level # <<>> /\ Better(os[t], oldest)
            THEN [levels |-> PutLevel(r.levels, i, <<t>>), tail |-> r.tail + 1]
            ELSE [r EXCEPT !.levels[i] = Append(@, t)]
    BY DEF Insert, r, i
  <1> HIDE DEF l
  <1>6. <<t>> \in Seq(Nat)
    OBVIOUS
  <1>7. CASE level # <<>> /\ Better(oldest, os[t])
    <2>1. l = [levels |-> PutLevel(r.levels, i + 1, <<t>>), tail |-> i + 1]
      BY <1>5, <1>7
    <2>2. i = r.tail
      BY <1>2, <1>7 DEF StopsAt
    <2>3. i + 1 \in 1 .. Len(r.levels) + 1 /\ i + 1 \in Nat
      BY <1>2, <1>3
    <2>4. PutLevel(r.levels, i + 1, <<t>>) \in Seq(Seq(Nat))
          /\ Len(PutLevel(r.levels, i + 1, <<t>>)) = Len(r.levels) + 1
      BY <1>3, <1>6, <2>3, PutIs
    <2>5. Shaped(l)
      BY <2>1, <2>3, <2>4, LenProperties DEF Shaped, ListShape
    <2>6. Opens(l, r, os, t, i + 1)
      BY <1>2, <1>4, <1>7, <2>1, <2>2, <2>3 DEF Opens, PutAt
    <2>7. QED
      BY <1>1, <2>3, <2>5, <2>6 DEF l, r
  <1>8. CASE level # <<>> /\ ~Better(oldest, os[t]) /\ Better(os[t], oldest)
    <2>1. l = [levels |-> PutLevel(r.levels, i, <<t>>), tail |-> r.tail + 1]
      BY <1>5, <1>8
    <2>2. i \in 1 .. Len(r.levels) + 1 /\ i \in Nat
          /\ r.tail + 1 \in 1 .. Len(r.levels) + 1 /\ r.tail + 1 \in Nat
      BY <1>2, <1>3
    <2>3. PutLevel(r.levels, i, <<t>>) \in Seq(Seq(Nat))
          /\ Len(PutLevel(r.levels, i, <<t>>)) = Len(r.levels) + 1
      BY <1>3, <1>6, <2>2, PutIs
    <2>4. Shaped(l)
      BY <2>1, <2>2, <2>3, LenProperties DEF Shaped, ListShape
    <2>5. Opens(l, r, os, t, i)
      BY <1>2, <1>4, <1>8, <2>1, <2>2 DEF Opens, PutAt
    <2>6. QED
      BY <1>1, <2>2, <2>4, <2>5 DEF l, r
  <1>9. CASE ~(level # <<>> /\ (Better(oldest, os[t]) \/ Better(os[t], oldest)))
    <2>1. l = [r EXCEPT !.levels[i] = Append(@, t)]
      BY <1>5, <1>9
    <2>2. /\ Shaped(l) /\ l.tail = r.tail /\ Len(l.levels) = Len(r.levels)
          /\ \A j \in DOMAIN r.levels :
                l.levels[j] = IF j = i THEN Append(r.levels[i], t) ELSE r.levels[j]
      BY <1>1, <1>2, <2>1, JoinIs
    <2>3. Joins(l, r, os, t, i)
      BY <1>2, <1>4, <1>9, <2>2 DEF Joins, JoinedAt
    <2>4. i \in Nat
      BY <1>2, <1>3
    <2>5. QED
      BY <1>1, <2>2, <2>3, <2>4 DEF l, r
  <1>10. QED
    BY <1>7, <1>8, <1>9
\* Inserting adds the ticket, and loses at most the filled head.
LEMMA InsertKeeps ==
    ASSUME NEW os, NEW s, NEW t \in Nat, NEW list0, Shaped(list0),
           NEW l, l = Insert(list0, os, t)
    PROVE  /\ Shaped(l)
           /\ Distinct(list0.levels) /\ ~Holds(list0.levels, t) => Distinct(l.levels)
           /\ OfSide(list0.levels, os, s) /\ t \in DOMAIN os /\ os[t].side = s
                 => OfSide(l.levels, os, s)
           /\ Holds(l.levels, t)
           /\ \A u : Holds(list0.levels, u) /\ ~Filled(os[u]) => Holds(l.levels, u)
           /\ \A u : Holds(l.levels, u) => u = t \/ Holds(Roll(list0, os).levels, u)
  <1> DEFINE r == Roll(list0, os)
  <1>1. Shaped(l) /\ Shaped(r)
        /\ \E k \in Nat : Opens(l, r, os, t, k) \/ Joins(l, r, os, t, k)
    BY InsertIs
  <1>2. /\ Distinct(list0.levels) => Distinct(r.levels)
        /\ OfSide(list0.levels, os, s) => OfSide(r.levels, os, s)
        /\ \A u : Holds(list0.levels, u) /\ ~Filled(os[u]) => Holds(r.levels, u)
        /\ Holds(r.levels, t) => Holds(list0.levels, t)
    BY RollKeeps
  <1> HIDE DEF r
  <1>3. PICK k \in Nat : Opens(l, r, os, t, k) \/ Joins(l, r, os, t, k)
    BY <1>1
  <1>4. r.levels \in Seq(Seq(Nat)) /\ l.levels \in Seq(Seq(Nat))
    BY <1>1, ShapedList
  <1>5. /\ Distinct(r.levels) /\ ~Holds(r.levels, t) => Distinct(l.levels)
        /\ OfSide(r.levels, os, s) /\ t \in DOMAIN os /\ os[t].side = s
              => OfSide(l.levels, os, s)
        /\ Holds(l.levels, t)
        /\ \A u : Holds(r.levels, u) => Holds(l.levels, u)
        /\ \A u : Holds(l.levels, u) => u = t \/ Holds(r.levels, u)
    <2> DEFINE ls == r.levels
               new == l.levels
    <2>0. ls \in Seq(Seq(Nat)) /\ new \in Seq(Seq(Nat))
      BY <1>4
    <2>1. CASE Opens(l, r, os, t, k)
      <3>1. PutAt(new, ls, t, k)
        BY <2>1 DEF Opens
      <3> HIDE DEF ls, new
      <3>2. /\ Distinct(ls) /\ ~Holds(ls, t) => Distinct(new)
            /\ OfSide(ls, os, s) /\ t \in DOMAIN os /\ os[t].side = s
                  => OfSide(new, os, s)
            /\ Holds(new, t)
            /\ \A u : Holds(ls, u) => Holds(new, u)
            /\ \A u : Holds(new, u) => u = t \/ Holds(ls, u)
        BY <2>0, <3>1, PutKeeps
      <3>3. QED
        BY <3>2 DEF ls, new
    <2>2. CASE Joins(l, r, os, t, k)
      <3>1. JoinedAt(new, ls, t, k)
        BY <2>2 DEF Joins
      <3> HIDE DEF ls, new
      <3>2. /\ Distinct(ls) /\ ~Holds(ls, t) => Distinct(new)
            /\ OfSide(ls, os, s) /\ t \in DOMAIN os /\ os[t].side = s
                  => OfSide(new, os, s)
            /\ Holds(new, t)
            /\ \A u : Holds(ls, u) => Holds(new, u)
            /\ \A u : Holds(new, u) => u = t \/ Holds(ls, u)
        BY <2>0, <3>1, JoinKeeps
      <3>3. QED
        BY <3>2 DEF ls, new
    <2>3. QED
      BY <1>3, <2>1, <2>2
  <1>6. QED
    BY <1>1, <1>2, <1>5 DEF r

\* Prices of one side are ordered.
LEMMA BetterOrders ==
    ASSUME NEW a, NEW b, NEW c, a.side = b.side, b.side = c.side,
           a.price \in Int, b.price \in Int, c.price \in Int
    PROVE  /\ Better(a, b) /\ Better(b, c) => Better(a, c)
           /\ a.price = b.price => (Better(a, c) <=> Better(b, c))
           /\ a.price = b.price => (Better(c, a) <=> Better(c, b))
           /\ ~Better(a, b) /\ ~Better(b, a) => a.price = b.price
  BY DEF Better

\* Into a sorted list, an order is inserted at its place.
LEMMA InsertSorts ==
    ASSUME NEW os, NEW s, NEW t \in Nat, NEW list0, Shaped(list0),
           NEW l, l = Insert(list0, os, t), NEW r, r = Roll(list0, os),
           OfSide(r.levels, os, s), t \in DOMAIN os, os[t].side = s,
           \A u \in DOMAIN os : os[u].price \in Int,
           \A u : Holds(r.levels, u) => u < t,
           Sorted(r.levels, os), Packed(r)
    PROVE  Sorted(l.levels, os) /\ Packed(l)
  <1> DEFINE ls == r.levels
             new == l.levels
             n == Len(ls)
             O(i, j) == os[ls[i][j]]
  <1>1. Shaped(l) /\ Shaped(r)
        /\ \E k \in Nat : Opens(l, r, os, t, k) \/ Joins(l, r, os, t, k)
    BY InsertIs
  <1>2. PICK k \in Nat : Opens(l, r, os, t, k) \/ Joins(l, r, os, t, k)
    BY <1>1
  <1>3. /\ ls \in Seq(Seq(Nat)) /\ new \in Seq(Seq(Nat))
        /\ n \in Nat /\ DOMAIN ls = 1 .. n /\ r.tail \in 1 .. n
        /\ DOMAIN new = 1 .. Len(new) /\ Len(new) \in Nat
    BY <1>1, ShapedList, Levels
  <1>4. \A i \in DOMAIN ls : /\ ls[i] # <<>> => 1 \in DOMAIN ls[i]
                             /\ ls[i] = <<>> => DOMAIN ls[i] = {}
    BY <1>3, Levels
  <1>5. \A i \in DOMAIN ls : \A j \in DOMAIN ls[i] :
            O(i, j).side = s /\ O(i, j).price \in Int
    BY DEF OfSide
  <1>6. os[t].side = s /\ os[t].price \in Int
    OBVIOUS
  <1>7. \A i \in DOMAIN ls : \A j \in DOMAIN ls[i] : O(i, j).price = O(i, 1).price
    <2> SUFFICES ASSUME NEW i \in DOMAIN ls, NEW j \in DOMAIN ls[i]
                 PROVE  O(i, j).price = O(i, 1).price
      OBVIOUS
    <2>1. 1 \in DOMAIN ls[i]
      BY <1>4
    <2>2. QED
      BY <2>1 DEF Sorted
  <1>8. ASSUME NEW i \in DOMAIN ls, NEW j \in DOMAIN ls[i]
        PROVE  /\ Better(O(i, 1), os[t]) => Better(O(i, j), os[t])
               /\ Better(os[t], O(i, 1)) => Better(os[t], O(i, j))
    <2>1. 1 \in DOMAIN ls[i]
      BY <1>4
    <2>2. O(i, j).price = O(i, 1).price
      BY <1>7
    <2>3. O(i, j).side = O(i, 1).side /\ O(i, 1).side = os[t].side
          /\ O(i, j).price \in Int /\ O(i, 1).price \in Int
      BY <1>5, <1>6, <2>1
    <2> DEFINE a == O(i, j)
               b == O(i, 1)
               c == os[t]
    <2>4. a.side = b.side /\ b.side = c.side /\ a.price = b.price
          /\ a.price \in Int /\ b.price \in Int /\ c.price \in Int
      BY <1>6, <2>2, <2>3
    <2> HIDE DEF a, b, c
    <2>5. (Better(a, c) <=> Better(b, c)) /\ (Better(c, a) <=> Better(c, b))
      BY <2>4, BetterOrders
    <2>6. QED
      BY <2>5 DEF a, b, c
  <1>9. ASSUME NEW i \in DOMAIN ls, ~StopsAt(r, os, t, i)
        PROVE  ls[i] # <<>> /\ i # r.tail
               /\ \A j \in DOMAIN ls[i] : Better(O(i, j), os[t])
    <2>1. ls[i] # <<>> /\ i # r.tail /\ Better(os[Head(ls[i])], os[t])
      BY <1>9 DEF StopsAt
    <2>2. Head(ls[i]) = ls[i][1]
      BY <2>1 DEF Head
    <2>3. QED
      BY <1>8, <2>1, <2>2
  <1>10. ASSUME NEW i \in DOMAIN ls, NEW m \in DOMAIN ls, i < m,
                ls[i] # <<>>, Better(os[t], O(i, 1)), NEW j \in DOMAIN ls[m]
         PROVE  Better(os[t], O(m, j))
    <2>1. 1 \in DOMAIN ls[i]
      BY <1>4, <1>10
    <2>2. Better(O(i, 1), O(m, j))
      BY <1>10, <2>1 DEF Sorted
    <2> DEFINE a == os[t]
               b == O(i, 1)
               c == O(m, j)
    <2>3. a.side = b.side /\ b.side = c.side
          /\ a.price \in Int /\ b.price \in Int /\ c.price \in Int
      BY <1>5, <1>6, <2>1
    <2>4. Better(a, b) /\ Better(b, c)
      BY <1>10, <2>2
    <2> HIDE DEF a, b, c
    <2>5. Better(a, c)
      BY <2>3, <2>4, BetterOrders
    <2>6. QED
      BY <2>5 DEF a, c
  <1>11. /\ \A i, m \in DOMAIN ls : i < m /\ ls[i] = <<>> => ls[m] = <<>>
         /\ \A i \in DOMAIN ls : r.tail < i => ls[i] = <<>>
    BY DEF Packed
  <1>12. CASE Opens(l, r, os, t, k)
    <2>1. PutAt(new, ls, t, k) /\ k \in 1 .. n + 1
      BY <1>12 DEF Opens, PutAt
    <2>2. /\ \A i \in DOMAIN ls : \A j \in DOMAIN ls[i] :
                /\ i < k => Better(O(i, j), os[t])
                /\ i >= k => Better(os[t], O(i, j))
          /\ \A i \in 1 .. n : i < k => ls[i] # <<>>
          /\ l.tail = r.tail + 1 /\ k <= r.tail + 1
      <3>1. CASE /\ k = r.tail + 1 /\ l.tail = k /\ ls[r.tail] # <<>>
                 /\ Better(O(r.tail, 1), os[t])
                 /\ \A j \in 1 .. r.tail - 1 : ~StopsAt(r, os, t, j)
        <4>1. \A i \in 1 .. n : i < k => i = r.tail \/ i \in 1 .. r.tail - 1
          BY <1>3, <3>1
        <4>2. \A i \in DOMAIN ls : i < k => \A j \in DOMAIN ls[i] : Better(O(i, j), os[t])
          BY <1>3, <1>8, <1>9, <3>1, <4>1
        <4>3. \A i \in DOMAIN ls : i >= k => DOMAIN ls[i] = {}
          <5>1. \A i \in DOMAIN ls : i >= k => r.tail < i
            BY <1>3, <3>1
          <5>2. QED
            BY <1>4, <1>11, <5>1
        <4>4. \A i \in 1 .. n : i < k => ls[i] # <<>>
          BY <1>3, <1>9, <3>1, <4>1
        <4>5. QED
          BY <1>3, <3>1, <4>2, <4>3, <4>4
      <3>2. CASE /\ k \in DOMAIN ls /\ l.tail = r.tail + 1 /\ ls[k] # <<>>
                 /\ Better(os[t], O(k, 1))
                 /\ \A j \in 1 .. k - 1 : ~StopsAt(r, os, t, j)
        <4>1. \A i \in 1 .. n : i < k => i \in 1 .. k - 1
          BY <1>3
        <4>2. \A i \in DOMAIN ls : i < k => \A j \in DOMAIN ls[i] : Better(O(i, j), os[t])
          BY <1>3, <1>9, <3>2, <4>1
        <4>3. \A j \in DOMAIN ls[k] : Better(os[t], O(k, j))
          BY <1>8, <3>2
        <4>4. \A i \in DOMAIN ls : k < i => \A j \in DOMAIN ls[i] : Better(os[t], O(i, j))
          BY <1>10, <3>2
        <4>5. \A i \in DOMAIN ls : i >= k => \A j \in DOMAIN ls[i] : Better(os[t], O(i, j))
          <5>1. \A i \in DOMAIN ls : i >= k => i = k \/ k < i
            BY <1>3
          <5>2. QED
            BY <4>3, <4>4, <5>1
        <4>6. \A i \in 1 .. n : i < k => ls[i] # <<>> /\ i # r.tail
          BY <1>3, <1>9, <3>2, <4>1
        <4>7. k <= r.tail
          BY <1>3, <4>6
        <4>8. QED
          BY <1>3, <3>2, <4>2, <4>5, <4>6, <4>7
      <3>3. QED
        BY <1>12, <3>1, <3>2 DEF Opens
    <2>3. Sorted(new, os)
      <3>1. Sorted(ls, os) /\ FitsBefore(ls, os, t, k)
        BY <2>2 DEF FitsBefore
      <3> HIDE DEF ls, new, n
      <3>2. QED
        BY <1>3, <2>1, <3>1, PutKeeps
    <2>4. /\ DOMAIN new = 1 .. n + 1
          /\ \A i \in 1 .. n + 1 :
                 /\ i < k => i \in 1 .. n /\ new[i] = ls[i]
                 /\ i = k => new[i] # <<>>
                 /\ i > k => i - 1 \in 1 .. n /\ new[i] = ls[i - 1]
      <3> HIDE DEF ls, new, n
      <3>1. ShiftedAt(new, ls, k)
        BY <1>3, <2>1, PutKeeps
      <3>2. QED
        BY <3>1 DEF ShiftedAt, n
    <2> HIDE DEF ls, new, n
    <2>6. ASSUME NEW i \in 1 .. n + 1, new[i] = <<>>
          PROVE  i > k /\ i - 1 \in 1 .. n /\ new[i] = ls[i - 1]
      <3>1. i # k /\ ~(i < k)
        BY <1>3, <2>2, <2>4, <2>6
      <3>2. i > k
        BY <1>3, <2>1, <3>1
      <3>3. QED
        BY <2>4, <3>2
    <2>7. ASSUME NEW i \in 1 .. n + 1, NEW m \in 1 .. n + 1, i < m, new[i] = <<>>
          PROVE  new[m] = <<>>
      <3>1. i > k /\ i - 1 \in 1 .. n /\ ls[i - 1] = <<>>
        BY <2>6, <2>7
      <3>2. m - 1 \in 1 .. n /\ i - 1 < m - 1 /\ ~(m < k) /\ m # k
        BY <1>3, <2>7, <3>1
      <3>3. new[m] = ls[m - 1]
        <4>1. m > k
          BY <1>3, <2>1, <3>2
        <4>2. QED
          BY <2>4, <4>1
      <3>4. QED
        BY <1>3, <1>11, <3>1, <3>2, <3>3
    <2>8. ASSUME NEW i \in 1 .. n + 1, l.tail < i PROVE new[i] = <<>>
      <3>1. i - 1 \in 1 .. n /\ r.tail < i - 1 /\ ~(i < k) /\ i # k
        BY <1>3, <2>2, <2>8
      <3>2. new[i] = ls[i - 1]
        <4>1. i > k
          BY <1>3, <2>1, <3>1
        <4>2. QED
          BY <2>4, <4>1
      <3>3. QED
        BY <1>3, <1>11, <3>1, <3>2
    <2>10. Packed(l)
      BY <2>4, <2>7, <2>8 DEF Packed, new
    <2>11. QED
      BY <2>3, <2>10 DEF new
  <1>13. CASE Joins(l, r, os, t, k)
    <2>1. /\ k \in DOMAIN ls /\ l.tail = r.tail /\ Len(new) = n
          /\ \A i \in DOMAIN ls : new[i] = IF i = k THEN Append(ls[k], t) ELSE ls[i]
          /\ ls[k] # <<>> => ~Better(O(k, 1), os[t]) /\ ~Better(os[t], O(k, 1))
          /\ \A j \in 1 .. k - 1 : ~StopsAt(r, os, t, j)
      BY <1>13 DEF Joins, JoinedAt
    <2>2. \A i \in 1 .. n : i < k => i \in 1 .. k - 1
      BY <1>3
    <2>3. \A i \in DOMAIN ls : i < k => ls[i] # <<>> /\ i # r.tail
                                      /\ \A j \in DOMAIN ls[i] : Better(O(i, j), os[t])
      BY <1>3, <1>9, <2>1, <2>2
    <2>4. ASSUME NEW j \in DOMAIN ls[k]
          PROVE  O(k, j).price = os[t].price /\ ls[k][j] < t
      <3>1. ls[k] # <<>> /\ 1 \in DOMAIN ls[k]
        BY <1>4, <2>1
      <3>2. O(k, 1).price = os[t].price
        <4> DEFINE a == O(k, 1)
                   b == os[t]
        <4>1. a.side = b.side /\ a.price \in Int /\ b.price \in Int
          BY <1>5, <1>6, <2>1, <3>1
        <4>2. ~Better(a, b) /\ ~Better(b, a)
          BY <2>1, <3>1
        <4> HIDE DEF a, b
        <4>3. a.price = b.price
          BY <4>1, <4>2, BetterOrders
        <4>4. QED
          BY <4>3 DEF a, b
      <3>3. Holds(ls, ls[k][j])
        BY <2>1 DEF Holds
      <3>4. QED
        BY <1>7, <2>1, <3>2, <3>3
    <2>5. ASSUME NEW i \in DOMAIN ls, i > k, NEW j \in DOMAIN ls[i]
          PROVE  Better(os[t], O(i, j))
      <3>1. ls[i] # <<>>
        BY <1>4
      <3>2. ls[k] # <<>> /\ 1 \in DOMAIN ls[k]
        BY <1>3, <1>4, <1>11, <2>1, <2>5, <3>1
      <3>3. Better(O(k, 1), O(i, j))
        <4>1. k < i /\ k \in DOMAIN ls
          BY <1>3, <2>1, <2>5
        <4>2. QED
          BY <3>2, <4>1 DEF Sorted
      <3> DEFINE a == O(k, 1)
                 b == os[t]
                 c == O(i, j)
      <3>4. a.side = b.side /\ b.side = c.side /\ a.price = b.price
            /\ a.price \in Int /\ b.price \in Int /\ c.price \in Int
        BY <1>5, <1>6, <2>1, <2>4, <3>2
      <3> HIDE DEF a, b, c
      <3>5. Better(a, c) => Better(b, c)
        BY <3>4, BetterOrders
      <3>6. QED
        BY <3>3, <3>5 DEF a, b, c
    <2>6. Sorted(new, os)
      <3>1. FitsInto(ls, os, t, k)
        BY <2>3, <2>4, <2>5 DEF FitsInto
      <3>2. Sorted(ls, os) /\ JoinedAt(new, ls, t, k)
        BY <1>13 DEF Joins
      <3> HIDE DEF ls, new, n
      <3>3. QED
        BY <1>3, <3>1, <3>2, JoinKeeps
    <2>7. new[k] # <<>>
      <3>1. ls[k] \in Seq(Nat) /\ new[k] = Append(ls[k], t)
        BY <1>3, <2>1, Levels
      <3>2. Append(ls[k], t) \in Seq(Nat) /\ Len(Append(ls[k], t)) = Len(ls[k]) + 1
            /\ Len(ls[k]) \in Nat
        BY <3>1, AppendProperties, LenProperties
      <3>3. Len(Append(ls[k], t)) # 0
        BY <3>2
      <3>4. QED
        BY <3>1, <3>2, <3>3, EmptySeq
    <2>8. k <= r.tail
      BY <1>3, <2>1, <2>3
    <2>9. DOMAIN new = DOMAIN ls
      BY <1>3, <2>1
    <2> HIDE DEF ls, new, n
    <2>10. ASSUME NEW i \in DOMAIN ls, NEW m \in DOMAIN ls, i < m, new[i] = <<>>
          PROVE  new[m] = <<>>
      <3>1. i # k /\ new[i] = ls[i]
        BY <2>1, <2>7, <2>10
      <3>2. ~(i < k)
        BY <2>3, <2>10, <3>1
      <3>3. m # k /\ new[m] = ls[m]
        BY <1>3, <2>1, <2>10, <3>1, <3>2
      <3>4. QED
        BY <1>11, <2>10, <3>1, <3>3
    <2>11. ASSUME NEW i \in DOMAIN ls, l.tail < i PROVE new[i] = <<>>
      <3>1. i # k
        BY <1>3, <2>1, <2>8, <2>11
      <3>2. QED
        BY <1>11, <2>1, <2>11, <3>1
    <2>12. Packed(l)
      BY <2>9, <2>10, <2>11 DEF Packed, new
    <2>13. QED
      BY <2>6, <2>12 DEF new
  <1>14. QED
    BY <1>2, <1>12, <1>13
-----------------------------------------------------------------------------
(* The two lists, whatever a step does to them. *)

\* The orders keep their sides and prices, and filled ones stay filled.
Kept ==
    /\ DOMAIN orders' = DOMAIN orders
    /\ \A t \in DOMAIN orders :
          /\ orders'[t].side = orders[t].side
          /\ orders'[t].price = orders[t].price
          /\ Filled(orders[t]) => Filled(orders'[t])

LEMMA KeptLists ==
    ASSUME Kept, NEW ls, NEW s, OfSide(ls, orders, s)
    PROVE  OfSide(ls, orders', s) /\ (Sorted(ls, orders) => Sorted(ls, orders'))
  <1>1. OfSide(ls, orders', s)
    BY DEF Kept, OfSide
  <1>2. ASSUME Sorted(ls, orders) PROVE Sorted(ls, orders')
    <2> SUFFICES ASSUME NEW i \in DOMAIN ls, NEW k \in DOMAIN ls,
                        NEW j \in DOMAIN ls[i], NEW m \in DOMAIN ls[k]
                 PROVE  /\ i < k => Better(orders'[ls[i][j]], orders'[ls[k][m]])
                        /\ i = k => orders'[ls[i][j]].price = orders'[ls[k][m]].price
                        /\ i = k /\ j < m => ls[i][j] < ls[k][m]
      BY DEF Sorted
    <2> DEFINE t == ls[i][j]
               u == ls[k][m]
    <2>1. t \in DOMAIN orders /\ u \in DOMAIN orders
      BY DEF OfSide
    <2>2. /\ i < k => Better(orders[t], orders[u])
          /\ i = k => orders[t].price = orders[u].price
          /\ i = k /\ j < m => t < u
      BY <1>2 DEF Sorted
    <2> HIDE DEF t, u
    <2>3. /\ orders'[t].side = orders[t].side /\ orders'[t].price = orders[t].price
          /\ orders'[u].side = orders[u].side /\ orders'[u].price = orders[u].price
      BY <2>1 DEF Kept
    <2>4. Better(orders[t], orders[u]) => Better(orders'[t], orders'[u])
      BY <2>3 DEF Better
    <2>5. QED
      BY <2>2, <2>3, <2>4 DEF t, u
  <1>3. QED
    BY <1>1, <1>2

LEMMA Lists ==
    ASSUME ListInv, NEW s \in Sides
    PROVE  Shaped(list[s]) /\ Distinct(list[s].levels)
           /\ OfSide(list[s].levels, orders, s)
  BY DEF ListInv

LEMMA ListsKept ==
    ASSUME ListInv, Kept, list' = list
    PROVE  ListInv'
  <1>1. list' \in [Sides -> ListShape]
    BY DEF ListInv
  <1>2. ASSUME NEW s \in Sides
        PROVE  Shaped(list'[s]) /\ Distinct(list'[s].levels)
               /\ OfSide(list'[s].levels, orders', s)
    BY Lists, KeptLists
  <1>3. ASSUME NEW t \in Live' PROVE Holds(list'[orders'[t].side].levels, t)
    <2>1. t \in Live /\ orders'[t].side = orders[t].side
      BY DEF Live, Kept, Tickets
    <2>2. QED
      BY <2>1 DEF ListInv
  <1>4. QED
    BY <1>1, <1>2, <1>3 DEF ListInv

LEMMA ListsSpread ==
    ASSUME ListInv, Kept, SpreadBoth, \A t \in DOMAIN orders : orders[t].side \in Sides
    PROVE  ListInv'
  <1>1. list' = [s \in Sides |-> Spread(list[s], orders)]
    BY DEF SpreadBoth
  <1>2. ASSUME NEW s \in Sides
        PROVE  Shaped(list'[s]) /\ Distinct(list'[s].levels)
               /\ OfSide(list'[s].levels, orders', s)
    <2>1. list'[s] = Spread(list[s], orders)
      BY <1>1
    <2>2. Shaped(list'[s]) /\ Distinct(list'[s].levels)
          /\ OfSide(list'[s].levels, orders, s)
      BY <2>1, Lists, SpreadKeeps
    <2>3. QED
      BY <2>2, KeptLists
  <1>3. list' \in [Sides -> ListShape]
    <2>1. \A s \in Sides : Spread(list[s], orders) \in ListShape
      BY <1>1, <1>2 DEF Shaped
    <2>2. QED
      BY <1>1, <2>1
  <1>4. ASSUME NEW t \in Live' PROVE Holds(list'[orders'[t].side].levels, t)
    <2> DEFINE s == orders[t].side
    <2>1. t \in Live /\ orders'[t].side = s /\ s \in Sides /\ ~Filled(orders[t])
      BY DEF Live, Kept, Tickets
    <2> HIDE DEF s
    <2>2. Shaped(list[s]) /\ Holds(list[s].levels, t)
      BY <2>1, Lists DEF ListInv, s
    <2>3. Holds(Spread(list[s], orders).levels, t)
      BY <2>1, <2>2, SpreadKeeps
    <2>4. QED
      BY <1>1, <2>1, <2>3
  <1>5. QED
    BY <1>2, <1>3, <1>4 DEF ListInv

\* What InsertOrder makes of the orders.
Inserted(o, t) ==
    /\ t = Len(orders) + 1 /\ t \in Nat /\ DOMAIN orders' = DOMAIN orders \cup {t}
    /\ \A u \in DOMAIN orders : u \in Nat /\ u < t /\ orders'[u] = orders[u]
    /\ orders'[t] = o

LEMMA ListsInserted ==
    ASSUME ListInv, NEW o, NEW t, Inserted(o, t), o.side \in Sides,
           list' = [list EXCEPT ![o.side] = Insert(@, orders', t)]
    PROVE  ListInv'
  <1> DEFINE side == o.side
  <1>1. ASSUME NEW s \in Sides PROVE OfSide(list[s].levels, orders', s)
    <2>1. OfSide(list[s].levels, orders, s)
      BY Lists
    <2>2. QED
      BY <2>1 DEF OfSide, Inserted
  <1>2. t \in Nat /\ t \in DOMAIN orders' /\ t \notin DOMAIN orders
        /\ orders'[t].side = side
    BY DEF Inserted
  <1>3. ASSUME NEW s \in Sides PROVE ~Holds(list[s].levels, t)
    BY <1>2, Lists DEF OfSide, Holds
  <1>4. list'[side] = Insert(list[side], orders', t) /\ side \in Sides
        /\ \A s \in Sides : s # side => list'[s] = list[s]
    BY DEF ListInv
  <1> DEFINE l == list'[side]
  <1>5. /\ Shaped(l) /\ Distinct(l.levels) /\ OfSide(l.levels, orders', side)
        /\ Holds(l.levels, t)
        /\ \A u : Holds(list[side].levels, u) /\ ~Filled(orders'[u]) => Holds(l.levels, u)
    <2> DEFINE l0 == list[side]
               os == orders'
    <2>1. Shaped(l0) /\ Distinct(l0.levels)
          /\ OfSide(l0.levels, os, side) /\ ~Holds(l0.levels, t)
      BY <1>1, <1>3, <1>4, Lists
    <2>2. l = Insert(l0, os, t) /\ t \in Nat /\ t \in DOMAIN os /\ os[t].side = side
      BY <1>2, <1>4
    <2> HIDE DEF l, l0, os, side
    <2>3. /\ Shaped(l) /\ Distinct(l.levels) /\ OfSide(l.levels, os, side)
          /\ Holds(l.levels, t)
          /\ \A u : Holds(l0.levels, u) /\ ~Filled(os[u]) => Holds(l.levels, u)
      BY <2>1, <2>2, InsertKeeps
    <2>4. QED
      BY <2>3 DEF l0, os
  <1>6. ASSUME NEW s \in Sides
        PROVE  Shaped(list'[s]) /\ Distinct(list'[s].levels)
               /\ OfSide(list'[s].levels, orders', s)
    <2>1. CASE s = side
      BY <1>5, <2>1
    <2>2. CASE s # side
      BY <1>1, <1>4, <2>2, Lists
    <2>3. QED
      BY <2>1, <2>2
  <1>7. list' \in [Sides -> ListShape]
    <2>1. Insert(list[side], orders', t) \in ListShape
      BY <1>4, <1>5 DEF Shaped
    <2>2. QED
      BY <2>1 DEF ListInv
  <1>8. ASSUME NEW u \in Live' PROVE Holds(list'[orders'[u].side].levels, u)
    <2>1. CASE u = t
      BY <1>2, <1>5, <2>1
    <2>2. CASE u # t
      <3>1. u \in Live /\ orders'[u] = orders[u] /\ ~Filled(orders'[u])
        BY <2>2 DEF Live, Inserted, Tickets
      <3>2. Holds(list[orders[u].side].levels, u)
        BY <3>1 DEF ListInv
      <3>3. CASE orders[u].side = side
        BY <1>5, <3>1, <3>2, <3>3
      <3>4. CASE orders[u].side # side
        <4>1. list'[orders[u].side] = list[orders[u].side]
          BY <3>4 DEF ListInv
        <4>2. QED
          BY <3>1, <3>2, <4>1
      <3>5. QED
        BY <3>3, <3>4
    <2>3. QED
      BY <2>1, <2>2
  <1>9. QED
    BY <1>6, <1>7, <1>8 DEF ListInv

-----------------------------------------------------------------------------
(* The orders, as a step changes them. *)

LEMMA OrdersAre ==
    ASSUME StateInv
    PROVE  /\ orders \in Seq(Order) /\ Len(orders) \in Nat
           /\ Tickets = 1 .. Len(orders) /\ Tickets \subseteq 1 .. MaxTickets
           /\ DOMAIN orders = Tickets /\ NoTicket \notin Tickets
           /\ MaxTickets \in Nat
           /\ \A t \in Tickets : orders[t] \in Order
  <1>1. orders \in Seq(Order) /\ Len(orders) <= MaxTickets /\ MaxTickets \in Nat
    BY MarketAssumption DEF StateInv, OrdersInv
  <1>2. Len(orders) \in Nat /\ DOMAIN orders = 1 .. Len(orders)
        /\ \A t \in 1 .. Len(orders) : orders[t] \in Order
    BY <1>1, LenProperties, ElementOfSeq
  <1>3. QED
    BY <1>1, <1>2 DEF Tickets, NoTicket

\* An order with the fields that the code reads.
LEMMA OrderIs ==
    ASSUME NEW o \in Order
    PROVE  /\ o.side \in Sides /\ o.price \in Prices /\ o.price \in Nat
           /\ o.bot \in BOOLEAN /\ o.kind \in Kinds \cup {"stop"}
           /\ o.quantity \in Nat /\ o.open \in Nat /\ o.leaves \in Nat
           /\ o.executed \in Nat /\ o.active \in Nat
           /\ o.active \in Quantities \cup {0} /\ o.last \in Prices
           /\ o.closer \in BOOLEAN /\ o.closes \in 0 .. MaxTickets
           /\ o.day \in 1 .. MaxDay /\ o.day \in Int
  <1>1. /\ o.side \in Sides /\ o.price \in Prices
        /\ o.bot \in BOOLEAN /\ o.kind \in Kinds \cup {"stop"}
        /\ o.quantity \in Nat /\ o.open \in Nat /\ o.leaves \in Nat
        /\ o.executed \in Nat /\ o.active \in Quantities \cup {0}
        /\ o.last \in Prices /\ o.closer \in BOOLEAN
        /\ o.closes \in 0 .. MaxTickets /\ o.day \in 1 .. MaxDay
    BY DEF Order
  <1>2. o.price \in Nat /\ o.active \in Nat
    <2>1. Prices \subseteq Nat /\ Quantities \cup {0} \subseteq Nat
      BY MarketAssumption
    <2>2. QED
      BY <1>1, <2>1
  <1>3. o.day \in Int
    BY <1>1, MarketAssumption
  <1>4. QED
    BY <1>1, <1>2, <1>3

LEMMA Appended ==
    ASSUME StateInv, NEW o \in Order, orders' = Append(orders, o)
    PROVE  /\ orders' \in Seq(Order) /\ Len(orders') = Len(orders) + 1
           /\ Inserted(o, Len(orders) + 1)
  <1>1. orders \in Seq(Order) /\ Len(orders) \in Nat /\ Tickets = 1 .. Len(orders)
        /\ DOMAIN orders = Tickets
    BY OrdersAre
  <1>2. orders' \in Seq(Order) /\ Len(orders') = Len(orders) + 1
        /\ (\A t \in 1 .. Len(orders) : orders'[t] = orders[t])
        /\ orders'[Len(orders) + 1] = o
    BY <1>1, AppendProperties
  <1>3. DOMAIN orders' = 1 .. Len(orders')
    BY <1>2, LenProperties
  <1>4. QED
    BY <1>1, <1>2, <1>3 DEF Inserted

\* One order is rewritten, or two.
LEMMA Replaced ==
    ASSUME StateInv, NEW t \in Tickets, NEW o \in Order,
           orders' = [orders EXCEPT ![t] = o]
    PROVE  /\ orders' \in Seq(Order) /\ Len(orders') = Len(orders)
           /\ DOMAIN orders' = DOMAIN orders /\ Tickets' = Tickets
           /\ \A u \in Tickets : orders'[u] = IF u = t THEN o ELSE orders[u]
  <1>1. orders \in Seq(Order) /\ Tickets = 1 .. Len(orders)
    BY OrdersAre
  <1>2. orders' \in Seq(Order) /\ Len(orders') = Len(orders)
        /\ \A u \in Tickets : orders'[u] = IF u = t THEN o ELSE orders[u]
    BY <1>1, ExceptSeq
  <1>3. QED
    BY <1>2 DEF Tickets

Both(b, a, ob, oa) == orders' = [orders EXCEPT ![b] = ob, ![a] = oa]

LEMMA BothReplaced ==
    ASSUME StateInv, NEW b \in Tickets, NEW a \in Tickets, a # b,
           NEW ob \in Order, NEW oa \in Order, Both(b, a, ob, oa)
    PROVE  /\ orders' \in Seq(Order) /\ Len(orders') = Len(orders)
           /\ DOMAIN orders' = DOMAIN orders /\ Tickets' = Tickets
           /\ \A u \in Tickets : orders'[u] = IF u = b THEN ob ELSE
                                              IF u = a THEN oa ELSE orders[u]
  <1> DEFINE f == [orders EXCEPT ![b] = ob]
  <1>1. orders \in Seq(Order) /\ Tickets = 1 .. Len(orders)
    BY OrdersAre
  <1>2. f \in Seq(Order) /\ Len(f) = Len(orders)
        /\ (\A u \in Tickets : f[u] = IF u = b THEN ob ELSE orders[u])
        /\ DOMAIN f = DOMAIN orders
    BY <1>1, ExceptSeq
  <1>3. orders' = [f EXCEPT ![a] = oa]
    BY DEF Both
  <1> HIDE DEF f
  <1>4. orders' \in Seq(Order) /\ Len(orders') = Len(f)
        /\ \A u \in Tickets : orders'[u] = IF u = a THEN oa ELSE f[u]
    BY <1>1, <1>2, <1>3, ExceptSeq
  <1>5. DOMAIN orders' = DOMAIN orders
    BY <1>2, <1>3
  <1>6. QED
    BY <1>2, <1>4, <1>5 DEF Tickets

-----------------------------------------------------------------------------
(* The lists stay sorted. *)

\* Rolling a packed list leaves it packed: a head that goes was alone.
LEMMA RollPacks ==
    ASSUME NEW os, NEW l, Shaped(l), Packed(l), HeadOnly(l.levels, os, FALSE)
    PROVE  Packed(Roll(l, os))
  <1> DEFINE r == Roll(l, os)
             ls == l.levels
             new == r.levels
  <1>1. ls \in Seq(Seq(Nat)) /\ new \in Seq(Seq(Nat)) /\ DOMAIN new = DOMAIN ls
        /\ 1 \in DOMAIN ls /\ DOMAIN ls \subseteq Nat /\ r.tail = l.tail
        /\ \A i \in DOMAIN ls : new[i] = IF i = 1 THEN Leave(ls[1], os) ELSE ls[i]
    BY RollIs, ShapedList, Levels
  <1>2. CASE Gone(ls[1], os) = 0
    <2>1. Leave(ls[1], os) = ls[1]
      <3>1. ls[1] # <<>> => Head(ls[1]) = ls[1][1]
        BY DEF Head
      <3>2. QED
        BY <1>2, <3>1 DEF Gone, Leave
    <2>2. \A i \in DOMAIN ls : new[i] = ls[i]
      BY <1>1, <2>1
    <2> HIDE DEF new
    <2>3. QED
      BY <1>1, <2>2 DEF Packed, new
  <1>3. CASE Gone(ls[1], os) # 0
    <2>1. ls[1] # <<>> /\ Filled(os[ls[1][1]])
      BY <1>3 DEF Gone
    <2>2. 1 \in DOMAIN ls[1]
      BY <1>1, <2>1, Levels
    <2>3. \A k \in DOMAIN ls : \A m \in DOMAIN ls[k] : k = 1 /\ m = 1
      BY <1>1, <2>1, <2>2 DEF HeadOnly
    <2>4. ASSUME NEW k \in DOMAIN ls PROVE new[k] = <<>>
      <3>1. CASE k # 1
        <4>1. DOMAIN ls[k] = {}
          BY <2>3, <3>1
        <4>2. QED
          BY <1>1, <3>1, <4>1, Levels
      <3>2. CASE k = 1
        <4>1. Len(ls[1]) = 1
          <5>1. DOMAIN ls[1] = 1 .. Len(ls[1]) /\ Len(ls[1]) \in Nat
            BY <1>1, Levels
          <5>2. Len(ls[1]) \in DOMAIN ls[1]
            BY <2>2, <5>1
          <5>3. QED
            BY <2>3, <5>2, <1>1
        <4>2. ls[1] \in Seq(Nat) /\ Gone(ls[1], os) = 1
          BY <1>1, <1>3, Levels DEF Gone
        <4>3. Len(Leave(ls[1], os)) = 0 /\ Leave(ls[1], os) \in Seq(Nat)
          BY <4>1, <4>2, LeaveIs
        <4>4. QED
          BY <1>1, <3>2, <4>3, EmptySeq
      <3>3. QED
        BY <3>1, <3>2
    <2> HIDE DEF new
    <2>5. QED
      BY <1>1, <2>4 DEF Packed, new
  <1>4. QED
    BY <1>2, <1>3

LEMMA Sorts ==
    ASSUME SortInv, mode # "external", NEW s \in Sides
    PROVE  Sorted(list[s].levels, orders) /\ Packed(list[s])
           /\ HeadOnly(list[s].levels, orders, round.pc = "match")
  BY DEF SortInv

LEMMA NoneFilledIsHeadOnly ==
    ASSUME NEW ls, NEW os, NEW looping, NoneFilled(ls, os)
    PROVE  HeadOnly(ls, os, looping)
  BY DEF NoneFilled, HeadOnly

\* Orders that stay, fill no more and no less.
LEMMA SortsKept ==
    ASSUME ListInv, SortInv, Kept, list' = list, mode' = mode,
           \A t \in DOMAIN orders : Filled(orders'[t]) => Filled(orders[t]),
           round'.pc = "match" <=> round.pc = "match"
    PROVE  SortInv'
  <1>1. ASSUME mode # "external", NEW s \in Sides
        PROVE  /\ Sorted(list'[s].levels, orders') /\ Packed(list'[s])
               /\ HeadOnly(list'[s].levels, orders', round'.pc = "match")
    <2> DEFINE ls == list[s].levels
               looping == round.pc = "match"
    <2>1. Sorted(ls, orders) /\ Packed(list[s]) /\ HeadOnly(ls, orders, looping)
      BY <1>1, Sorts
    <2>2. OfSide(ls, orders, s)
      BY Lists
    <2>3. Sorted(ls, orders')
      BY <2>1, <2>2, KeptLists
    <2>4. (round'.pc = "match") = looping
      OBVIOUS
    <2> HIDE DEF looping
    <2>5. HeadOnly(ls, orders', looping)
      BY <2>1, <2>2 DEF HeadOnly, OfSide
    <2>6. QED
      BY <2>1, <2>3, <2>4, <2>5
  <1>2. QED
    BY <1>1 DEF SortInv

\* The loop ends on two empty lists: a filled head, if any, is all they hold.
LEMMA EmptyIsAlone ==
    ASSUME NEW os, NEW l, Shaped(l), Packed(l), IsEmpty(l, os),
           HeadOnly(l.levels, os, TRUE)
    PROVE  HeadOnly(l.levels, os, FALSE)
  <1> DEFINE ls == l.levels
  <1>1. ls \in Seq(Seq(Nat)) /\ 1 \in DOMAIN ls /\ DOMAIN ls \subseteq Nat
        /\ \A i \in DOMAIN ls : DOMAIN ls[i] = 1 .. Len(ls[i]) /\ Len(ls[i]) \in Nat
                                /\ (ls[i] = <<>> <=> Len(ls[i]) = 0)
    BY ShapedList, Levels
  <1>2. DOMAIN ls = 1 .. Len(ls)
    BY <1>1, Levels
  <1>3. l.tail = 1 /\ Len(ls[1]) <= 1
    BY DEF IsEmpty
  <1>4. ASSUME NEW k \in DOMAIN ls, NEW m \in DOMAIN ls[k] PROVE k = 1 /\ m = 1
    <2>1. CASE k # 1
      <3>1. ls[k] = <<>>
        BY <1>2, <1>3, <2>1 DEF Packed
      <3>2. QED
        BY <1>1, <3>1
    <2>2. CASE k = 1
      BY <1>1, <1>3, <2>2
    <2>3. QED
      BY <2>1, <2>2
  <1>5. QED
    BY <1>4 DEF HeadOnly

LEMMA SortsEnd ==
    ASSUME ListInv, SortInv, orders' = orders, list' = list, mode' = mode,
           BidEmpty, AskEmpty, round'.pc # "match"
    PROVE  SortInv'
  <1>1. ASSUME mode # "external", NEW s \in Sides
        PROVE  /\ Sorted(list'[s].levels, orders') /\ Packed(list'[s])
               /\ HeadOnly(list'[s].levels, orders', round'.pc = "match")
    <2>1. Sorted(list[s].levels, orders) /\ Packed(list[s])
          /\ HeadOnly(list[s].levels, orders, round.pc = "match") /\ Shaped(list[s])
      BY <1>1, Sorts, Lists
    <2>2. IsEmpty(list[s], orders)
      BY DEF BidEmpty, AskEmpty, Sides
    <2>3. HeadOnly(list[s].levels, orders, TRUE)
      BY <2>1 DEF HeadOnly
    <2>4. HeadOnly(list[s].levels, orders, FALSE)
      BY <2>1, <2>2, <2>3, EmptyIsAlone
    <2>5. (round'.pc = "match") = FALSE
      OBVIOUS
    <2>6. QED
      BY <2>1, <2>4, <2>5
  <1>2. QED
    BY <1>1 DEF SortInv

\* After spread(), what the pair's execution fills is at the head.
LEMMA SortsSpread ==
    ASSUME ListInv, SortInv, Kept, SpreadBoth, mode' = mode,
           NEW heads, \A t \in DOMAIN orders \ heads :
                         Filled(orders'[t]) => Filled(orders[t]),
           \A s \in Sides : \A t \in heads :
               t \in DOMAIN orders /\ orders[t].side = s =>
                   /\ 1 \in DOMAIN Spread(list[s], orders).levels
                   /\ 1 \in DOMAIN Spread(list[s], orders).levels[1]
                   /\ t = Spread(list[s], orders).levels[1][1],
           heads = {} \/ round'.pc = "match"
    PROVE  SortInv'
  <1>1. ASSUME mode # "external", NEW s \in Sides
        PROVE  /\ Sorted(list'[s].levels, orders') /\ Packed(list'[s])
               /\ HeadOnly(list'[s].levels, orders', round'.pc = "match")
    <2> DEFINE l == Spread(list[s], orders)
               ls == l.levels
               looping == round'.pc = "match"
    <2>1. Sorted(list[s].levels, orders) /\ Packed(list[s])
          /\ HeadOnly(list[s].levels, orders, round.pc = "match") /\ Shaped(list[s])
          /\ Distinct(list[s].levels) /\ OfSide(list[s].levels, orders, s)
      BY <1>1, Sorts, Lists
    <2>2. list'[s] = l
      BY DEF SpreadBoth
    <2>3. Shaped(l) /\ Distinct(ls) /\ OfSide(ls, orders, s) /\ Sorted(ls, orders)
      BY <2>1, SpreadKeeps
    <2>4. Packed(l)
      BY <2>1, SpreadPacks
    <2>5. NoneFilled(ls, orders)
      BY <2>1, HeadGoes
    <2>6. \A t \in heads : t \in DOMAIN orders /\ orders[t].side = s =>
             1 \in DOMAIN ls /\ 1 \in DOMAIN ls[1] /\ t = ls[1][1]
      OBVIOUS
    <2>7. heads = {} \/ looping
      OBVIOUS
    <2> HIDE DEF l, looping
    <2>8. Sorted(ls, orders')
      BY <2>3, KeptLists
    <2>9. HeadOnly(ls, orders', looping)
      <3> SUFFICES ASSUME NEW i \in DOMAIN ls, NEW j \in DOMAIN ls[i],
                          Filled(orders'[ls[i][j]])
                   PROVE  i = 1 /\ j = 1 /\ looping
        BY DEF HeadOnly
      <3>1. ls[i][j] \in DOMAIN orders /\ orders[ls[i][j]].side = s
        BY <2>3 DEF OfSide
      <3>2. ~Filled(orders[ls[i][j]])
        BY <2>5 DEF NoneFilled
      <3>3. ls[i][j] \in heads
        BY <3>1, <3>2
      <3>4. 1 \in DOMAIN ls /\ 1 \in DOMAIN ls[1] /\ ls[i][j] = ls[1][1]
        BY <2>6, <3>1, <3>3
      <3>5. QED
        BY <2>3, <2>7, <3>3, <3>4 DEF Distinct
    <2>10. QED
      BY <2>2, <2>4, <2>8, <2>9 DEF looping
  <1>2. QED
    BY <1>1 DEF SortInv

\* An order is inserted while the loop is off.
LEMMA SortsInserted ==
    ASSUME StateInv, ListInv, SortInv, NEW o \in Order, ~Filled(o), NEW t, Inserted(o, t),
           list' = [list EXCEPT ![o.side] = Insert(@, orders', t)],
           mode' = mode, round' = round, MutexIsFree
    PROVE  SortInv'
  <1> DEFINE side == o.side
  <1>1. t \in Nat /\ t \in DOMAIN orders' /\ orders'[t] = o /\ side \in Sides
        /\ DOMAIN orders' = DOMAIN orders \cup {t}
        /\ \A u \in DOMAIN orders : u < t /\ orders'[u] = orders[u]
    BY OrderIs DEF Inserted
  <1>2. ASSUME NEW u \in DOMAIN orders' PROVE orders'[u].price \in Int
    <2>1. orders'[u] \in Order
      BY <1>1, OrdersAre
    <2>2. QED
      BY <2>1, OrderIs
  <1>3. (round'.pc = "match") = FALSE /\ (round.pc = "match") = FALSE
    BY DEF MutexIsFree
  <1>4. ASSUME mode # "external", NEW s \in Sides
        PROVE  /\ Sorted(list[s].levels, orders') /\ Packed(list[s])
               /\ HeadOnly(list[s].levels, orders', FALSE)
               /\ OfSide(list[s].levels, orders', s)
    <2> DEFINE ls == list[s].levels
    <2>1. Sorted(ls, orders) /\ Packed(list[s]) /\ HeadOnly(ls, orders, FALSE)
          /\ OfSide(ls, orders, s)
      BY <1>3, <1>4, Sorts, Lists
    <2>2. \A i \in DOMAIN ls : \A j \in DOMAIN ls[i] :
             ls[i][j] \in DOMAIN orders' /\ orders'[ls[i][j]] = orders[ls[i][j]]
      BY <1>1, <2>1 DEF OfSide
    <2>3. Sorted(ls, orders')
      BY <2>1, <2>2 DEF Sorted
    <2>4. HeadOnly(ls, orders', FALSE)
      BY <2>1, <2>2 DEF HeadOnly
    <2>5. OfSide(ls, orders', s)
      BY <2>1, <2>2 DEF OfSide
    <2>6. QED
      BY <2>1, <2>3, <2>4, <2>5
  <1>5. ASSUME mode # "external"
        PROVE  /\ Sorted(list'[side].levels, orders') /\ Packed(list'[side])
               /\ HeadOnly(list'[side].levels, orders', FALSE)
    <2> DEFINE l0 == list[side]
               l == list'[side]
               os == orders'
               r == Roll(l0, os)
    <2>1. Sorted(l0.levels, os) /\ Packed(l0) /\ HeadOnly(l0.levels, os, FALSE)
          /\ OfSide(l0.levels, os, side) /\ Shaped(l0)
      BY <1>1, <1>4, <1>5, Lists
    <2>2. l = Insert(l0, os, t)
      BY <1>1 DEF ListInv
    <2>3. t \in Nat /\ t \in DOMAIN os /\ os[t].side = side /\ ~Filled(os[t])
          /\ \A u \in DOMAIN os : os[u].price \in Int
      BY <1>1, <1>2
    <2>4. \A u : Holds(l0.levels, u) => u < t
      <3>1. ASSUME NEW u, Holds(l0.levels, u) PROVE u < t
        <4>1. u \in DOMAIN orders
          BY <1>1, <3>1, Lists DEF Holds, OfSide
        <4>2. QED
          BY <1>1, <4>1
      <3>2. QED
        BY <3>1
    <2>5. r = Roll(l0, os)
      OBVIOUS
    <2> HIDE DEF l0, l, os, r, side
    <2>6. Sorted(r.levels, os) /\ OfSide(r.levels, os, side)
          /\ \A u : Holds(r.levels, u) => Holds(l0.levels, u)
      BY <2>1, <2>5, RollKeeps
    <2>7. Packed(r) /\ NoneFilled(r.levels, os)
      BY <2>1, <2>5, RollPacks, HeadGoes
    <2>8. \A u : Holds(r.levels, u) => u < t
      BY <2>4, <2>6
    <2>9. Sorted(l.levels, os) /\ Packed(l)
      BY <2>1, <2>2, <2>3, <2>5, <2>6, <2>7, <2>8, InsertSorts
    <2>10. \A u : Holds(l.levels, u) => u = t \/ Holds(r.levels, u)
      BY <2>1, <2>2, <2>3, <2>5, InsertKeeps
    <2>11. NoneFilled(l.levels, os)
      BY <2>3, <2>7, <2>10 DEF NoneFilled, Holds
    <2>12. HeadOnly(l.levels, os, FALSE)
      BY <2>11, NoneFilledIsHeadOnly
    <2>13. QED
      BY <2>9, <2>12 DEF l, os
  <1>6. ASSUME mode # "external", NEW s \in Sides
        PROVE  /\ Sorted(list'[s].levels, orders') /\ Packed(list'[s])
               /\ HeadOnly(list'[s].levels, orders', round'.pc = "match")
    <2>1. CASE s = side
      BY <1>3, <1>5, <1>6, <2>1
    <2>2. CASE s # side
      <3>1. list'[s] = list[s]
        BY <2>2 DEF ListInv
      <3>2. QED
        BY <1>3, <1>4, <1>6, <3>1
    <2>3. QED
      BY <2>1, <2>2
  <1>7. QED
    BY <1>6 DEF SortInv

-----------------------------------------------------------------------------
(* What a trade does to its pair. *)

\* execute(): o has become e.
Executes(o, e, price, q) ==
    /\ e.side = o.side /\ e.kind = o.kind /\ e.price = o.price /\ e.bot = o.bot
    /\ e.quantity = o.quantity /\ e.active = o.active /\ e.closer = o.closer
    /\ e.closes = o.closes /\ e.day = o.day /\ e.last = price
    /\ e.executed = o.executed + Smaller(q, o.leaves)
    /\ e.leaves = o.leaves - Smaller(q, o.leaves)
    /\ e.open = IF o.closer THEN OpenAfter(o, Smaller(q, o.leaves)) ELSE o.open

LEMMA ExecutedIs ==
    ASSUME NEW o \in Order, NEW price \in Prices, NEW q \in Nat,
           NEW e, e = Executed(o, price, q)
    PROVE  /\ e \in Order /\ Executes(o, e, price, q)
           /\ Adds(o) => Adds(e)
           /\ Adds(o) /\ Filled(o) => Filled(e)
  <1> DEFINE m == Smaller(q, o.leaves)
             left == o.leaves - m
             done == o.executed + m
             rest == IF o.closer THEN OpenAfter(o, m) ELSE o.open
  <1>1. /\ o.quantity \in Nat /\ o.open \in Nat /\ o.leaves \in Nat
        /\ o.executed \in Nat /\ o.active \in Nat /\ o.closer \in BOOLEAN
    BY OrderIs
  <1>2. m \in Nat /\ m <= o.leaves /\ left \in Nat /\ done \in Nat
    BY <1>1 DEF Smaller
  <1>3. rest \in Nat /\ (o.open = 0 => rest = 0) /\ (m = 0 /\ ~o.closer => rest = o.open)
    BY <1>1, <1>2 DEF OpenAfter
  <1>4. e = [o EXCEPT !.leaves = left, !.executed = done, !.last = price, !.open = rest]
    BY DEF Executed
  <1> HIDE DEF m, left, done, rest
  <1>5. o = [side |-> o.side, kind |-> o.kind, price |-> o.price, bot |-> o.bot,
             quantity |-> o.quantity, open |-> o.open, leaves |-> o.leaves,
             executed |-> o.executed, active |-> o.active, last |-> o.last,
             closer |-> o.closer, closes |-> o.closes, day |-> o.day]
    BY DEF Order
  <1>6. e = [side |-> o.side, kind |-> o.kind, price |-> o.price, bot |-> o.bot,
             quantity |-> o.quantity, open |-> rest, leaves |-> left,
             executed |-> done, active |-> o.active, last |-> price,
             closer |-> o.closer, closes |-> o.closes, day |-> o.day]
    BY <1>4, <1>5
  <1>7. e \in Order
    <2>1. /\ o.side \in Sides /\ o.kind \in Kinds \cup {"stop"} /\ o.price \in Prices
          /\ o.bot \in BOOLEAN /\ o.active \in Quantities \cup {0}
          /\ o.closes \in 0 .. MaxTickets /\ o.day \in 1 .. MaxDay
      BY OrderIs
    <2>2. QED
      BY <1>1, <1>2, <1>3, <1>6, <2>1 DEF Order
  <1>8. e.executed = done /\ e.leaves = left /\ e.open = rest /\ e.quantity = o.quantity
    BY <1>6
  <1>9. Executes(o, e, price, q)
    BY <1>6 DEF Executes, m, left, done, rest
  <1>10. ASSUME Adds(o) PROVE Adds(e)
    <2>1. done + left = o.executed + o.leaves
      BY <1>1, <1>2 DEF done, left
    <2>2. QED
      BY <1>3, <1>8, <1>10, <2>1 DEF Adds
  <1>11. ASSUME Adds(o), Filled(o) PROVE Filled(e)
    <2>1. CASE o.open = 0
      BY <1>3, <1>8, <2>1 DEF Filled
    <2>2. CASE o.open # 0
      <3>1. o.leaves = 0
        BY <1>1, <1>11, <2>2 DEF Adds, Filled
      <3>2. done = o.executed
        BY <1>1, <1>2, <3>1 DEF done, left
      <3>3. QED
        BY <1>8, <1>11, <2>2, <3>2 DEF Filled
    <2>3. QED
      BY <2>1, <2>2
  <1>12. QED
    BY <1>7, <1>9, <1>10, <1>11

LEMMA EmptyOffersNone ==
    ASSUME NEW os, NEW l, Shaped(l), IsEmpty(l, os)
    PROVE  Offered(l, os) = NoTicket
  <1> DEFINE level == l.levels[1]
  <1>1. level \in Seq(Nat) /\ Len(level) \in Nat /\ DOMAIN level = 1 .. Len(level)
        /\ Len(level) <= 1 /\ (level = <<>> <=> Len(level) = 0)
    BY ShapedList, Levels DEF IsEmpty
  <1>2. level # <<>> => Head(level) = level[1] /\ Filled(os[level[1]])
    BY <1>1 DEF IsEmpty, Head
  <1>3. Leave(level, os) \in Seq(Nat) /\ Len(Leave(level, os)) = 0
    <2>1. Gone(level, os) = IF level = <<>> THEN 0 ELSE 1
      BY <1>2 DEF Gone
    <2>2. QED
      BY <1>1, <2>1, LeaveIs
  <1>4. Leave(level, os) = <<>>
    BY <1>3, EmptySeq
  <1>5. QED
    BY <1>4 DEF Offered

\* The offered bid and ask, where spread() leaves them.
LEMMA Offers ==
    ASSUME StateInv, ListInv, NEW s \in Sides, NEW t, t = Offered(list[s], orders),
           t # NoTicket
    PROVE  /\ t \in Tickets /\ orders[t].side = s
           /\ 1 \in DOMAIN Spread(list[s], orders).levels
           /\ 1 \in DOMAIN Spread(list[s], orders).levels[1]
           /\ t = Spread(list[s], orders).levels[1][1]
  <1>1. Shaped(list[s]) /\ OfSide(list[s].levels, orders, s)
    BY Lists
  <1>2. NoTicket \notin DOMAIN orders /\ DOMAIN orders = Tickets
    BY OrdersAre
  <1>3. QED
    BY <1>1, <1>2, OfferedIs

\* The pair b, a has traded q at price.
Trades(b, a, price, q) ==
    /\ b \in Tickets /\ a \in Tickets /\ b # a /\ price \in Prices /\ q \in Nat
    /\ orders[b].side = "buy" /\ orders[a].side = "sell"
    /\ \A t \in Tickets : orders'[t] = IF t = b THEN Executed(orders[b], price, q) ELSE
                                       IF t = a THEN Executed(orders[a], price, q)
                                       ELSE orders[t]

LEMMA MatchTradesIs ==
    ASSUME StateInv, ListInv, MatchTrades
    PROVE  /\ Trades(Bid, Ask, PairPrice(Bid, Ask, round.price), PairQuantity(Bid, Ask))
           /\ Reached(Bid, Ask, round.price)
           /\ orders' \in Seq(Order) /\ Len(orders') = Len(orders)
           /\ DOMAIN orders' = DOMAIN orders /\ Tickets' = Tickets
  <1> DEFINE price == PairPrice(Bid, Ask, round.price)
             q == PairQuantity(Bid, Ask)
  <1>1. Bid \in Tickets /\ orders[Bid].side = "buy"
    BY Offers DEF MatchTrades, Bid, Sides
  <1>2. Ask \in Tickets /\ orders[Ask].side = "sell"
    BY Offers DEF MatchTrades, Ask, Sides
  <1>3. orders[Bid] \in Order /\ orders[Ask] \in Order
    BY <1>1, <1>2, OrdersAre
  <1>4. price \in Prices
    <2>1. round.price \in Prices \cup {0}
      BY DEF MatchTrades, StateInv, Rounds, Idle
    <2>2. orders[Bid].price \in Prices /\ orders[Ask].price \in Prices
      BY <1>3, OrderIs
    <2>3. QED
      BY <2>1, <2>2 DEF PairPrice
  <1>5. q \in Nat
    <2>1. /\ orders[Bid].active \in Nat /\ orders[Ask].active \in Nat
          /\ orders[Bid].leaves \in Nat /\ orders[Ask].leaves \in Nat
      BY <1>3, OrderIs
    <2>2. QED
      BY <2>1 DEF PairQuantity, Smaller
  <1>6. Bid # Ask
    BY <1>1, <1>2
  <1>7. orders' = [orders EXCEPT ![Bid] = Executed(@, price, q),
                                 ![Ask] = Executed(@, price, q)]
        /\ Reached(Bid, Ask, round.price)
    BY DEF MatchTrades
  <1> DEFINE b == Bid
             a == Ask
             ob == Executed(orders[b], price, q)
             oa == Executed(orders[a], price, q)
  <1>8. ob \in Order /\ oa \in Order
    BY <1>3, <1>4, <1>5, ExecutedIs
  <1>9. b \in Tickets /\ a \in Tickets /\ a # b
    BY <1>1, <1>2, <1>6
  <1> HIDE DEF b, a, price, q
  <1>10. Both(b, a, ob, oa)
    <2>1. orders' = [orders EXCEPT ![b] = Executed(@, price, q),
                                   ![a] = Executed(@, price, q)]
      BY <1>7 DEF b, a
    <2>2. QED
      BY <2>1, <1>9 DEF Both
  <1> HIDE DEF oa, ob
  <1>11. /\ orders' \in Seq(Order) /\ Len(orders') = Len(orders)
         /\ DOMAIN orders' = DOMAIN orders /\ Tickets' = Tickets
         /\ \A u \in Tickets : orders'[u] = IF u = b THEN ob ELSE
                                            IF u = a THEN oa ELSE orders[u]
    BY <1>8, <1>9, <1>10, BothReplaced
  <1>12. QED
    BY <1>1, <1>2, <1>4, <1>5, <1>7, <1>9, <1>11 DEF Trades, a, b, oa, ob, price, q

-----------------------------------------------------------------------------
(* Each step keeps the types and the lists. *)

\* A step of the FIX thread or of the bus leaves lists and orders alone.
LEMMA OrdersKept ==
    ASSUME StateInv, orders' = orders
    PROVE  /\ Kept /\ OrdersInv' /\ Tickets' = Tickets
           /\ \A t \in Tickets : Filled(orders'[t]) => Filled(orders[t])
  <1>1. \A t \in Tickets : Adds(orders[t])
    BY DEF StateInv, OrdersInv
  <1>2. QED
    BY <1>1 DEF StateInv, OrdersInv, Kept, Tickets

\* One order is closed by its trader, or cancelled or marked by a deal.
LEMMA TicketTouched ==
    ASSUME StateInv, NEW t \in Tickets, NEW o \in Order,
           orders' = [orders EXCEPT ![t] = o],
           o.side = orders[t].side, o.price = orders[t].price,
           Filled(orders[t]) => Filled(o), Adds(orders[t]) => Adds(o)
    PROVE  /\ Kept /\ OrdersInv' /\ Len(orders') = Len(orders) /\ Tickets' = Tickets
           /\ \A u \in Tickets : orders'[u] = IF u = t THEN o ELSE orders[u]
  <1>1. /\ orders' \in Seq(Order) /\ Len(orders') = Len(orders)
        /\ DOMAIN orders' = DOMAIN orders /\ Tickets' = Tickets
        /\ \A u \in Tickets : orders'[u] = IF u = t THEN o ELSE orders[u]
    BY Replaced
  <1>2. \A u \in Tickets : Adds(orders[u])
    BY DEF StateInv, OrdersInv
  <1>3. Len(orders') <= MaxTickets
    BY <1>1 DEF StateInv, OrdersInv
  <1>4. Kept
    BY <1>1 DEF Kept, Tickets
  <1>5. QED
    BY <1>1, <1>2, <1>3, <1>4 DEF OrdersInv

LEMMA TradesKeep ==
    ASSUME StateInv, NEW b, NEW a, NEW price, NEW q, Trades(b, a, price, q),
           DOMAIN orders' = DOMAIN orders
    PROVE  /\ Kept /\ \A t \in Tickets : Adds(orders'[t])
           /\ \A t \in Tickets \ {b, a} : Filled(orders'[t]) => Filled(orders[t])
           /\ Executes(orders[b], orders'[b], price, q)
           /\ Executes(orders[a], orders'[a], price, q)
  <1>1. \A t \in Tickets : Adds(orders[t])
    BY DEF StateInv, OrdersInv
  <1>2. b \in Tickets /\ a \in Tickets /\ price \in Prices /\ q \in Nat /\ b # a
        /\ orders'[b] = Executed(orders[b], price, q)
        /\ orders'[a] = Executed(orders[a], price, q)
        /\ \A t \in Tickets \ {b, a} : orders'[t] = orders[t]
    BY DEF Trades
  <1>3. orders[b] \in Order /\ orders[a] \in Order
    BY <1>2, OrdersAre
  <1>4. /\ Executes(orders[b], orders'[b], price, q)
        /\ Adds(orders'[b]) /\ (Filled(orders[b]) => Filled(orders'[b]))
    BY <1>1, <1>2, <1>3, ExecutedIs
  <1>5. /\ Executes(orders[a], orders'[a], price, q)
        /\ Adds(orders'[a]) /\ (Filled(orders[a]) => Filled(orders'[a]))
    BY <1>1, <1>2, <1>3, ExecutedIs
  <1>6. Kept
    <2>1. \A t \in Tickets : /\ orders'[t].side = orders[t].side
                             /\ orders'[t].price = orders[t].price
                             /\ Filled(orders[t]) => Filled(orders'[t])
      BY <1>2, <1>4, <1>5 DEF Executes
    <2>2. QED
      BY <2>1 DEF Kept, Tickets
  <1>7. QED
    BY <1>1, <1>2, <1>4, <1>5, <1>6

LEMMA QuietLists ==
    ASSUME StateInv, ListInv, SortInv, orders' = orders, list' = list, mode' = mode,
           round'.pc = "match" <=> round.pc = "match"
    PROVE  OrdersInv' /\ ListInv' /\ SortInv'
  <1>1. Kept /\ OrdersInv' /\ \A t \in DOMAIN orders : Filled(orders'[t]) => Filled(orders[t])
    BY OrdersKept DEF Tickets
  <1>2. QED
    BY <1>1, ListsKept, SortsKept

\* What the threads' records hold.
LEMMA RecordsAre ==
    ASSUME StateInv
    PROVE  /\ stock # None => stock \in QuoteRecord /\ stock.price \in Prices
                              /\ stock.day \in 1 .. MaxDay
           /\ round.pc \in {"idle", "ready", "match"} /\ round \in Rounds
           /\ round.pc # "idle" => /\ round.price \in Prices \cup {0}
                                   /\ round.day \in 1 .. MaxDay
                                   /\ round.quote \in QuoteRecord \cup {None}
           /\ intake.pc \in {"idle", "bot", "order"}
           /\ intake.pc # "idle" =>
                 /\ intake.side \in Sides /\ intake.kind \in Kinds \cup {"stop"}
                 /\ intake.price \in Prices /\ intake.quantity \in Nat \ {0}
                 /\ intake.closes \in 0 .. MaxTickets /\ intake.day \in 1 .. MaxDay
  <1>1. stock \in QuoteRecord \cup {None} /\ round \in Rounds /\ intake \in Intakes
    BY DEF StateInv, QuotesInv, IntakeInv
  <1>2. stock # None => stock \in QuoteRecord /\ stock.price \in Prices
                        /\ stock.day \in 1 .. MaxDay
    BY <1>1 DEF QuoteRecord
  <1>3. /\ round.pc \in {"idle", "ready", "match"}
        /\ round.pc # "idle" => /\ round.price \in Prices \cup {0}
                                /\ round.day \in 1 .. MaxDay
                                /\ round.quote \in QuoteRecord \cup {None}
    BY <1>1 DEF Rounds, Idle
  <1>4. /\ intake.pc \in {"idle", "bot", "order"}
        /\ intake.pc # "idle" =>
              /\ intake.side \in Sides /\ intake.kind \in Kinds \cup {"stop"}
              /\ intake.price \in Prices /\ intake.quantity \in Nat \ {0}
              /\ intake.closes \in 0 .. MaxTickets /\ intake.day \in 1 .. MaxDay
    BY <1>1 DEF Intakes, Idle
  <1>5. QED
    BY <1>1, <1>2, <1>3, <1>4

LEMMA OpenOrderKeeps ==
    ASSUME StateInv, ListInv, SortInv, NEW side \in Sides, NEW kind \in Kinds,
           NEW price \in Prices, NEW quantity \in Quantities,
           OpenOrder(side, kind, price, quantity)
    PROVE  StateInv' /\ ListInv' /\ SortInv'
  <1>1. OrdersInv' /\ ListInv' /\ SortInv'
    BY QuietLists DEF OpenOrder
  <1>2. stock # None /\ stock.day \in 1 .. MaxDay /\ Len(orders) + 2 <= MaxTickets
    BY RecordsAre DEF OpenOrder, CanTake
  <1>3. quantity \in Nat \ {0} /\ NoTicket \in 0 .. MaxTickets
    BY MarketAssumption DEF NoTicket
  <1>4. intake' = [pc |-> "bot", side |-> side, kind |-> kind, price |-> price,
                   quantity |-> quantity, closes |-> NoTicket, day |-> stock.day]
        /\ orders' = orders /\ stock' = stock
    BY DEF OpenOrder
  <1>5. intake' \in Intakes /\ intake'.pc = "bot"
    BY <1>2, <1>3, <1>4 DEF Intakes
  <1>6. IntakeInv'
    BY <1>2, <1>4, <1>5 DEF IntakeInv
  <1>7. QED
    BY <1>1, <1>6 DEF OpenOrder, StateInv, QuotesInv

LEMMA CloseTicketKeeps ==
    ASSUME StateInv, ListInv, SortInv, NEW t \in Tickets, NEW price \in Prices,
           NEW lots \in 1 .. orders[t].quantity, CloseTicket(t, price, lots)
    PROVE  StateInv' /\ ListInv' /\ SortInv'
  <1> DEFINE o == orders[t]
             e == [o EXCEPT !.closer = TRUE]
  <1>1. o \in Order
    BY OrdersAre
  <1>2. e \in Order /\ e.side = o.side /\ e.price = o.price
        /\ e.open = o.open /\ e.quantity = o.quantity /\ e.executed = o.executed
        /\ e.leaves = o.leaves
    BY <1>1 DEF Order
  <1>3. (Filled(o) <=> Filled(e)) /\ (Adds(o) => Adds(e))
    BY <1>2 DEF Filled, Adds
  <1>4. orders' = [orders EXCEPT ![t] = e]
    BY DEF CloseTicket
  <1> HIDE DEF e
  <1>5. /\ Kept /\ OrdersInv' /\ Len(orders') = Len(orders) /\ Tickets' = Tickets
        /\ \A u \in Tickets : orders'[u] = IF u = t THEN e ELSE orders[u]
    BY <1>2, <1>3, <1>4, TicketTouched
  <1>6. \A u \in DOMAIN orders : Filled(orders'[u]) => Filled(orders[u])
    BY <1>3, <1>5 DEF Tickets
  <1>7. list' = list /\ mode' = mode /\ round' = round /\ stock' = stock /\ bus' = bus
        /\ pre' = pre /\ today' = today
    BY DEF CloseTicket
  <1>8. ListInv' /\ SortInv'
    BY <1>5, <1>6, <1>7, ListsKept, SortsKept
  <1>9. stock # None /\ stock.day \in 1 .. MaxDay /\ Len(orders) + 2 <= MaxTickets
    BY RecordsAre DEF CloseTicket, CanTake
  <1>10. lots \in Nat \ {0} /\ Opposite(o.side) \in Sides /\ t \in 0 .. MaxTickets
    <2>1. o.quantity \in Nat
      BY <1>1, OrderIs
    <2>2. Opposite(o.side) \in Sides
      BY DEF Opposite, Sides
    <2>3. t \in 1 .. MaxTickets /\ MaxTickets \in Nat
      BY OrdersAre
    <2>4. QED
      BY <2>1, <2>2, <2>3
  <1>11. intake' = [pc |-> "bot", side |-> Opposite(o.side), kind |-> "stop",
                    price |-> price, quantity |-> lots,
                    closes |-> t, day |-> stock.day]
    BY DEF CloseTicket
  <1> HIDE DEF o
  <1>12. intake' \in Intakes /\ intake'.pc = "bot"
    BY <1>9, <1>10, <1>11 DEF Intakes
  <1>13. IntakeInv'
    BY <1>5, <1>7, <1>9, <1>12 DEF IntakeInv
  <1>14. QED
    BY <1>5, <1>7, <1>8, <1>13 DEF StateInv, QuotesInv

\* InsertOrder() of a live order.
LEMMA InsertOrderKeeps ==
    ASSUME StateInv, ListInv, SortInv, NEW o \in Order, ~Filled(o), Adds(o),
           Len(orders) + 1 <= MaxTickets, InsertOrder(o),
           mode' = mode, round' = round
    PROVE  /\ OrdersInv' /\ ListInv' /\ SortInv' /\ Len(orders') = Len(orders) + 1
           /\ Inserted(o, Len(orders) + 1)
  <1> DEFINE t == Len(orders) + 1
  <1>1. /\ MutexIsFree /\ orders' = Append(orders, o)
        /\ list' = [list EXCEPT ![o.side] = Insert(@, orders', t)]
    BY DEF InsertOrder
  <1>2. /\ orders' \in Seq(Order) /\ Len(orders') = t /\ Inserted(o, t)
    BY <1>1, Appended
  <1>3. \A u \in Tickets' : Adds(orders'[u])
    <2>1. \A u \in Tickets : Adds(orders[u])
      BY DEF StateInv, OrdersInv
    <2>2. QED
      BY <1>2, <2>1 DEF Inserted, Tickets
  <1>4. OrdersInv'
    BY <1>2, <1>3 DEF OrdersInv
  <1>5. o.side \in Sides
    BY OrderIs
  <1> HIDE DEF t
  <1>6. ListInv'
    BY <1>1, <1>2, <1>5, ListsInserted
  <1>7. SortInv'
    BY <1>1, <1>2, SortsInserted
  <1>8. QED
    BY <1>2, <1>4, <1>6, <1>7 DEF t

\* The order that AddBotTicket() or ProcessOrder() inserts.
Bot == NewOrder(Opposite(intake.side), intake.kind, stock.price,
                intake.quantity, NoTicket, TRUE, stock.day)
Users == NewOrder(intake.side, intake.kind, intake.price, intake.quantity,
                  intake.closes, FALSE, intake.day)

LEMMA AddBotTicketIs ==
    ASSUME StateInv, AddBotTicket
    PROVE  /\ Bot \in Order /\ ~Filled(Bot) /\ Bot.day = stock.day /\ Bot.executed = 0
           /\ Adds(Bot) /\ Count0(Bot) /\ InsertOrder(Bot) /\ stock # None
  <1>1. intake.pc = "bot" /\ InsertOrder(Bot)
    BY DEF AddBotTicket, Bot
  <1>2. stock # None /\ stock.price \in Prices /\ stock.day \in 1 .. MaxDay
    BY <1>1, RecordsAre DEF StateInv, IntakeInv
  <1>3. Opposite(intake.side) \in Sides /\ NoTicket \in 0 .. MaxTickets
    BY MarketAssumption DEF Opposite, Sides, NoTicket
  <1>4. intake.kind \in Kinds \cup {"stop"} /\ intake.quantity \in Nat \ {0}
    BY <1>1, RecordsAre
  <1> DEFINE o == Bot
  <1>5. o = NewOrder(Opposite(intake.side), intake.kind, stock.price,
                     intake.quantity, NoTicket, TRUE, stock.day)
    BY DEF Bot
  <1> HIDE DEF o
  <1>6. o \in Order /\ ~Filled(o) /\ o.day = stock.day /\ o.executed = 0
        /\ o.leaves = o.quantity /\ o.open = o.quantity /\ ~o.closer /\ o.active = 0
    BY <1>2, <1>3, <1>4, <1>5 DEF NewOrder, Order, Filled
  <1>7. Adds(o) /\ Count0(o)
    BY <1>6, OrderIs DEF Adds, Count0
  <1>8. QED
    BY <1>1, <1>2, <1>6, <1>7 DEF o

LEMMA ProcessOrderIs ==
    ASSUME StateInv, ProcessOrder
    PROVE  /\ Users \in Order /\ ~Filled(Users) /\ Users.day = intake.day
           /\ Users.executed = 0
           /\ Adds(Users) /\ Count0(Users) /\ InsertOrder(Users) /\ stock # None
  <1>1. intake.pc = "order" /\ InsertOrder(Users)
    BY DEF ProcessOrder, Users
  <1>2. stock # None
    BY <1>1 DEF StateInv, IntakeInv
  <1>3. /\ intake.side \in Sides /\ intake.kind \in Kinds \cup {"stop"}
        /\ intake.price \in Prices /\ intake.quantity \in Nat \ {0}
        /\ intake.closes \in 0 .. MaxTickets /\ intake.day \in 1 .. MaxDay
    BY <1>1, RecordsAre
  <1> DEFINE o == Users
  <1>4. o = NewOrder(intake.side, intake.kind, intake.price, intake.quantity,
                     intake.closes, FALSE, intake.day)
    BY DEF Users
  <1> HIDE DEF o
  <1>5. o \in Order /\ ~Filled(o) /\ o.day = intake.day /\ o.executed = 0
        /\ o.leaves = o.quantity /\ o.open = o.quantity /\ ~o.closer /\ o.active = 0
    BY <1>3, <1>4 DEF NewOrder, Order, Filled
  <1>6. Adds(o) /\ Count0(o)
    BY <1>5, OrderIs DEF Adds, Count0
  <1>7. QED
    BY <1>1, <1>2, <1>5, <1>6 DEF o

LEMMA AddBotTicketKeeps ==
    ASSUME StateInv, ListInv, SortInv, AddBotTicket
    PROVE  StateInv' /\ ListInv' /\ SortInv'
  <1> DEFINE o == Bot
  <1>1. o \in Order /\ ~Filled(o) /\ Adds(o) /\ InsertOrder(o) /\ stock # None
    BY AddBotTicketIs
  <1>2. /\ intake.pc = "bot" /\ intake' = [intake EXCEPT !.pc = "order"]
        /\ mode' = mode /\ round' = round /\ stock' = stock /\ bus' = bus
        /\ pre' = pre /\ today' = today
    BY DEF AddBotTicket
  <1>3. Len(orders) + 2 <= MaxTickets /\ intake \in Intakes /\ Len(orders) \in Nat
        /\ MaxTickets \in Nat
    BY <1>2, OrdersAre DEF StateInv, IntakeInv
  <1> HIDE DEF o
  <1>4. Len(orders) + 1 <= MaxTickets
    BY <1>3
  <1>5. OrdersInv' /\ ListInv' /\ SortInv' /\ Len(orders') = Len(orders) + 1
    BY <1>1, <1>2, <1>4, InsertOrderKeeps
  <1>6. intake' \in Intakes /\ intake'.pc = "order"
    BY <1>2, <1>3 DEF Intakes, Idle
  <1>7. Len(orders') + 1 <= MaxTickets
    BY <1>3, <1>5
  <1>8. IntakeInv'
    BY <1>1, <1>2, <1>6, <1>7 DEF IntakeInv
  <1>9. QED
    BY <1>2, <1>5, <1>8 DEF StateInv, QuotesInv

LEMMA ProcessOrderKeeps ==
    ASSUME StateInv, ListInv, SortInv, ProcessOrder
    PROVE  StateInv' /\ ListInv' /\ SortInv'
  <1> DEFINE o == Users
  <1>1. o \in Order /\ ~Filled(o) /\ Adds(o) /\ InsertOrder(o) /\ stock # None
    BY ProcessOrderIs
  <1>2. /\ intake.pc = "order" /\ intake' = Idle
        /\ mode' = mode /\ round' = round /\ stock' = stock /\ bus' = bus
        /\ pre' = pre /\ today' = today
    BY DEF ProcessOrder
  <1>3. Len(orders) + 1 <= MaxTickets
    BY <1>2 DEF StateInv, IntakeInv
  <1> HIDE DEF o
  <1>4. OrdersInv' /\ ListInv' /\ SortInv'
    BY <1>1, <1>2, <1>3, InsertOrderKeeps
  <1>5. IntakeInv'
    BY <1>2 DEF IntakeInv, Intakes, Idle
  <1>6. QED
    BY <1>2, <1>4, <1>5 DEF StateInv, QuotesInv

LEMMA RefuseOrderKeeps ==
    ASSUME StateInv, ListInv, SortInv, RefuseOrder
    PROVE  StateInv' /\ ListInv' /\ SortInv'
  <1>1. OrdersInv' /\ ListInv' /\ SortInv'
    BY QuietLists DEF RefuseOrder
  <1>2. IntakeInv'
    BY DEF RefuseOrder, IntakeInv, Intakes, Idle
  <1>3. QED
    BY <1>1, <1>2 DEF RefuseOrder, StateInv, QuotesInv

LEMMA UpdateStockKeeps ==
    ASSUME StateInv, ListInv, SortInv, UpdateStock
    PROVE  StateInv' /\ ListInv' /\ SortInv'
  <1>1. OrdersInv' /\ ListInv' /\ SortInv'
    BY QuietLists DEF UpdateStock
  <1>2. QuotesInv' /\ IntakeInv'
    BY DEF UpdateStock, StateInv, QuotesInv, IntakeInv
  <1>3. QED
    BY <1>1, <1>2 DEF UpdateStock, StateInv

\* The quote whose price a round uses.
LEMMA MatchQuoteIs ==
    ASSUME StateInv, NEW quote \in QuoteRecord
    PROVE  MatchQuote(quote) = None \/
              (/\ MatchQuote(quote).price \in Prices \cup {0}
               /\ MatchQuote(quote).day \in 1 .. MaxDay
               /\ \/ MatchQuote(quote).day = quote.day
                  \/ pre # None /\ MatchQuote(quote).day = pre.day)
  <1>1. mode \in {"order_in", "close", "next", "external"}
    BY MarketAssumption DEF StateInv, QuotesInv
  <1>2. quote.price \in Prices /\ quote.day \in 1 .. MaxDay
    BY DEF QuoteRecord
  <1>3. CASE mode = "order_in"
    <2>1. MatchQuote(quote) = [quote EXCEPT !.price = 0]
      BY <1>3 DEF MatchQuote
    <2>2. QED
      BY <1>2, <2>1 DEF QuoteRecord
  <1>4. CASE mode = "external"
    BY <1>2, <1>4 DEF MatchQuote
  <1>5. CASE mode \in {"close", "next"} /\ ~(pre # None /\ pre.day # quote.day)
    BY <1>5 DEF MatchQuote
  <1>6. CASE mode = "close" /\ pre # None /\ pre.day # quote.day
    <2>1. MatchQuote(quote) = pre
      BY <1>6 DEF MatchQuote
    <2>2. pre \in QuoteRecord
      BY <1>6 DEF StateInv, QuotesInv
    <2>3. QED
      BY <1>6, <2>1, <2>2 DEF QuoteRecord
  <1>7. CASE mode = "next" /\ pre # None /\ pre.day # quote.day
    <2>1. MatchQuote(quote) = quote
      BY <1>7 DEF MatchQuote
    <2>2. QED
      BY <1>2, <2>1
  <1>8. QED
    BY <1>1, <1>3, <1>4, <1>5, <1>6, <1>7

LEMMA QuoteKeeps ==
    ASSUME StateInv, ListInv, SortInv, NEW price \in Prices,
           NEW day \in {today, today + 1}, day <= MaxDay, Quote(price, day)
    PROVE  StateInv' /\ ListInv' /\ SortInv'
  <1> DEFINE quote == [price |-> price, day |-> day]
             used == IF orders = << >> THEN None ELSE MatchQuote(quote)
  <1>1. today \in 1 .. MaxDay /\ MaxDay \in Nat
    BY MarketAssumption DEF StateInv, QuotesInv
  <1>2. day \in 1 .. MaxDay
    BY <1>1
  <1>3. quote \in QuoteRecord
    BY <1>2 DEF QuoteRecord
  <1>4. used = None \/ (used.price \in Prices \cup {0} /\ used.day \in 1 .. MaxDay)
    BY <1>3, MatchQuoteIs
  <1>5. /\ today' = day /\ round.pc = "idle"
        /\ orders' = orders /\ list' = list /\ stock' = stock /\ intake' = intake
        /\ mode' = mode
        /\ pre' = IF orders # << >> /\ mode \in {"close", "next"} THEN quote ELSE pre
        /\ IF used = None
           THEN bus' = quote /\ round' = round
           ELSE /\ round' = [pc |-> "ready", price |-> used.price,
                             day |-> used.day, quote |-> quote]
                /\ bus' = bus
    BY DEF Quote
  <1> HIDE DEF quote, used
  <1>6. round' \in Rounds /\ round'.pc # "match"
    <2>1. CASE used = None
      BY <1>5, <2>1 DEF StateInv
    <2>2. CASE used # None
      BY <1>3, <1>4, <1>5, <2>2 DEF Rounds
    <2>3. QED
      BY <2>1, <2>2
  <1>7. OrdersInv' /\ ListInv' /\ SortInv'
    BY <1>5, <1>6, QuietLists
  <1>8. QuotesInv'
    BY <1>2, <1>3, <1>5 DEF QuotesInv, StateInv
  <1>9. IntakeInv'
    BY <1>5 DEF IntakeInv, StateInv
  <1>10. QED
    BY <1>6, <1>7, <1>8, <1>9 DEF StateInv

\* What Deal() makes of an order.
Dealt(o, quantity) ==
    [(IF quantity = 0 THEN Disabled(o) ELSE o) EXCEPT !.active = quantity]

LEMMA DealtIs ==
    ASSUME NEW o \in Order, NEW q \in Quantities \cup {0}, NEW e, e = Dealt(o, q)
    PROVE  /\ e \in Order /\ e.side = o.side /\ e.price = o.price
           /\ e.executed <= o.executed /\ e.kind = o.kind /\ e.bot = o.bot
           /\ e.last = o.last /\ e.day = o.day
           /\ Filled(o) => Filled(e)
           /\ Adds(o) => Adds(e)
  <1>1. o.executed \in Nat
    BY OrderIs
  <1>2. CASE q = 0
    <2>1. e = [Disabled(o) EXCEPT !.active = q]
      BY <1>2 DEF Dealt
    <2>2. e = [o EXCEPT !.quantity = 0, !.executed = 0, !.open = 0, !.active = q]
      BY <2>1 DEF Disabled, Order
    <2>3. o = [side |-> o.side, kind |-> o.kind, price |-> o.price, bot |-> o.bot,
               quantity |-> o.quantity, open |-> o.open, leaves |-> o.leaves,
               executed |-> o.executed, active |-> o.active, last |-> o.last,
               closer |-> o.closer, closes |-> o.closes, day |-> o.day]
      BY DEF Order
    <2>4. e = [side |-> o.side, kind |-> o.kind, price |-> o.price, bot |-> o.bot,
               quantity |-> 0, open |-> 0, leaves |-> o.leaves,
               executed |-> 0, active |-> q, last |-> o.last,
               closer |-> o.closer, closes |-> o.closes, day |-> o.day]
      BY <2>2, <2>3
    <2>5. e \in Order
      BY <2>4, OrderIs DEF Order
    <2>6. QED
      BY <1>1, <2>4, <2>5 DEF Filled, Adds
  <1>3. CASE q # 0
    <2>1. e = [o EXCEPT !.active = q]
      BY <1>3 DEF Dealt
    <2>2. QED
      BY <1>1, <2>1 DEF Order, Filled, Adds
  <1>4. QED
    BY <1>2, <1>3

LEMMA DealKeeps ==
    ASSUME StateInv, ListInv, SortInv, NEW t \in Tickets,
           NEW quantity \in Quantities \cup {0}, NEW price \in Prices,
           Deal(t, quantity, price)
    PROVE  StateInv' /\ ListInv' /\ SortInv'
  <1> DEFINE o == orders[t]
             e == Dealt(o, quantity)
  <1>1. o \in Order
    BY OrdersAre
  <1>2. e \in Order /\ e.side = o.side /\ e.price = o.price
        /\ (Filled(o) => Filled(e)) /\ (Adds(o) => Adds(e))
    BY <1>1, DealtIs
  <1>3. orders' = [orders EXCEPT ![t] = e]
    BY DEF Deal, Dealt
  <1>4. /\ mode = "external" /\ mode' = mode /\ list' = list /\ stock' = stock
        /\ today' = today /\ pre' = pre /\ bus' = bus /\ intake' = intake
        /\ round' = [pc |-> "ready", price |-> price, day |-> today, quote |-> None]
    BY DEF Deal
  <1> HIDE DEF e, o
  <1>5. /\ Kept /\ OrdersInv' /\ Len(orders') = Len(orders)
    BY <1>2, <1>3, TicketTouched DEF o
  <1>6. ListInv' /\ SortInv'
    BY <1>4, <1>5, ListsKept DEF SortInv
  <1>7. round' \in Rounds
    BY <1>4 DEF StateInv, QuotesInv, Rounds
  <1>8. QuotesInv' /\ IntakeInv'
    BY <1>4, <1>5 DEF StateInv, QuotesInv, IntakeInv
  <1>9. QED
    BY <1>5, <1>6, <1>7, <1>8 DEF StateInv

\* The end of a round: its quote is deposited.
LEMMA EndRoundIs ==
    ASSUME StateInv, round.pc # "idle", EndRound
    PROVE  /\ round' \in Rounds /\ round'.pc = "idle" /\ bus' \in QuoteRecord \cup {None}
           /\ bus' = bus \/ (bus' = round.quote /\ round.quote # None)
  <1>1. round' = Idle /\ bus' = IF round.quote = None THEN bus ELSE round.quote
    BY DEF EndRound
  <1>2. round.quote \in QuoteRecord \cup {None} /\ bus \in QuoteRecord \cup {None}
    BY RecordsAre DEF StateInv, QuotesInv
  <1>3. QED
    BY <1>1, <1>2 DEF Rounds, Idle

LEMMA MatchNothingKeeps ==
    ASSUME StateInv, ListInv, SortInv, MatchNothing
    PROVE  StateInv' /\ ListInv' /\ SortInv'
  <1>1. /\ round.pc # "idle" /\ EndRound /\ BidEmpty /\ AskEmpty
        /\ orders' = orders /\ list' = list /\ stock' = stock /\ today' = today
        /\ pre' = pre /\ intake' = intake /\ mode' = mode
    BY DEF MatchNothing
  <1>2. /\ round' \in Rounds /\ round'.pc = "idle" /\ bus' \in QuoteRecord \cup {None}
    BY <1>1, EndRoundIs
  <1>3. SortInv'
    BY <1>1, <1>2, SortsEnd
  <1>4. OrdersInv' /\ ListInv'
    BY <1>1, OrdersKept, ListsKept
  <1>5. QuotesInv' /\ IntakeInv'
    BY <1>1, <1>2 DEF StateInv, QuotesInv, IntakeInv
  <1>6. QED
    BY <1>2, <1>3, <1>4, <1>5 DEF StateInv

\* No side that is empty offers an order: a round that stops leaves the orders
\* as they are, and PendingEvent() is never reached.
LEMMA MatchStopsKeepsOrders ==
    ASSUME ListInv, MatchStops
    PROVE  orders' = orders
  <1>1. BidEmpty => Bid = NoTicket
    BY Lists, EmptyOffersNone DEF BidEmpty, Bid, Sides
  <1>2. AskEmpty => Ask = NoTicket
    BY Lists, EmptyOffersNone DEF AskEmpty, Ask, Sides
  <1>3. ~(Bid # NoTicket /\ Ask # NoTicket /\ (BidEmpty # AskEmpty))
    <2>1. BidEmpty \in BOOLEAN /\ AskEmpty \in BOOLEAN
      BY DEF BidEmpty, AskEmpty, IsEmpty
    <2>2. QED
      BY <1>1, <1>2, <2>1
  <1>4. QED
    BY <1>3 DEF MatchStops

LEMMA MatchStopsKeeps ==
    ASSUME StateInv, ListInv, SortInv, MatchStops
    PROVE  StateInv' /\ ListInv' /\ SortInv'
  <1>1. /\ round.pc # "idle" /\ EndRound /\ SpreadBoth
        /\ stock' = stock /\ today' = today
        /\ pre' = pre /\ intake' = intake /\ mode' = mode
    BY DEF MatchStops
  <1>2. orders' = orders
    BY MatchStopsKeepsOrders
  <1>3. /\ round' \in Rounds /\ round'.pc = "idle" /\ bus' \in QuoteRecord \cup {None}
    BY <1>1, EndRoundIs
  <1>4. Kept /\ OrdersInv' /\ \A t \in Tickets : Filled(orders'[t]) => Filled(orders[t])
    BY <1>2, OrdersKept
  <1>5. \A t \in DOMAIN orders : orders[t].side \in Sides
    BY OrdersAre, OrderIs
  <1>6. ListInv'
    BY <1>1, <1>4, <1>5, ListsSpread
  <1>7. SortInv'
    <2> DEFINE heads == {}
    <2>1. /\ \A t \in DOMAIN orders \ heads : Filled(orders'[t]) => Filled(orders[t])
          /\ \A s \in Sides : \A t \in heads :
                t \in DOMAIN orders /\ orders[t].side = s =>
                    /\ 1 \in DOMAIN Spread(list[s], orders).levels
                    /\ 1 \in DOMAIN Spread(list[s], orders).levels[1]
                    /\ t = Spread(list[s], orders).levels[1][1]
          /\ heads = {}
      BY <1>4 DEF Tickets
    <2> HIDE DEF heads
    <2>2. QED
      BY <1>1, <1>4, <2>1, SortsSpread
  <1>8. QuotesInv' /\ IntakeInv'
    BY <1>1, <1>2, <1>3 DEF StateInv, QuotesInv, IntakeInv
  <1>9. QED
    BY <1>3, <1>4, <1>6, <1>8, <1>7 DEF StateInv

LEMMA MatchTradesKeeps ==
    ASSUME StateInv, ListInv, SortInv, MatchTrades
    PROVE  StateInv' /\ ListInv' /\ SortInv'
  <1> DEFINE b == Bid
             a == Ask
             price == PairPrice(Bid, Ask, round.price)
             q == PairQuantity(Bid, Ask)
  <1>1. /\ Trades(b, a, price, q) /\ orders' \in Seq(Order) /\ Len(orders') = Len(orders)
        /\ DOMAIN orders' = DOMAIN orders /\ Tickets' = Tickets
    BY MatchTradesIs
  <1>2. /\ round.pc # "idle" /\ SpreadBoth /\ round' = [round EXCEPT !.pc = "match"]
        /\ stock' = stock /\ today' = today /\ bus' = bus
        /\ pre' = pre /\ intake' = intake /\ mode' = mode
    BY DEF MatchTrades
  <1>3. /\ orders[b].side = "buy" => b = Offered(list["buy"], orders) /\ b # NoTicket
        /\ orders[a].side = "sell" => a = Offered(list["sell"], orders) /\ a # NoTicket
    BY DEF MatchTrades, Bid, Ask
  <1> HIDE DEF b, a, price, q
  <1>4. /\ Kept /\ (\A t \in Tickets : Adds(orders'[t]))
        /\ \A t \in Tickets \ {b, a} : Filled(orders'[t]) => Filled(orders[t])
    BY <1>1, TradesKeep
  <1>5. OrdersInv'
    BY <1>1, <1>4 DEF OrdersInv, StateInv
  <1>6. \A t \in DOMAIN orders : orders[t].side \in Sides
    BY OrdersAre, OrderIs
  <1>7. ListInv'
    BY <1>2, <1>4, <1>6, ListsSpread
  <1>8. round' \in Rounds /\ round'.pc = "match"
    BY <1>2, RecordsAre DEF Rounds, Idle
  <1>9. SortInv'
    <2> DEFINE heads == {b, a}
    <2>1. \A t \in DOMAIN orders \ heads : Filled(orders'[t]) => Filled(orders[t])
      BY <1>4 DEF Tickets
    <2>2. b \in Tickets /\ a \in Tickets /\ orders[b].side = "buy" /\ orders[a].side = "sell"
      BY <1>1 DEF Trades
    <2>3. ASSUME NEW s \in Sides, NEW t \in heads, orders[t].side = s
          PROVE  /\ 1 \in DOMAIN Spread(list[s], orders).levels
                 /\ 1 \in DOMAIN Spread(list[s], orders).levels[1]
                 /\ t = Spread(list[s], orders).levels[1][1]
      <3>1. t = Offered(list[s], orders) /\ t # NoTicket
        BY <1>3, <2>2, <2>3
      <3>2. QED
        BY <3>1, Offers
    <2> HIDE DEF heads
    <2>4. QED
      BY <1>2, <1>4, <1>8, <2>1, <2>3, SortsSpread
  <1>10. QuotesInv' /\ IntakeInv'
    BY <1>1, <1>2 DEF StateInv, QuotesInv, IntakeInv
  <1>11. QED
    BY <1>5, <1>7, <1>8, <1>9, <1>10 DEF StateInv

-----------------------------------------------------------------------------
(* The types and the lists, in every state. *)

BookParts == StateInv /\ ListInv /\ SortInv

LEMMA BookInit == Init => BookParts
  <1> SUFFICES ASSUME Init PROVE BookParts
    OBVIOUS
  <1>1. orders \in Seq(Order) /\ Len(orders) = 0 /\ Tickets = {} /\ Live = {}
    <2>1. orders = << >>
      BY DEF Init
    <2>2. orders \in Seq(Order) /\ Len(orders) = 0
      BY <2>1, EmptySeq
    <2>3. DOMAIN orders = 1 .. 0
      BY <2>2, LenProperties
    <2>4. QED
      BY <2>2, <2>3 DEF Tickets, Live
  <1>2. OrdersInv
    BY <1>1, MarketAssumption DEF OrdersInv
  <1>3. QuotesInv
    BY MarketAssumption DEF Init, QuotesInv
  <1>4. round \in Rounds /\ IntakeInv
    BY DEF Init, Rounds, IntakeInv, Intakes, Idle
  <1> DEFINE l == EmptyList
             ls == l.levels
  <1>5. l = [levels |-> << <<>>, <<>> >>, tail |-> 2]
    BY DEF EmptyList
  <1>6. ls \in Seq(Seq(Nat)) /\ l \in ListShape /\ l.tail = 2 /\ Len(ls) = 2
        /\ \A i \in 1 .. 2 : ls[i] = <<>>
    <2>1. <<>> \in Seq(Nat)
      BY EmptySeq
    <2>2. QED
      BY <1>5, <2>1 DEF ListShape
  <1>7. DOMAIN ls = 1 .. 2 /\ \A i \in DOMAIN ls : ls[i] = <<>> /\ DOMAIN ls[i] = {}
    <2>1. DOMAIN ls = 1 .. 2
      BY <1>6, LenProperties
    <2>2. ASSUME NEW i \in DOMAIN ls PROVE ls[i] = <<>> /\ DOMAIN ls[i] = {}
      <3>1. ls[i] = <<>> /\ ls[i] \in Seq(Nat) /\ Len(ls[i]) = 0
        BY <1>6, <2>1, Levels
      <3>2. DOMAIN ls[i] = 1 .. 0
        BY <1>6, <2>2, <3>1, Levels
      <3>3. QED
        BY <3>1, <3>2
    <2>3. QED
      BY <2>1, <2>2
  <1> HIDE DEF l
  <1>8. Shaped(l) /\ Distinct(ls) /\ (\A s : OfSide(ls, orders, s)) /\ Sorted(ls, orders)
        /\ Packed(l) /\ \A looping : HeadOnly(ls, orders, looping)
    BY <1>6, <1>7 DEF Shaped, Distinct, OfSide, Sorted, Packed, HeadOnly
  <1>9. list = [s \in Sides |-> l]
    BY DEF Init, l
  <1>10. ListInv
    BY <1>1, <1>6, <1>8, <1>9 DEF ListInv
  <1>11. SortInv
    BY <1>8, <1>9 DEF SortInv
  <1>12. QED
    BY <1>2, <1>3, <1>4, <1>10, <1>11 DEF BookParts, StateInv

LEMMA BookNext == BookParts /\ [Next]_vars => BookParts'
  <1> SUFFICES ASSUME BookParts, [Next]_vars PROVE StateInv' /\ ListInv' /\ SortInv'
    BY DEF BookParts
  <1>1. StateInv /\ ListInv /\ SortInv
    BY DEF BookParts
  <1>2. CASE FixThread
    <2>1. ASSUME NEW s \in Sides, NEW k \in Kinds, NEW p \in Prices, NEW q \in Quantities,
                 OpenOrder(s, k, p, q)
          PROVE  StateInv' /\ ListInv' /\ SortInv'
      BY <1>1, <2>1, OpenOrderKeeps
    <2>2. ASSUME NEW t \in Tickets, NEW p \in Prices, NEW q \in 1 .. orders[t].quantity,
                 CloseTicket(t, p, q)
          PROVE  StateInv' /\ ListInv' /\ SortInv'
      BY <1>1, <2>2, CloseTicketKeeps
    <2>3. CASE AddBotTicket
      BY <1>1, <2>3, AddBotTicketKeeps
    <2>4. CASE ProcessOrder
      BY <1>1, <2>4, ProcessOrderKeeps
    <2>5. CASE RefuseOrder
      BY <1>1, <2>5, RefuseOrderKeeps
    <2>6. QED
      BY <1>2, <2>1, <2>2, <2>3, <2>4, <2>5 DEF FixThread
  <1>3. CASE UpdateStock
    BY <1>1, <1>3, UpdateStockKeeps
  <1>4. CASE Quotes
    BY <1>1, <1>4, QuoteKeeps DEF Quotes
  <1>5. CASE Deals
    BY <1>1, <1>5, DealKeeps DEF Deals
  <1>6. CASE MatchNothing
    BY <1>1, <1>6, MatchNothingKeeps
  <1>7. CASE MatchStops
    BY <1>1, <1>7, MatchStopsKeeps
  <1>8. CASE MatchTrades
    BY <1>1, <1>8, MatchTradesKeeps
  <1>9. CASE UNCHANGED vars
    <2>1. orders' = orders /\ list' = list /\ stock' = stock /\ today' = today
          /\ pre' = pre /\ bus' = bus /\ round' = round /\ mode' = mode
          /\ intake' = intake
      BY <1>9 DEF vars
    <2>2. OrdersInv' /\ ListInv' /\ SortInv'
      BY <1>1, <2>1, QuietLists
    <2>3. QED
      BY <1>1, <2>1, <2>2 DEF StateInv, QuotesInv, IntakeInv
  <1>10. QED
    BY <1>2, <1>3, <1>4, <1>5, <1>6, <1>7, <1>8, <1>9 DEF Next, Match

LEMMA BookAlways == Spec => []BookParts
  <1>1. QED
    BY BookInit, BookNext, PTL DEF Spec

\* A sequence whose elements are in T.
LEMMA SeqOver ==
    ASSUME NEW S, NEW T, NEW seq \in Seq(S), \A j \in 1 .. Len(seq) : seq[j] \in T
    PROVE  seq \in Seq(T)
  <1>1. Len(seq) \in Nat /\ seq \in [1 .. Len(seq) -> S]
    BY LenProperties
  <1>2. seq \in [1 .. Len(seq) -> T]
    BY <1>1
  <1>3. Seq(T) = UNION {[1 .. n -> T] : n \in Nat}
    BY SeqDef
  <1>4. QED
    BY <1>1, <1>2, <1>3

LEMMA PlacesAre ==
    ASSUME NEW l, NEW p
    PROVE  p \in Places(l) <=> \E i \in DOMAIN l.levels : \E j \in DOMAIN l.levels[i] :
                                   p = <<i, j>>
  BY DEF Places

LEMMA AtIs ==
    ASSUME NEW l, NEW i, NEW j
    PROVE  At(l, <<i, j>>) = l.levels[i][j]
  BY DEF At

LEMMA BookTypes == BookParts => TypeOK
  <1> SUFFICES ASSUME BookParts PROVE TypeOK
    OBVIOUS
  <1>1. ASSUME NEW s \in Sides
        PROVE  list[s].levels \in Seq(Seq(Tickets)) /\ list[s].tail \in DOMAIN list[s].levels
    <2> DEFINE l == list[s]
               ls == l.levels
    <2>1. Shaped(l) /\ OfSide(ls, orders, s)
      BY Lists DEF BookParts
    <2>2. ls \in Seq(Seq(Nat)) /\ l.tail \in DOMAIN ls
      BY <2>1 DEF Shaped, ListShape
    <2>3. Len(ls) \in Nat /\ DOMAIN ls = 1 .. Len(ls)
          /\ \A i \in DOMAIN ls : ls[i] \in Seq(Nat) /\ DOMAIN ls[i] = 1 .. Len(ls[i])
                                  /\ Len(ls[i]) \in Nat
      BY <2>2, Levels
    <2>4. ASSUME NEW i \in DOMAIN ls PROVE ls[i] \in Seq(Tickets)
      <3>1. \A j \in 1 .. Len(ls[i]) : ls[i][j] \in Tickets
        BY <2>1, <2>3 DEF OfSide, Tickets
      <3>2. ls[i] \in Seq(Nat)
        BY <2>3
      <3>3. QED
        BY <3>1, <3>2, SeqOver
    <2>7. ls \in Seq(Seq(Tickets))
      BY <2>2, <2>3, <2>4, SeqOver
    <2>8. QED
      BY <2>2, <2>7
  <1>2. OrdersInv /\ QuotesInv /\ round \in Rounds /\ intake \in Intakes
    BY DEF BookParts, StateInv, IntakeInv
  <1>3. QED
    BY <1>1, <1>2 DEF TypeOK, OrdersInv, QuotesInv, Rounds, Intakes

\* The market's state keeps its types, whatever orders, deals and quotes come.
THEOREM TypeCorrect == Spec => []TypeOK
  <1>1. QED
    BY BookAlways, BookTypes, PTL

LEMMA OnceInItsList == BookParts => NothingLost
  <1> SUFFICES ASSUME BookParts PROVE NothingLost
    OBVIOUS
  <1>1. ASSUME NEW t \in Live
        PROVE  LET l == list[orders[t].side]
               IN  \E p \in Places(l) : \A q \in Places(l) : At(l, q) = t <=> q = p
    <2> DEFINE s == orders[t].side
               l == list[s]
               ls == l.levels
    <2>1. s \in Sides
      BY <1>1, OrdersAre, OrderIs DEF BookParts, Live
    <2>2. Distinct(ls)
      BY <2>1, Lists DEF BookParts
    <2>3. Holds(ls, t)
      BY <1>1 DEF BookParts, ListInv
    <2>4. PICK i \in DOMAIN ls : \E j \in DOMAIN ls[i] : ls[i][j] = t
      BY <2>3 DEF Holds
    <2>5. PICK j \in DOMAIN ls[i] : ls[i][j] = t
      BY <2>4
    <2> HIDE DEF s, l
    <2>6. <<i, j>> \in Places(l)
      BY PlacesAre
    <2>7. ASSUME NEW q \in Places(l) PROVE At(l, q) = t <=> q = <<i, j>>
      <3>1. PICK k \in DOMAIN ls : \E m \in DOMAIN ls[k] : q = <<k, m>>
        BY PlacesAre
      <3>2. PICK m \in DOMAIN ls[k] : q = <<k, m>>
        BY <3>1
      <3>3. At(l, q) = ls[k][m]
        BY <3>2, AtIs
      <3>4. ls[k][m] = t => k = i /\ m = j
        BY <2>2, <2>5 DEF Distinct
      <3>5. QED
        BY <2>5, <3>2, <3>3, <3>4
    <2>8. QED
      BY <2>6, <2>7 DEF l, s
  <1>2. ASSUME NEW s \in Sides, NEW p \in Places(list[s])
        PROVE  orders[At(list[s], p)].side = s
    <2> DEFINE l == list[s]
    <2>1. OfSide(l.levels, orders, s)
      BY Lists DEF BookParts
    <2> HIDE DEF l
    <2>2. PICK i \in DOMAIN l.levels : \E j \in DOMAIN l.levels[i] : p = <<i, j>>
      BY PlacesAre DEF l
    <2>3. PICK j \in DOMAIN l.levels[i] : p = <<i, j>>
      BY <2>2
    <2>4. At(l, p) = l.levels[i][j]
      BY <2>3, AtIs
    <2>5. QED
      BY <2>1, <2>4 DEF OfSide, l
  <1>3. QED
    BY <1>1, <1>2 DEF NothingLost

LEMMA NotExternal ==
    ASSUME "external" \notin Modes, BookParts
    PROVE  mode # "external"
  BY DEF BookParts, StateInv, QuotesInv

LEMMA HeadsAreFilled ==
    ASSUME "external" \notin Modes, BookParts
    PROVE  OnlyHeadIsFilled
  <1>1. mode # "external"
    BY NotExternal
  <1>2. ASSUME NEW s \in Sides, NEW p \in Places(list[s]),
               Filled(orders[At(list[s], p)])
        PROVE  p = <<1, 1>>
    <2> DEFINE l == list[s]
    <2>1. HeadOnly(l.levels, orders, round.pc = "match")
      BY <1>1, Sorts DEF BookParts
    <2> HIDE DEF l
    <2>2. PICK i \in DOMAIN l.levels : \E j \in DOMAIN l.levels[i] : p = <<i, j>>
      BY PlacesAre DEF l
    <2>3. PICK j \in DOMAIN l.levels[i] : p = <<i, j>>
      BY <2>2
    <2>4. At(l, p) = l.levels[i][j]
      BY <2>3, AtIs
    <2>5. i = 1 /\ j = 1
      BY <1>2, <2>1, <2>4 DEF HeadOnly, l
    <2>6. QED
      BY <2>3, <2>5
  <1>3. QED
    BY <1>2 DEF OnlyHeadIsFilled

LEMMA SortedIsPriceTime ==
    ASSUME "external" \notin Modes, BookParts
    PROVE  InPriceTimeOrder
  <1>1. mode # "external"
    BY NotExternal
  <1>2. ASSUME NEW s \in Sides, NEW p \in Places(list[s]), NEW q \in Places(list[s]),
               Before(p, q)
        PROVE  LET t == At(list[s], p)
                   u == At(list[s], q)
               IN  \/ Better(orders[t], orders[u])
                   \/ orders[t].price = orders[u].price /\ t < u
    <2> DEFINE l == list[s]
               ls == l.levels
    <2>1. Sorted(ls, orders) /\ ls \in Seq(Seq(Nat))
      BY <1>1, Sorts, Lists, ShapedList DEF BookParts
    <2>2. DOMAIN ls \subseteq Nat /\ \A i \in DOMAIN ls : DOMAIN ls[i] \subseteq Nat
      <3>1. Len(ls) \in Nat /\ DOMAIN ls = 1 .. Len(ls)
            /\ \A i \in DOMAIN ls : Len(ls[i]) \in Nat /\ DOMAIN ls[i] = 1 .. Len(ls[i])
        BY <2>1, Levels
      <3>2. QED
        BY <3>1
    <2> HIDE DEF l
    <2>3. PICK i \in DOMAIN ls : \E j \in DOMAIN ls[i] : p = <<i, j>>
      BY PlacesAre DEF l
    <2>4. PICK j \in DOMAIN ls[i] : p = <<i, j>>
      BY <2>3
    <2>5. PICK k \in DOMAIN ls : \E m \in DOMAIN ls[k] : q = <<k, m>>
      BY PlacesAre DEF l
    <2>6. PICK m \in DOMAIN ls[k] : q = <<k, m>>
      BY <2>5
    <2>7. At(l, p) = ls[i][j] /\ At(l, q) = ls[k][m]
      BY <2>4, <2>6, AtIs
    <2>8. i < k \/ (i = k /\ j < m)
      BY <1>2, <2>4, <2>6 DEF Before
    <2>9. \/ Better(orders[ls[i][j]], orders[ls[k][m]])
          \/ orders[ls[i][j]].price = orders[ls[k][m]].price /\ ls[i][j] < ls[k][m]
      BY <2>1, <2>8 DEF Sorted
    <2>10. QED
      BY <2>7, <2>9 DEF l
  <1>3. QED
    BY <1>2 DEF InPriceTimeOrder

\* Every live order is in its side's list, at one place, also while external
\* deals cancel orders behind the matcher's back.
THEOREM LiveOrdersStay == Spec => []NothingLost
  <1>1. QED
    BY BookAlways, OnceInItsList, PTL

\* Without external deals no filled order hides behind the head, either.
THEOREM BookIsKept ==
    ASSUME "external" \notin Modes
    PROVE  Spec => []BookInv
  <1>1. BookParts => BookInv
    BY BookTypes, OnceInItsList, HeadsAreFilled DEF BookInv
  <1>2. QED
    BY <1>1, BookAlways, PTL

\* Without external deals the lists stay in price-time order, whatever levels
\* are opened, joined, emptied and passed.
THEOREM ListsStayInOrder ==
    ASSUME "external" \notin Modes
    PROVE  Spec => []InPriceTimeOrder
  <1>1. BookParts => InPriceTimeOrder
    BY SortedIsPriceTime
  <1>2. QED
    BY <1>1, BookAlways, PTL

-----------------------------------------------------------------------------
(* The days of quotes, rounds and orders. *)

\* The days that DayInv compares are numbers.
LEMMA DaysAre ==
    ASSUME StateInv
    PROVE  /\ today \in Int /\ \A t \in Tickets : orders[t].day \in Int
           /\ stock # None => stock.day \in Int
           /\ bus # None => bus.day \in Int
           /\ pre # None => pre.day \in Int
           /\ round.pc # "idle" => /\ round.day \in Int
                                   /\ round.quote # None => round.quote.day \in Int
           /\ intake.pc # "idle" => intake.day \in Int
  <1>1. MaxDay \in Nat /\ 1 .. MaxDay \subseteq Int
    BY MarketAssumption
  <1>2. \A t \in Tickets : orders[t].day \in Int
    BY OrdersAre, OrderIs
  <1>3. /\ today \in 1 .. MaxDay /\ stock \in QuoteRecord \cup {None}
        /\ bus \in QuoteRecord \cup {None} /\ pre \in QuoteRecord \cup {None}
    BY DEF StateInv, QuotesInv
  <1>4. \A quote \in QuoteRecord : quote.day \in Int
    BY <1>1 DEF QuoteRecord
  <1>5. QED
    BY <1>1, <1>2, <1>3, <1>4, RecordsAre

\* A step that keeps the days of the orders.
SameDays == Tickets' = Tickets /\ \A t \in Tickets : orders'[t].day = orders[t].day

LEMMA DayInserted ==
    ASSUME StateInv, DayInv, NEW o \in Order, NEW t, Inserted(o, t), o.day <= stock.day,
           stock # None, stock' = stock, bus' = bus, pre' = pre, today' = today,
           round' = round, mode' = mode,
           intake'.pc # "idle" => intake.pc # "idle" /\ intake'.day = intake.day
    PROVE  DayInv'
  <1>1. Tickets' = Tickets \cup {t} /\ orders'[t] = o
        /\ \A u \in Tickets : orders'[u] = orders[u]
    BY DEF Inserted, Tickets
  <1>2. QED
    BY <1>1 DEF DayInv

LEMMA DayQuiet ==
    ASSUME StateInv, DayInv, SameDays, stock' = stock, bus' = bus, pre' = pre,
           today' = today, mode' = mode,
           round' = round \/ (/\ round.pc # "idle" /\ round'.day = round.day
                              /\ round'.quote = round.quote),
           \/ intake'.pc = "idle"
           \/ intake.pc # "idle" /\ intake'.day = intake.day
           \/ stock # None /\ intake'.day = stock.day
    PROVE  DayInv'
  <1>1. stock # None => stock.day \in Int
    BY DaysAre
  <1>2. QED
    BY <1>1 DEF DayInv, SameDays

LEMMA DayNext == BookParts /\ DayInv /\ [Next]_vars => DayInv'
  <1> SUFFICES ASSUME BookParts, DayInv, [Next]_vars PROVE DayInv'
    OBVIOUS
  <1>1. StateInv /\ ListInv /\ SortInv
    BY DEF BookParts
  <1>2. ASSUME orders' = orders PROVE SameDays
    BY <1>2 DEF SameDays, Tickets
  <1>3. ASSUME NEW s \in Sides, NEW k \in Kinds, NEW p \in Prices, NEW q \in Quantities,
               OpenOrder(s, k, p, q)
        PROVE  DayInv'
    <2>1. /\ stock # None /\ intake'.day = stock.day /\ orders' = orders /\ stock' = stock
          /\ bus' = bus /\ pre' = pre /\ today' = today /\ round' = round
          /\ mode' = mode
      BY <1>3 DEF OpenOrder, CanTake
    <2>2. QED
      BY <1>1, <1>2, <2>1, DayQuiet
  <1>4. ASSUME NEW t \in Tickets, NEW p \in Prices, NEW q \in 1 .. orders[t].quantity,
               CloseTicket(t, p, q)
        PROVE  DayInv'
    <2>1. /\ stock # None /\ intake'.day = stock.day /\ stock' = stock
          /\ bus' = bus /\ pre' = pre /\ today' = today /\ round' = round
          /\ mode' = mode
          /\ orders' = [orders EXCEPT ![t].closer = TRUE]
      BY <1>4 DEF CloseTicket, CanTake
    <2> DEFINE e == [orders[t] EXCEPT !.closer = TRUE]
    <2>2. orders[t] \in Order
      BY <1>1, OrdersAre
    <2>3. e \in Order /\ e.day = orders[t].day
      BY <2>2 DEF Order
    <2>4. orders' = [orders EXCEPT ![t] = e]
      BY <2>1
    <2> HIDE DEF e
    <2>5. Tickets' = Tickets
          /\ \A u \in Tickets : orders'[u] = IF u = t THEN e ELSE orders[u]
      BY <1>1, <2>3, <2>4, Replaced
    <2>6. SameDays
      BY <2>3, <2>5 DEF SameDays
    <2>7. QED
      BY <1>1, <2>1, <2>6, DayQuiet
  <1>5. CASE AddBotTicket
    <2>1. /\ Bot \in Order /\ Bot.day = stock.day /\ stock # None /\ InsertOrder(Bot)
      BY <1>1, <1>5, AddBotTicketIs
    <2>2. orders' = Append(orders, Bot)
      BY <2>1 DEF InsertOrder
    <2>3. Inserted(Bot, Len(orders) + 1)
      BY <1>1, <2>1, <2>2, Appended
    <2>4. Bot.day <= stock.day
      BY <1>1, <2>1, DaysAre
    <2>5. /\ intake.pc = "bot" /\ intake' = [intake EXCEPT !.pc = "order"]
          /\ stock' = stock /\ bus' = bus /\ pre' = pre /\ today' = today /\ round' = round
          /\ mode' = mode
      BY <1>5 DEF AddBotTicket
    <2>6. intake \in Intakes
      BY <1>1 DEF StateInv, IntakeInv
    <2>7. intake'.day = intake.day /\ intake.pc # "idle"
      BY <2>5, <2>6 DEF Intakes, Idle
    <2>8. QED
      BY <1>1, <2>1, <2>3, <2>4, <2>5, <2>7, DayInserted
  <1>6. CASE ProcessOrder
    <2>1. /\ Users \in Order /\ Users.day = intake.day /\ stock # None /\ InsertOrder(Users)
      BY <1>1, <1>6, ProcessOrderIs
    <2>2. orders' = Append(orders, Users)
      BY <2>1 DEF InsertOrder
    <2>3. Inserted(Users, Len(orders) + 1)
      BY <1>1, <2>1, <2>2, Appended
    <2>4. /\ intake.pc = "order" /\ intake'.pc = "idle"
          /\ stock' = stock /\ bus' = bus /\ pre' = pre /\ today' = today /\ round' = round
          /\ mode' = mode
      BY <1>6 DEF ProcessOrder, Idle
    <2>5. Users.day <= stock.day
      BY <2>1, <2>4 DEF DayInv
    <2>6. QED
      BY <1>1, <2>1, <2>3, <2>4, <2>5, DayInserted
  <1>7. CASE RefuseOrder
    <2>1. /\ intake'.pc = "idle" /\ orders' = orders /\ stock' = stock
          /\ bus' = bus /\ pre' = pre /\ today' = today /\ round' = round
          /\ mode' = mode
      BY <1>7 DEF RefuseOrder, Idle
    <2>2. QED
      BY <1>1, <1>2, <2>1, DayQuiet
  <1>8. CASE UpdateStock
    <2>1. /\ bus # None /\ stock' = bus /\ bus' = None /\ orders' = orders
          /\ pre' = pre /\ today' = today /\ round' = round /\ intake' = intake
          /\ mode' = mode
      BY <1>8 DEF UpdateStock
    <2>2. bus.day = today /\ bus.day \in Int
      BY <1>1, <2>1, DaysAre DEF DayInv
    <2>3. ASSUME NEW t \in Tickets PROVE orders[t].day <= bus.day
      BY <1>1, <2>2, DaysAre DEF DayInv
    <2>4. intake.pc # "idle" => intake.day <= bus.day
      BY <1>1, <2>2, DaysAre DEF DayInv
    <2>5. QED
      BY <2>1, <2>2, <2>3, <2>4 DEF DayInv, Tickets
  <1>9. ASSUME NEW p \in Prices, NEW d \in {today, today + 1}, d <= MaxDay, Quote(p, d)
        PROVE  DayInv'
    <2> DEFINE quote == [price |-> p, day |-> d]
               used == IF orders = << >> THEN None ELSE MatchQuote(quote)
    <2>1. /\ today' = d /\ round.pc = "idle" /\ bus = None
          /\ orders' = orders /\ stock' = stock /\ intake' = intake
          /\ pre' = IF orders # << >> /\ mode \in {"close", "next"} THEN quote ELSE pre
          /\ IF used = None
             THEN bus' = quote /\ round' = round
             ELSE /\ round' = [pc |-> "ready", price |-> used.price,
                               day |-> used.day, quote |-> quote]
                  /\ bus' = bus
      BY <1>9 DEF Quote
    <2>2. today \in 1 .. MaxDay /\ d \in 1 .. MaxDay /\ today <= d
      BY <1>1, <1>9, MarketAssumption DEF StateInv, QuotesInv
    <2>3. quote \in QuoteRecord /\ quote.day = d
      BY <2>2 DEF QuoteRecord
    <2>4. used # None => used.day = d \/ (pre # None /\ used.day = pre.day)
      BY <1>1, <2>3, MatchQuoteIs
    <2>5. orders # << >> <=> Tickets # {}
      <3>1. orders \in Seq(Order) /\ Tickets = 1 .. Len(orders) /\ Len(orders) \in Nat
        BY <1>1, OrdersAre
      <3>2. orders # << >> => Len(orders) \in Nat \ {0}
        BY <3>1, EmptySeq
      <3>3. orders = << >> => Len(orders) = 0
        OBVIOUS
      <3>4. Tickets = {} <=> Len(orders) = 0
        <4>1. Len(orders) = 0 => 1 .. Len(orders) = {}
          OBVIOUS
        <4>2. Len(orders) # 0 => 1 \in 1 .. Len(orders)
          BY <3>1
        <4>3. QED
          BY <3>1, <4>1, <4>2
      <3>5. QED
        BY <3>2, <3>3, <3>4
    <2>6. mode' = mode
      BY <1>9 DEF Quote
    <2> HIDE DEF quote, used
    <2>7. /\ Tickets' = Tickets
          /\ Tickets # {} \/ intake.pc # "idle" => stock # None
          /\ \A t \in Tickets : orders[t].day <= stock.day
          /\ intake.pc # "idle" => intake.day <= stock.day
          /\ pre # None => pre.day = today /\ Tickets # {} /\ mode \in {"close", "next"}
      BY <2>1 DEF DayInv, Tickets
    <2>8. stock # None => stock.day <= today /\ stock.day <= d
      <3>1. stock # None => stock.day \in Int /\ stock.day <= today
        BY <1>1, DaysAre DEF DayInv
      <3>2. QED
        BY <2>2, <3>1
    <2>9. bus' # None => bus'.day = d /\ (round'.pc # "idle" => bus'.day <= round'.day)
      BY <2>1, <2>2, <2>3
    <2>10. pre' # None => pre'.day = d /\ Tickets # {} /\ mode \in {"close", "next"}
      BY <2>1, <2>3, <2>5, <2>7
    <2>11. round'.pc # "idle" => /\ stock # None => stock.day <= round'.day
                                 /\ round'.quote # None => round'.quote.day = d
      <3>1. CASE used = None
        BY <2>1, <3>1
      <3>2. CASE used # None
        BY <2>1, <2>3, <2>4, <2>7, <2>8, <3>2
      <3>3. QED
        BY <3>1, <3>2
    <2>12. QED
      BY <2>1, <2>6, <2>7, <2>8, <2>9, <2>10, <2>11 DEF DayInv
  <1>10. ASSUME NEW t \in Tickets, NEW q \in Quantities \cup {0}, NEW p \in Prices,
                Deal(t, q, p)
         PROVE  DayInv'
    <2> DEFINE e == Dealt(orders[t], q)
    <2>1. /\ e \in Order /\ e.day = orders[t].day
      BY <1>1, OrdersAre, DealtIs
    <2>2. /\ orders' = [orders EXCEPT ![t] = e] /\ round.pc = "idle" /\ stock' = stock
          /\ today' = today /\ pre' = pre /\ bus' = bus /\ intake' = intake /\ mode' = mode
          /\ round' = [pc |-> "ready", price |-> p, day |-> today, quote |-> None]
      BY <1>10 DEF Deal, Dealt
    <2> HIDE DEF e
    <2>3. Tickets' = Tickets
          /\ \A u \in Tickets : orders'[u] = IF u = t THEN e ELSE orders[u]
      BY <1>1, <2>1, <2>2, Replaced
    <2>4. \A u \in Tickets : orders'[u].day = orders[u].day
      BY <2>1, <2>3
    <2>5. today \in Int
      BY <1>1, DaysAre
    <2>6. round'.day = today /\ round'.quote = None
      BY <2>2
    <2>7. /\ Tickets' = Tickets /\ \A u \in Tickets : orders'[u].day <= stock.day
      BY <2>3, <2>4 DEF DayInv
    <2>8. /\ stock # None => stock.day <= round'.day
          /\ bus # None => bus.day <= round'.day
      BY <2>5, <2>6 DEF DayInv
    <2>9. QED
      BY <2>2, <2>6, <2>7, <2>8 DEF DayInv
  <1>11. ASSUME orders' = orders, round.pc # "idle", EndRound, stock' = stock, today' = today,
                pre' = pre, intake' = intake, mode' = mode
         PROVE  DayInv'
    <2>1. round'.pc = "idle" /\ (bus' = bus \/ (bus' = round.quote /\ round.quote # None))
      BY <1>1, <1>11, EndRoundIs
    <2>2. QED
      BY <1>11, <2>1 DEF DayInv, Tickets
  <1>12. CASE MatchNothing
    BY <1>11, <1>12 DEF MatchNothing
  <1>13. CASE MatchStops
    BY <1>1, <1>11, <1>13, MatchStopsKeepsOrders DEF MatchStops
  <1>14. CASE MatchTrades
    <2> DEFINE b == Bid
               a == Ask
               price == PairPrice(Bid, Ask, round.price)
               q == PairQuantity(Bid, Ask)
    <2>1. Trades(b, a, price, q) /\ Tickets' = Tickets /\ DOMAIN orders' = DOMAIN orders
      BY <1>1, <1>14, MatchTradesIs
    <2> HIDE DEF b, a, price, q
    <2>2. orders'[b].day = orders[b].day /\ orders'[a].day = orders[a].day
      BY <1>1, <2>1, TradesKeep DEF Executes
    <2>3. SameDays
      BY <2>1, <2>2 DEF SameDays, Trades
    <2>4. /\ round.pc # "idle" /\ round' = [round EXCEPT !.pc = "match"] /\ stock' = stock
          /\ today' = today /\ pre' = pre /\ bus' = bus /\ intake' = intake /\ mode' = mode
      BY <1>14 DEF MatchTrades
    <2>5. round'.day = round.day /\ round'.quote = round.quote
      BY <1>1, <2>4 DEF StateInv, Rounds, Idle
    <2>6. /\ stock' = stock /\ bus' = bus /\ pre' = pre /\ today' = today /\ mode' = mode
          /\ round' = round \/ (/\ round.pc # "idle" /\ round'.day = round.day
                                /\ round'.quote = round.quote)
          /\ intake'.pc = "idle" \/ (intake.pc # "idle" /\ intake'.day = intake.day)
      BY <2>4, <2>5
    <2>7. QED
      BY <1>1, <2>3, <2>6, DayQuiet
  <1>15. CASE UNCHANGED vars
    BY <1>15 DEF vars, DayInv, Tickets
  <1>16. QED
    BY <1>3, <1>4, <1>5, <1>6, <1>7, <1>8, <1>9, <1>10, <1>12, <1>13, <1>14, <1>15
       DEF Next, FixThread, Quotes, Deals, Match

LEMMA DayInit == Init => DayInv
  <1> SUFFICES ASSUME Init PROVE DayInv
    OBVIOUS
  <1>1. Tickets = {}
    <2>1. orders \in Seq(Order) /\ Len(orders) = 0
      BY EmptySeq DEF Init
    <2>2. QED
      BY <2>1, LenProperties DEF Tickets
  <1>2. QED
    BY <1>1 DEF Init, DayInv, Idle

LEMMA DaysAlways == Spec => [](BookParts /\ DayInv)
  <1>1. QED
    BY BookInit, BookNext, DayInit, DayNext, PTL DEF Spec

\* What executes in a step was placed on the day of the round's price or before.
LEMMA FillsAreLater ==
    ASSUME BookParts, DayInv, [Next]_vars, NEW t \in Tickets,
           orders'[t].executed > orders[t].executed
    PROVE  orders[t].day <= round.day
  <1>1. StateInv /\ ListInv /\ SortInv
    BY DEF BookParts
  <1>2. orders[t] \in Order /\ orders[t].executed \in Nat
    BY <1>1, OrdersAre, OrderIs
  <1>3. ASSUME orders' = orders PROVE FALSE
    BY <1>2, <1>3
  <1>4. ASSUME NEW u \in Tickets, NEW p \in Prices, NEW q \in 1 .. orders[u].quantity,
               CloseTicket(u, p, q)
        PROVE  FALSE
    <2> DEFINE e == [orders[u] EXCEPT !.closer = TRUE]
    <2>1. orders[u] \in Order
      BY <1>1, OrdersAre
    <2>2. e \in Order /\ e.executed = orders[u].executed
      BY <2>1 DEF Order
    <2>3. orders' = [orders EXCEPT ![u] = e]
      BY <1>4 DEF CloseTicket
    <2> HIDE DEF e
    <2>4. \A v \in Tickets : orders'[v] = IF v = u THEN e ELSE orders[v]
      BY <1>1, <2>2, <2>3, Replaced
    <2>5. QED
      BY <1>2, <2>2, <2>4
  <1>5. ASSUME NEW o \in Order, InsertOrder(o) PROVE FALSE
    <2>1. orders' = Append(orders, o)
      BY <1>5 DEF InsertOrder
    <2>2. orders'[t] = orders[t]
      BY <1>1, <2>1, Appended DEF Inserted, Tickets
    <2>3. QED
      BY <1>2, <2>2
  <1>6. ASSUME NEW u \in Tickets, NEW q \in Quantities \cup {0}, NEW p \in Prices,
               Deal(u, q, p)
        PROVE  FALSE
    <2> DEFINE e == Dealt(orders[u], q)
    <2>1. orders[u] \in Order
      BY <1>1, OrdersAre
    <2>2. e \in Order /\ e.executed <= orders[u].executed
      BY <2>1, DealtIs
    <2>3. orders' = [orders EXCEPT ![u] = e]
      BY <1>6 DEF Deal, Dealt
    <2>4. e.executed \in Nat /\ orders[u].executed \in Nat
      BY <2>1, <2>2, OrderIs
    <2> HIDE DEF e
    <2>5. \A v \in Tickets : orders'[v] = IF v = u THEN e ELSE orders[v]
      BY <1>1, <2>2, <2>3, Replaced
    <2>6. QED
      BY <1>2, <2>2, <2>4, <2>5
  <1>7. CASE MatchTrades
    <2>1. round.pc # "idle"
      BY <1>7 DEF MatchTrades
    <2>2. stock # None /\ orders[t].day <= stock.day /\ stock.day <= round.day
      BY <2>1 DEF DayInv
    <2>3. orders[t].day \in Int /\ stock.day \in Int /\ round.day \in Int
      BY <1>1, <2>1, <2>2, DaysAre
    <2>4. QED
      BY <2>2, <2>3
  <1>8. CASE AddBotTicket
    BY <1>1, <1>5, <1>8, AddBotTicketIs
  <1>9. CASE ProcessOrder
    BY <1>1, <1>5, <1>9, ProcessOrderIs
  <1>10. CASE MatchStops
    BY <1>1, <1>3, <1>10, MatchStopsKeepsOrders
  <1>11. CASE Quotes
    BY <1>3, <1>11 DEF Quotes, Quote
  <1>12. CASE (\E s \in Sides, k \in Kinds, p \in Prices, q \in Quantities :
                  OpenOrder(s, k, p, q))
              \/ RefuseOrder \/ UpdateStock \/ MatchNothing \/ UNCHANGED vars
    BY <1>3, <1>12 DEF OpenOrder, RefuseOrder, UpdateStock, MatchNothing, vars
  <1>13. QED
    BY <1>4, <1>6, <1>7, <1>8, <1>9, <1>10, <1>11, <1>12 DEF Next, FixThread, Deals, Match

\* No order trades at a price of a day before its own, in any mode of matching.
THEOREM FillsAtLaterPrices == Spec => FillsUseLaterPrices
  <1>1. BookParts /\ DayInv /\ [Next]_vars =>
           [\A t \in Tickets : orders'[t].executed > orders[t].executed
                                  => orders[t].day <= round.day]_vars
    BY FillsAreLater
  <1>2. QED
    BY <1>1, DaysAlways, PTL DEF Spec, FillsUseLaterPrices

-----------------------------------------------------------------------------
(* The limits of the bids. *)

Within(o) ==
    o.side = "buy" /\ o.kind = "limit" /\ ~o.bot /\ o.executed > 0 => o.last <= o.price

LEMMA LimitsNext == BookParts /\ BuyLimitsHold /\ [Next]_vars => BuyLimitsHold'
  <1> SUFFICES ASSUME BookParts, BuyLimitsHold, [Next]_vars PROVE BuyLimitsHold'
    OBVIOUS
  <1>1. StateInv /\ ListInv /\ SortInv
    BY DEF BookParts
  <1>2. \A t \in Tickets : orders[t] \in Order /\ Within(orders[t])
    BY <1>1, OrdersAre DEF BuyLimitsHold, Within
  <1>3. ASSUME \A t \in Tickets' : Within(orders'[t]) PROVE BuyLimitsHold'
    BY <1>3 DEF BuyLimitsHold, Within
  <1>4. ASSUME orders' = orders PROVE BuyLimitsHold'
    BY <1>2, <1>3, <1>4 DEF Tickets
  <1>5. ASSUME NEW u \in Tickets, NEW e \in Order, orders' = [orders EXCEPT ![u] = e],
               e.side = orders[u].side, e.kind = orders[u].kind, e.bot = orders[u].bot,
               e.last = orders[u].last, e.price = orders[u].price,
               e.executed <= orders[u].executed
        PROVE  BuyLimitsHold'
    <2>1. Tickets' = Tickets
          /\ \A v \in Tickets : orders'[v] = IF v = u THEN e ELSE orders[v]
      BY <1>1, <1>5, Replaced
    <2>2. /\ e.executed \in Nat /\ orders[u].executed \in Nat
          /\ e.bot \in BOOLEAN /\ orders[u].bot \in BOOLEAN /\ Within(orders[u])
      BY <1>2, OrderIs
    <2>3. Within(e)
      <3>1. e.executed > 0 => orders[u].executed > 0
        BY <1>5, <2>2
      <3>2. ~e.bot <=> ~orders[u].bot
        BY <1>5
      <3>3. QED
        BY <1>5, <2>2, <3>1, <3>2 DEF Within
    <2>4. QED
      BY <1>2, <1>3, <2>1, <2>3
  <1>6. ASSUME NEW u \in Tickets, NEW p \in Prices, NEW q \in 1 .. orders[u].quantity,
               CloseTicket(u, p, q)
        PROVE  BuyLimitsHold'
    <2> DEFINE e == [orders[u] EXCEPT !.closer = TRUE]
    <2>1. orders[u] \in Order /\ orders[u].executed \in Nat
      BY <1>2, OrderIs
    <2>2. /\ e \in Order /\ e.side = orders[u].side /\ e.kind = orders[u].kind
          /\ e.bot = orders[u].bot /\ e.last = orders[u].last
          /\ e.price = orders[u].price /\ e.executed <= orders[u].executed
      <3>1. e \in Order
        BY <2>1 DEF Order
      <3>2. /\ e.side = orders[u].side /\ e.kind = orders[u].kind
            /\ e.last = orders[u].last /\ e.price = orders[u].price
            /\ e.executed = orders[u].executed
        BY <2>1 DEF Order
      <3>3. e.bot = orders[u].bot
        BY <2>1, Zenon DEF Order
      <3>4. QED
        BY <2>1, <3>1, <3>2, <3>3
    <2>3. orders' = [orders EXCEPT ![u] = e]
      BY <1>6 DEF CloseTicket
    <2> HIDE DEF e
    <2>4. QED
      BY <1>5, <2>2, <2>3
  <1>7. ASSUME NEW o \in Order, o.executed = 0, InsertOrder(o) PROVE BuyLimitsHold'
    <2>1. orders' = Append(orders, o)
      BY <1>7 DEF InsertOrder
    <2>2. Inserted(o, Len(orders) + 1)
      BY <1>1, <2>1, Appended
    <2>3. Within(o)
      BY <1>7 DEF Within
    <2>4. QED
      BY <1>2, <1>3, <2>2, <2>3 DEF Inserted, Tickets
  <1>8. ASSUME NEW u \in Tickets, NEW q \in Quantities \cup {0}, NEW p \in Prices,
               Deal(u, q, p)
        PROVE  BuyLimitsHold'
    <2> DEFINE e == Dealt(orders[u], q)
    <2>1. /\ e \in Order /\ e.side = orders[u].side /\ e.kind = orders[u].kind
          /\ e.bot = orders[u].bot /\ e.last = orders[u].last
          /\ e.price = orders[u].price /\ e.executed <= orders[u].executed
      BY <1>2, DealtIs
    <2>2. orders' = [orders EXCEPT ![u] = e]
      BY <1>8 DEF Deal, Dealt
    <2> HIDE DEF e
    <2>3. QED
      BY <1>5, <2>1, <2>2
  <1>9. CASE MatchTrades
    <2> DEFINE b == Bid
               a == Ask
               price == PairPrice(b, a, round.price)
               q == PairQuantity(b, a)
    <2>1. /\ Trades(b, a, price, q) /\ Tickets' = Tickets /\ DOMAIN orders' = DOMAIN orders
          /\ PairKind(b, a) = "limit" => orders[b].price >= price
      BY <1>1, <1>9, MatchTradesIs DEF Reached
    <2>2. orders[b].bot = FALSE => PairKind(b, a) = orders[b].kind
      BY DEF PairKind
    <2> HIDE DEF b, a, price, q
    <2>3. Executes(orders[b], orders'[b], price, q) /\ Executes(orders[a], orders'[a], price, q)
      BY <1>1, <2>1, TradesKeep
    <2>4. price \in Int /\ orders[b].price \in Int /\ b \in Tickets /\ a \in Tickets
          /\ orders[a].side = "sell" /\ orders[b].bot \in BOOLEAN
      <3>1. price \in Prices /\ b \in Tickets /\ a \in Tickets /\ orders[a].side = "sell"
        BY <2>1 DEF Trades
      <3>2. Prices \subseteq Int
        BY MarketAssumption
      <3>3. QED
        BY <1>2, <3>1, <3>2, OrderIs
    <2>5. Within(orders'[b])
      BY <2>1, <2>2, <2>3, <2>4 DEF Within, Executes
    <2>6. Within(orders'[a])
      BY <2>3, <2>4 DEF Within, Executes
    <2>7. \A t \in Tickets \ {b, a} : orders'[t] = orders[t]
      BY <2>1 DEF Trades
    <2>8. QED
      BY <1>2, <1>3, <2>1, <2>5, <2>6, <2>7
  <1>10. CASE AddBotTicket
    BY <1>1, <1>7, <1>10, AddBotTicketIs
  <1>11. CASE ProcessOrder
    BY <1>1, <1>7, <1>11, ProcessOrderIs
  <1>12. CASE MatchStops
    BY <1>1, <1>4, <1>12, MatchStopsKeepsOrders
  <1>13. CASE Quotes
    BY <1>4, <1>13 DEF Quotes, Quote
  <1>14. CASE (\E s \in Sides, k \in Kinds, p \in Prices, q \in Quantities :
                  OpenOrder(s, k, p, q))
              \/ RefuseOrder \/ UpdateStock \/ MatchNothing \/ UNCHANGED vars
    BY <1>4, <1>14 DEF OpenOrder, RefuseOrder, UpdateStock, MatchNothing, vars
  <1>15. QED
    BY <1>6, <1>8, <1>9, <1>10, <1>11, <1>12, <1>13, <1>14 DEF Next, FixThread, Deals, Match

\* No limit bid ever pays more than its limit, whatever pair, mode or deal.
THEOREM BidsPayWithinLimits == Spec => []BuyLimitsHold
  <1>1. Init => BuyLimitsHold
    <2>1. Init => Tickets = {}
      <3>1. Init => orders \in Seq(Order) /\ Len(orders) = 0
        BY EmptySeq DEF Init
      <3>2. QED
        BY <3>1, LenProperties DEF Tickets
    <2>2. QED
      BY <2>1 DEF BuyLimitsHold
  <1>2. QED
    BY <1>1, BookInit, BookNext, LimitsNext, PTL DEF Spec

-----------------------------------------------------------------------------
(* What both sides have executed. *)

SideSum(os, T, s) ==
    SumFunctionOnSet([t \in T |-> os[t].executed], {t \in T : os[t].side = s})

LEMMA SideSumSame ==
    ASSUME NEW T, IsFiniteSet(T), NEW os, NEW ns, NEW s,
           \A t \in T : ns[t].side = os[t].side,
           \A t \in T : os[t].side = s => ns[t].executed = os[t].executed
    PROVE  SideSum(ns, T, s) = SideSum(os, T, s)
  <1> DEFINE S == {t \in T : os[t].side = s}
             e == [t \in T |-> ns[t].executed]
             f == [t \in T |-> os[t].executed]
  <1>1. IsFiniteSet(S) /\ {t \in T : ns[t].side = s} = S
    <2>1. S \subseteq T
      OBVIOUS
    <2>2. QED
      BY <2>1, FS_Subset
  <1>2. \A t \in S : e[t] = f[t]
    OBVIOUS
  <1> HIDE DEF S, e, f
  <1>3. SumFunctionOnSet(e, S) = SumFunctionOnSet(f, S)
    BY <1>1, <1>2, SumSame
  <1>4. QED
    BY <1>1, <1>3 DEF SideSum, S, e, f

LEMMA SideSumInt ==
    ASSUME NEW T, IsFiniteSet(T), NEW os, NEW s, \A t \in T : os[t].executed \in Int
    PROVE  SideSum(os, T, s) \in Int
  <1> DEFINE S == {t \in T : os[t].side = s}
             f == [t \in T |-> os[t].executed]
  <1>1. IsFiniteSet(S)
    <2>1. S \subseteq T
      OBVIOUS
    <2>2. QED
      BY <2>1, FS_Subset
  <1>2. \A t \in S : f[t] \in Int
    OBVIOUS
  <1> HIDE DEF S, f
  <1>3. QED
    BY <1>1, <1>2, SumInt DEF SideSum, S, f

\* An order that has executed nothing joins.
Grown(ns, os, U, T, u) ==
    /\ IsFiniteSet(T) /\ u \notin T /\ U = T \cup {u} /\ ns[u].executed = 0
    /\ \A t \in T : /\ ns[t].side = os[t].side
                    /\ ns[t].executed = os[t].executed /\ os[t].executed \in Int

LEMMA SideSumAdded ==
    ASSUME NEW T, NEW os, NEW ns, NEW s, NEW u, NEW U, Grown(ns, os, U, T, u)
    PROVE  SideSum(ns, U, s) = SideSum(os, T, s)
  <1> DEFINE S == {t \in T : os[t].side = s}
             f == [t \in T |-> os[t].executed]
             e == [t \in T \cup {u} |-> ns[t].executed]
             R == {t \in T \cup {u} : ns[t].side = s}
  <1>1. IsFiniteSet(S) /\ S \subseteq T /\ u \notin S
    <2>1. S \subseteq T
      OBVIOUS
    <2>2. QED
      BY <2>1, FS_Subset DEF Grown
  <1>2. R = IF ns[u].side = s THEN S \cup {u} ELSE S
    BY DEF Grown
  <1>3. (\A t \in S : e[t] = f[t] /\ e[t] \in Int) /\ e[u] = 0 /\ U = T \cup {u}
    BY DEF Grown
  <1> HIDE DEF S, e, f, R
  <1>4. SumFunctionOnSet(e, S) = SumFunctionOnSet(f, S)
    BY <1>1, <1>3, SumSame
  <1>5. SumFunctionOnSet(e, S) \in Int
    BY <1>1, <1>3, SumInt
  <1>6. SumFunctionOnSet(e, S \cup {u}) = e[u] + SumFunctionOnSet(e, S)
    BY <1>1, <1>3, SumAdded
  <1>7. SumFunctionOnSet(e, R) = SumFunctionOnSet(f, S)
    BY <1>2, <1>3, <1>4, <1>5, <1>6
  <1>8. QED
    BY <1>3, <1>7 DEF SideSum, S, e, f, R

\* One order of the side executes.
Executing(ns, os, T, s, u) ==
    /\ IsFiniteSet(T) /\ u \in T /\ os[u].side = s
    /\ \A t \in T : /\ ns[t].side = os[t].side
                    /\ os[t].executed \in Int /\ ns[t].executed \in Int
                    /\ os[t].side = s /\ t # u => ns[t].executed = os[t].executed

LEMMA SideSumChanged ==
    ASSUME NEW T, NEW os, NEW ns, NEW s, NEW u, Executing(ns, os, T, s, u)
    PROVE  SideSum(ns, T, s) = SideSum(os, T, s) - os[u].executed + ns[u].executed
  <1> DEFINE S == {t \in T : os[t].side = s}
             e == [t \in T |-> ns[t].executed]
             f == [t \in T |-> os[t].executed]
  <1>1. IsFiniteSet(S) /\ {t \in T : ns[t].side = s} = S /\ u \in S
    <2>1. S \subseteq T
      OBVIOUS
    <2>2. QED
      BY <2>1, FS_Subset DEF Executing
  <1>2. /\ \A t \in S : e[t] \in Int /\ f[t] \in Int
        /\ \A t \in S \ {u} : e[t] = f[t]
        /\ e[u] = ns[u].executed /\ f[u] = os[u].executed
    BY DEF Executing
  <1> HIDE DEF S, e, f
  <1>3. SumFunctionOnSet(e, S) = SumFunctionOnSet(f, S) - f[u] + e[u]
    BY <1>1, <1>2, SumChanged
  <1>4. QED
    BY <1>1, <1>2, <1>3 DEF SideSum, S, e, f

\* Without external deals no order has a quantity of its own to trade.
PassiveInv ==
    mode # "external" =>
        /\ \A t \in Tickets : orders[t].active = 0
        /\ ExecutedOn("buy") = ExecutedOn("sell")

LEMMA FiniteTickets ==
    ASSUME StateInv
    PROVE  IsFiniteSet(Tickets)
  <1>1. Tickets = 1 .. Len(orders) /\ Len(orders) \in Nat
    BY OrdersAre
  <1>2. QED
    BY <1>1, FS_Interval

LEMMA ModeStays == [Next]_vars => mode' = mode
  <1>1. Quotes => mode' = mode
    BY DEF Quotes, Quote
  <1>2. Deals => mode' = mode
    BY DEF Deals, Deal
  <1>3. FixThread => mode' = mode
    BY DEF FixThread, OpenOrder, CloseTicket, AddBotTicket, ProcessOrder, RefuseOrder
  <1>4. UpdateStock \/ Match => mode' = mode
    BY DEF UpdateStock, Match, MatchNothing, MatchStops, MatchTrades
  <1>5. QED
    BY <1>1, <1>2, <1>3, <1>4 DEF Next, vars

LEMMA PassiveNext == BookParts /\ PassiveInv /\ [Next]_vars => PassiveInv'
  <1> SUFFICES ASSUME BookParts, PassiveInv, [Next]_vars, mode' # "external"
               PROVE  PassiveInv'
    BY DEF PassiveInv
  <1>1. StateInv /\ ListInv /\ SortInv /\ IsFiniteSet(Tickets)
    BY FiniteTickets DEF BookParts
  <1>2. mode # "external" /\ \A t \in Tickets : orders[t] \in Order /\ orders[t].active = 0
                                                /\ orders[t].executed \in Nat
    <2>1. mode' = mode
      BY ModeStays
    <2>2. QED
      BY <1>1, <2>1, OrdersAre, OrderIs DEF PassiveInv
  <1>3. SideSum(orders, Tickets, "buy") = SideSum(orders, Tickets, "sell")
    BY <1>2 DEF PassiveInv, ExecutedOn, SideSum
  <1>4. ASSUME \A t \in Tickets' : orders'[t].active = 0,
               SideSum(orders', Tickets', "buy") = SideSum(orders', Tickets', "sell")
        PROVE  PassiveInv'
    BY <1>4 DEF PassiveInv, ExecutedOn, SideSum
  <1>5. ASSUME Tickets' = Tickets,
               \A t \in Tickets : /\ orders'[t].side = orders[t].side
                                  /\ orders'[t].executed = orders[t].executed
                                  /\ orders'[t].active = 0
        PROVE  PassiveInv'
    <2>1. /\ SideSum(orders', Tickets, "buy") = SideSum(orders, Tickets, "buy")
          /\ SideSum(orders', Tickets, "sell") = SideSum(orders, Tickets, "sell")
      BY <1>1, <1>5, SideSumSame
    <2>2. QED
      BY <1>3, <1>4, <1>5, <2>1
  <1>6. ASSUME orders' = orders PROVE PassiveInv'
    BY <1>2, <1>5, <1>6 DEF Tickets
  <1>7. ASSUME NEW o \in Order, o.executed = 0, o.active = 0, InsertOrder(o)
        PROVE  PassiveInv'
    <2>1. orders' = Append(orders, o)
      BY <1>7 DEF InsertOrder
    <2>2. Inserted(o, Len(orders) + 1)
      BY <1>1, <2>1, Appended
    <2> DEFINE u == Len(orders) + 1
    <2>3. /\ Tickets' = Tickets \cup {u} /\ u \notin Tickets
          /\ orders'[u] = o /\ \A t \in Tickets : orders'[t] = orders[t]
      BY <2>2 DEF Inserted, Tickets
    <2> HIDE DEF u
    <2>4. \A s : SideSum(orders', Tickets', s) = SideSum(orders, Tickets, s)
      <3>1. Grown(orders', orders, Tickets', Tickets, u)
        BY <1>1, <1>2, <1>7, <2>3 DEF Grown
      <3>2. QED
        BY <3>1, SideSumAdded
    <2>5. SideSum(orders', Tickets', "buy") = SideSum(orders', Tickets', "sell")
      BY <1>3, <2>4
    <2>6. QED
      BY <1>2, <1>4, <1>7, <2>3, <2>5
  <1>8. ASSUME NEW u \in Tickets, NEW p \in Prices, NEW q \in 1 .. orders[u].quantity,
               CloseTicket(u, p, q)
        PROVE  PassiveInv'
    <2> DEFINE e == [orders[u] EXCEPT !.closer = TRUE]
    <2>1. orders[u] \in Order
      BY <1>2
    <2>2. /\ e \in Order /\ e.side = orders[u].side
          /\ e.executed = orders[u].executed /\ e.active = orders[u].active
      BY <2>1 DEF Order
    <2>3. orders' = [orders EXCEPT ![u] = e]
      BY <1>8 DEF CloseTicket
    <2> HIDE DEF e
    <2>4. Tickets' = Tickets
          /\ \A v \in Tickets : orders'[v] = IF v = u THEN e ELSE orders[v]
      BY <1>1, <2>2, <2>3, Replaced
    <2>5. QED
      BY <1>2, <1>5, <2>2, <2>4
  <1>9. CASE MatchTrades
    <2> DEFINE b == Bid
               a == Ask
               price == PairPrice(b, a, round.price)
               q == PairQuantity(b, a)
    <2>1. Trades(b, a, price, q) /\ Tickets' = Tickets /\ DOMAIN orders' = DOMAIN orders
      BY <1>1, <1>9, MatchTradesIs
    <2>2. b \in Tickets /\ a \in Tickets /\ b # a
          /\ orders[b].side = "buy" /\ orders[a].side = "sell"
      BY <2>1 DEF Trades
    <2>3. q = Smaller(orders[b].leaves, orders[a].leaves)
      BY <1>2, <2>2 DEF PairQuantity
    <2> HIDE DEF b, a, price, q
    <2>4. Executes(orders[b], orders'[b], price, q) /\ Executes(orders[a], orders'[a], price, q)
      BY <1>1, <2>1, TradesKeep
    <2>5. orders[b].leaves \in Nat /\ orders[a].leaves \in Nat
      BY <1>2, <2>2, OrderIs
    <2>6. Smaller(q, orders[b].leaves) = q /\ Smaller(q, orders[a].leaves) = q /\ q \in Nat
      BY <2>3, <2>5 DEF Smaller
    <2>7. \A t \in Tickets \ {b, a} : orders'[t] = orders[t]
      BY <2>1 DEF Trades
    <2>8. /\ orders'[b].side = "buy" /\ orders'[b].active = 0
          /\ orders'[b].executed = orders[b].executed + q
          /\ orders'[a].side = "sell" /\ orders'[a].active = 0
          /\ orders'[a].executed = orders[a].executed + q
      BY <1>2, <2>2, <2>4, <2>6 DEF Executes
    <2>9. \A t \in Tickets : /\ orders'[t].side = orders[t].side
                             /\ orders'[t].executed \in Int /\ orders[t].executed \in Int
                             /\ orders'[t].active = 0
      BY <1>2, <2>2, <2>6, <2>7, <2>8
    <2>10. SideSum(orders', Tickets, "buy")
             = SideSum(orders, Tickets, "buy") - orders[b].executed + orders'[b].executed
      <3>1. Executing(orders', orders, Tickets, "buy", b)
        BY <1>1, <2>2, <2>7, <2>9 DEF Executing
      <3>2. QED
        BY <3>1, SideSumChanged
    <2>11. SideSum(orders', Tickets, "sell")
             = SideSum(orders, Tickets, "sell") - orders[a].executed + orders'[a].executed
      <3>1. Executing(orders', orders, Tickets, "sell", a)
        BY <1>1, <2>2, <2>7, <2>9 DEF Executing
      <3>2. QED
        BY <3>1, SideSumChanged
    <2>12. SideSum(orders, Tickets, "buy") \in Int
      BY <1>1, <1>2, SideSumInt
    <2>13. SideSum(orders', Tickets, "buy") = SideSum(orders', Tickets, "sell")
      BY <1>2, <1>3, <2>2, <2>6, <2>8, <2>10, <2>11, <2>12
    <2>14. QED
      BY <1>4, <2>1, <2>9, <2>13
  <1>10. CASE AddBotTicket
    <2>1. Bot \in Order /\ Bot.executed = 0 /\ Bot.active = 0 /\ InsertOrder(Bot)
      BY <1>1, <1>10, AddBotTicketIs DEF Count0
    <2>2. QED
      BY <1>7, <2>1
  <1>11. CASE ProcessOrder
    <2>1. Users \in Order /\ Users.executed = 0 /\ Users.active = 0 /\ InsertOrder(Users)
      BY <1>1, <1>11, ProcessOrderIs DEF Count0
    <2>2. QED
      BY <1>7, <2>1
  <1>12. CASE MatchStops
    BY <1>1, <1>6, <1>12, MatchStopsKeepsOrders
  <1>13. CASE Quotes
    BY <1>6, <1>13 DEF Quotes, Quote
  <1>14. CASE (\E s \in Sides, k \in Kinds, p \in Prices, q \in Quantities :
                  OpenOrder(s, k, p, q))
              \/ RefuseOrder \/ UpdateStock \/ MatchNothing \/ UNCHANGED vars
    BY <1>6, <1>14 DEF OpenOrder, RefuseOrder, UpdateStock, MatchNothing, vars
  <1>15. CASE Deals
    BY <1>2, <1>15 DEF Deals, Deal
  <1>16. QED
    BY <1>8, <1>9, <1>10, <1>11, <1>12, <1>13, <1>14, <1>15 DEF Next, FixThread, Match

\* However often orders are closed, matched and rotated, the bids have executed
\* what the asks have, unless a batch from outside sets the quantities.
THEOREM BothSidesAgree == Spec => []BothSidesExecute
  <1>1. Init => PassiveInv
    <2>1. Init => Tickets = {}
      <3>1. Init => orders \in Seq(Order) /\ Len(orders) = 0
        BY EmptySeq DEF Init
      <3>2. QED
        BY <3>1, LenProperties DEF Tickets
    <2>2. ASSUME Tickets = {} PROVE ExecutedOn("buy") = ExecutedOn("sell")
      <3>1. /\ {t \in Tickets : orders[t].side = "buy"} = {}
            /\ {t \in Tickets : orders[t].side = "sell"} = {}
        BY <2>2
      <3>2. QED
        BY <3>1 DEF ExecutedOn
    <2>3. QED
      BY <2>1, <2>2 DEF PassiveInv
  <1>2. PassiveInv => BothSidesExecute
    BY DEF PassiveInv, BothSidesExecute
  <1>3. QED
    BY <1>1, <1>2, BookInit, BookNext, PassiveNext, PTL DEF Spec

-----------------------------------------------------------------------------
(* The lists as a price-time book. *)

LEMMA CountsAre ==
    ASSUME ~Closing, "external" \notin Modes, BookParts, CountInv
    PROVE  mode # "external" /\ \A t \in Tickets : orders[t] \in Order /\ Count(orders[t])
  BY NotExternal, OrdersAre DEF CountInv, BookParts

\* A trade takes what the smaller order of the pair has left from both.
LEMMA TradeCounts ==
    ASSUME NEW o \in Order, Count(o), NEW e, NEW price, NEW q \in Nat,
           Executes(o, e, price, q), q <= o.leaves
    PROVE  /\ Count(e) /\ e.leaves = o.leaves - q
           /\ ~Filled(o) => (Filled(e) <=> o.leaves = q)
           /\ ~Filled(o) => o.leaves > 0
  <1>1. /\ o.quantity \in Nat /\ o.open \in Nat /\ o.leaves \in Nat
        /\ o.executed \in Nat
    BY OrderIs
  <1>2. Smaller(q, o.leaves) = q
    BY <1>1 DEF Smaller
  <1>3. /\ e.quantity = o.quantity /\ e.active = o.active /\ e.closer = o.closer
        /\ e.executed = o.executed + q /\ e.leaves = o.leaves - q /\ e.open = o.open
    BY <1>2 DEF Executes, Count
  <1>4. Count(e) /\ e.leaves = o.leaves - q
    BY <1>1, <1>3 DEF Count
  <1>5. ~Filled(o) => (Filled(e) <=> o.leaves = q)
    BY <1>1, <1>3 DEF Count, Filled
  <1>6. ~Filled(o) => o.leaves > 0
    BY <1>1 DEF Count, Filled
  <1>7. QED
    BY <1>4, <1>5, <1>6

\* The pair that trades: who the two are, and what they trade.
LEMMA PairIs ==
    ASSUME ~Closing, "external" \notin Modes, BookParts, CountInv, MatchTrades,
           NEW b, b = Bid, NEW a, a = Ask
    PROVE  \E price, q : /\ Trades(b, a, price, q) /\ DOMAIN orders' = DOMAIN orders
                         /\ Tickets' = Tickets
                         /\ q <= orders[b].leaves /\ q <= orders[a].leaves
                         /\ q = orders[b].leaves \/ q = orders[a].leaves
                         /\ b = Offered(list["buy"], orders) /\ b # NoTicket
                         /\ a = Offered(list["sell"], orders) /\ a # NoTicket
  <1>1. StateInv /\ ListInv /\ SortInv
    BY DEF BookParts
  <1> DEFINE price == PairPrice(b, a, round.price)
             q == PairQuantity(b, a)
  <1>2. Trades(b, a, price, q) /\ DOMAIN orders' = DOMAIN orders /\ Tickets' = Tickets
    BY <1>1, MatchTradesIs
  <1>3. b \in Tickets /\ a \in Tickets
    BY <1>2 DEF Trades
  <1>4. orders[b].active = 0 /\ orders[a].active = 0
        /\ orders[b].leaves \in Nat /\ orders[a].leaves \in Nat
    BY <1>3, CountsAre, OrderIs DEF Count
  <1>5. q = Smaller(orders[b].leaves, orders[a].leaves)
    BY <1>4 DEF PairQuantity
  <1>6. /\ q <= orders[b].leaves /\ q <= orders[a].leaves
        /\ q = orders[b].leaves \/ q = orders[a].leaves
    BY <1>4, <1>5 DEF Smaller
  <1>7. /\ b = Offered(list["buy"], orders) /\ b # NoTicket
        /\ a = Offered(list["sell"], orders) /\ a # NoTicket
    BY DEF MatchTrades, Bid, Ask
  <1> HIDE DEF price, q
  <1>8. QED
    BY <1>2, <1>6, <1>7

LEMMA CountNext ==
    ASSUME ~Closing, "external" \notin Modes
    PROVE  BookParts /\ CountInv /\ [Next]_vars => CountInv'
  <1> SUFFICES ASSUME BookParts, CountInv, [Next]_vars PROVE CountInv'
    OBVIOUS
  <1>1. StateInv /\ ListInv /\ SortInv
    BY DEF BookParts
  <1>2. mode # "external" /\ \A t \in Tickets : orders[t] \in Order /\ Count(orders[t])
    BY CountsAre
  <1>3. ASSUME \A t \in Tickets' : Count(orders'[t]) PROVE CountInv'
    BY <1>3 DEF CountInv
  <1>4. ASSUME orders' = orders PROVE CountInv'
    BY <1>2, <1>3, <1>4 DEF Tickets
  <1>5. ASSUME NEW o \in Order, Count0(o), InsertOrder(o) PROVE CountInv'
    <2>1. orders' = Append(orders, o)
      BY <1>5 DEF InsertOrder
    <2>2. Inserted(o, Len(orders) + 1)
      BY <1>1, <2>1, Appended
    <2>3. Count(o)
      BY <1>5, OrderIs DEF Count, Count0
    <2>4. QED
      BY <1>2, <1>3, <2>2, <2>3 DEF Inserted, Tickets
  <1>6. CASE MatchTrades
    <2> DEFINE b == Bid
               a == Ask
    <2>1. PICK price, q : /\ Trades(b, a, price, q) /\ DOMAIN orders' = DOMAIN orders
                          /\ Tickets' = Tickets
                          /\ q <= orders[b].leaves /\ q <= orders[a].leaves
      BY <1>6, PairIs
    <2> HIDE DEF b, a
    <2>2. b \in Tickets /\ a \in Tickets /\ q \in Nat
      BY <2>1 DEF Trades
    <2>3. Executes(orders[b], orders'[b], price, q) /\ Executes(orders[a], orders'[a], price, q)
      BY <1>1, <2>1, TradesKeep
    <2>4. Count(orders'[b]) /\ Count(orders'[a])
      BY <1>2, <2>1, <2>2, <2>3, TradeCounts
    <2>5. \A t \in Tickets \ {b, a} : orders'[t] = orders[t]
      BY <2>1 DEF Trades
    <2>6. QED
      BY <1>2, <1>3, <2>1, <2>4, <2>5
  <1>7. CASE AddBotTicket
    BY <1>1, <1>5, <1>7, AddBotTicketIs
  <1>8. CASE ProcessOrder
    BY <1>1, <1>5, <1>8, ProcessOrderIs
  <1>9. CASE MatchStops
    BY <1>1, <1>4, <1>9, MatchStopsKeepsOrders
  <1>10. CASE Quotes
    BY <1>4, <1>10 DEF Quotes, Quote
  <1>11. CASE (\E s \in Sides, k \in Kinds, p \in Prices, q \in Quantities :
                  OpenOrder(s, k, p, q))
              \/ RefuseOrder \/ UpdateStock \/ MatchNothing \/ UNCHANGED vars
    BY <1>4, <1>11 DEF OpenOrder, RefuseOrder, UpdateStock, MatchNothing, vars
  <1>12. \A t, p, q : ~CloseTicket(t, p, q) /\ ~Deal(t, p, q)
    BY <1>2 DEF CloseTicket, Deal
  <1>13. QED
    BY <1>6, <1>7, <1>8, <1>9, <1>10, <1>11, <1>12 DEF Next, FixThread, Deals, Match

\* The offered order comes first among the live orders of its side.
LEMMA OfferedIsFirst ==
    ASSUME "external" \notin Modes, BookParts, NEW s \in Sides, NEW t,
           t = Offered(list[s], orders), t # NoTicket
    PROVE  t \in Live /\ orders[t].side = s /\ PriceTimeBook!First(t)
  <1> DEFINE l == Spread(list[s], orders)
             ls == l.levels
  <1>1. StateInv /\ ListInv /\ SortInv /\ mode # "external"
    BY NotExternal DEF BookParts
  <1>2. /\ t \in Tickets /\ orders[t].side = s /\ 1 \in DOMAIN ls /\ 1 \in DOMAIN ls[1]
        /\ t = ls[1][1]
    BY <1>1, Offers
  <1>3. /\ Shaped(list[s]) /\ OfSide(list[s].levels, orders, s) /\ Distinct(list[s].levels)
        /\ Sorted(list[s].levels, orders)
        /\ HeadOnly(list[s].levels, orders, round.pc = "match")
    BY <1>1, Lists, Sorts
  <1>4. Shaped(l) /\ Sorted(ls, orders)
        /\ \A u : Holds(list[s].levels, u) /\ ~Filled(orders[u]) => Holds(ls, u)
    BY <1>3, SpreadKeeps
  <1>5. NoneFilled(ls, orders)
    BY <1>3, HeadGoes
  <1>6. ls \in Seq(Seq(Nat))
    BY <1>4, ShapedList
  <1>7. \A i \in DOMAIN ls : i \in Nat /\ i >= 1
                             /\ \A j \in DOMAIN ls[i] : j \in Nat /\ j >= 1
    <2>1. Len(ls) \in Nat /\ DOMAIN ls = 1 .. Len(ls)
          /\ \A i \in DOMAIN ls : Len(ls[i]) \in Nat /\ DOMAIN ls[i] = 1 .. Len(ls[i])
      BY <1>6, Levels
    <2>2. QED
      BY <2>1
  <1> HIDE DEF l
  <1>8. t \in Live
    BY <1>2, <1>5 DEF NoneFilled, Live
  <1>9. ASSUME NEW u \in Live, u # t, orders[u].side = s
        PROVE  Better(orders[t], orders[u])
               \/ (orders[t].price = orders[u].price /\ t < u)
    <2>1. Holds(ls, u)
      BY <1>1, <1>4, <1>9 DEF ListInv, Live
    <2>2. PICK i \in DOMAIN ls : \E j \in DOMAIN ls[i] : ls[i][j] = u
      BY <2>1 DEF Holds
    <2>3. PICK j \in DOMAIN ls[i] : ls[i][j] = u
      BY <2>2
    <2>4. 1 < i \/ (1 = i /\ 1 < j)
      <3>1. i \in Nat /\ j \in Nat /\ i >= 1 /\ j >= 1
        BY <1>7
      <3>2. ~(i = 1 /\ j = 1)
        BY <1>2, <1>9, <2>3
      <3>3. QED
        BY <3>1, <3>2
    <2>5. /\ 1 < i => Better(orders[ls[1][1]], orders[ls[i][j]])
          /\ 1 = i => orders[ls[1][1]].price = orders[ls[i][j]].price
          /\ 1 = i /\ 1 < j => ls[1][1] < ls[i][j]
      BY <1>2, <1>4 DEF Sorted
    <2>6. QED
      BY <1>2, <2>3, <2>4, <2>5
  <1>10. DOMAIN resting = Live /\ \A u \in Live : /\ resting[u].side = orders[u].side
                                                  /\ resting[u].price = orders[u].price
    BY DEF resting
  <1>11. PriceTimeBook!First(t)
    <2> SUFFICES ASSUME NEW u \in Live \ {t}, resting[u].side = resting[t].side
                 PROVE  \/ PriceTimeBook!BetterPrice(resting[t], resting[u])
                        \/ resting[t].price = resting[u].price /\ t < u
      BY <1>10 DEF PriceTimeBook!First
    <2>1. orders[u].side = s
      BY <1>2, <1>8, <1>10
    <2>2. Better(orders[t], orders[u]) => PriceTimeBook!BetterPrice(resting[t], resting[u])
      BY <1>8, <1>10 DEF Better, PriceTimeBook!BetterPrice
    <2>3. QED
      BY <1>8, <1>9, <1>10, <2>1, <2>2
  <1>12. QED
    BY <1>2, <1>8, <1>11

LEMMA RestingStays ==
    ASSUME orders' = orders
    PROVE  resting' = resting
  BY DEF resting, Live, Tickets

\* An order that is inserted arrives in the book.
LEMMA Arrives ==
    ASSUME StateInv, NEW o \in Order, ~Filled(o), InsertOrder(o)
    PROVE  PriceTimeBook!Arrive
  <1> DEFINE t == Len(orders) + 1
  <1>1. orders' = Append(orders, o)
    BY DEF InsertOrder
  <1>2. Inserted(o, t)
    BY <1>1, Appended
  <1> HIDE DEF t
  <1>3. Live' = Live \cup {t} /\ t \notin Live /\ \A u \in Live : u < t
        /\ orders'[u] = orders[u]
    BY <1>2 DEF Inserted, Live, Tickets
  <1>4. DOMAIN resting = Live /\ DOMAIN resting' = Live'
        /\ \A u \in Live : resting'[u] = resting[u]
    BY <1>3 DEF resting
  <1>5. QED
    BY <1>3, <1>4 DEF PriceTimeBook!Arrive

\* The pair that trades leaves the book, or what it has left does.
LEMMA TradesInBook ==
    ASSUME ~Closing, "external" \notin Modes, BookParts, CountInv, MatchTrades
    PROVE  PriceTimeBook!Trade
  <1> DEFINE b == Bid
             a == Ask
  <1>1. PICK price, q : /\ Trades(b, a, price, q) /\ DOMAIN orders' = DOMAIN orders
                        /\ Tickets' = Tickets
                        /\ q <= orders[b].leaves /\ q <= orders[a].leaves
                        /\ q = orders[b].leaves \/ q = orders[a].leaves
                        /\ b = Offered(list["buy"], orders) /\ b # NoTicket
                        /\ a = Offered(list["sell"], orders) /\ a # NoTicket
    BY PairIs
  <1> HIDE DEF b, a
  <1>2. StateInv /\ \A t \in Tickets : orders[t] \in Order /\ Count(orders[t])
    BY CountsAre DEF BookParts
  <1>3. /\ b \in Live /\ orders[b].side = "buy" /\ PriceTimeBook!First(b)
        /\ a \in Live /\ orders[a].side = "sell" /\ PriceTimeBook!First(a)
    BY <1>1, OfferedIsFirst DEF Sides
  <1>4. /\ b \in Tickets /\ a \in Tickets /\ b # a /\ q \in Nat
        /\ ~Filled(orders[b]) /\ ~Filled(orders[a])
    BY <1>1, <1>3 DEF Trades, Live
  <1>5. Executes(orders[b], orders'[b], price, q) /\ Executes(orders[a], orders'[a], price, q)
    BY <1>1, <1>2, TradesKeep
  <1>6. /\ orders[b].leaves > 0 /\ (Filled(orders'[b]) <=> orders[b].leaves = q)
        /\ orders'[b].leaves = orders[b].leaves - q
        /\ orders[a].leaves > 0 /\ (Filled(orders'[a]) <=> orders[a].leaves = q)
        /\ orders'[a].leaves = orders[a].leaves - q
    BY <1>1, <1>2, <1>4, <1>5, TradeCounts
  <1>7. /\ orders'[b].side = orders[b].side /\ orders'[b].price = orders[b].price
        /\ orders'[a].side = orders[a].side /\ orders'[a].price = orders[a].price
        /\ \A t \in Tickets \ {b, a} : orders'[t] = orders[t]
    BY <1>1, <1>5 DEF Executes, Trades
  <1>8. q \in 1 .. orders[b].leaves
    BY <1>1, <1>2, <1>4, <1>6, OrderIs
  <1>9. Live' = {u \in Live : u \notin {a, b} \/ orders[u].leaves # q}
    BY <1>1, <1>3, <1>4, <1>6, <1>7 DEF Live
  <1> DEFINE R == [t \in {u \in DOMAIN resting : u \notin {a, b} \/ resting[u].left # q} |->
                      IF t \in {a, b} THEN [resting[t] EXCEPT !.left = @ - q]
                                      ELSE resting[t]]
  <1>10. {u \in DOMAIN resting : u \notin {a, b} \/ resting[u].left # q} = Live'
    BY <1>9 DEF resting
  <1>11. ASSUME NEW t \in Live'
         PROVE  resting'[t] = IF t \in {a, b} THEN [resting[t] EXCEPT !.left = @ - q]
                                              ELSE resting[t]
    <2>1. t \in Live
      BY <1>9
    <2>2. resting[t] = [side |-> orders[t].side, price |-> orders[t].price,
                        left |-> orders[t].leaves]
          /\ resting'[t] = [side |-> orders'[t].side, price |-> orders'[t].price,
                            left |-> orders'[t].leaves]
      BY <2>1 DEF resting
    <2>3. CASE t \in {a, b}
      <3>1. [resting[t] EXCEPT !.left = @ - q]
              = [side |-> orders[t].side, price |-> orders[t].price,
                 left |-> orders[t].leaves - q]
        BY <2>2
      <3>2. QED
        BY <1>6, <1>7, <2>2, <2>3, <3>1
    <2>4. CASE t \notin {a, b}
      <3>1. orders'[t] = orders[t]
        BY <1>7, <2>1, <2>4 DEF Live
      <3>2. QED
        BY <2>2, <2>4, <3>1
    <2>5. QED
      BY <2>3, <2>4
  <1>12. resting' = [t \in Live' |-> resting'[t]]
    BY DEF resting
  <1>13. resting' = R
    BY <1>10, <1>11, <1>12
  <1>14. resting' = PriceTimeBook!Reduced({a, b}, q)
    BY <1>13 DEF PriceTimeBook!Reduced
  <1>15. /\ b \in DOMAIN resting /\ a \in DOMAIN resting
         /\ resting[b].side = "buy" /\ resting[a].side = "sell"
         /\ q \in 1 .. resting[b].left /\ q <= resting[a].left
    BY <1>1, <1>3, <1>8 DEF resting
  <1>16. QED
    BY <1>3, <1>14, <1>15 DEF PriceTimeBook!Trade

LEMMA BookStep ==
    ASSUME ~Closing, "external" \notin Modes, BookParts, CountInv, [Next]_vars
    PROVE  [PriceTimeBook!Next]_resting
  <1>1. StateInv /\ mode # "external"
    BY NotExternal DEF BookParts
  <1>2. CASE MatchTrades
    BY <1>2, TradesInBook DEF PriceTimeBook!Next
  <1>3. CASE AddBotTicket
    BY <1>1, <1>3, AddBotTicketIs, Arrives DEF PriceTimeBook!Next
  <1>4. CASE ProcessOrder
    BY <1>1, <1>4, ProcessOrderIs, Arrives DEF PriceTimeBook!Next
  <1>5. ASSUME orders' = orders PROVE resting' = resting
    BY <1>5, RestingStays
  <1>6. CASE MatchStops
    BY <1>5, <1>6, MatchStopsKeepsOrders DEF BookParts
  <1>7. CASE Quotes
    BY <1>5, <1>7 DEF Quotes, Quote
  <1>8. CASE (\E s \in Sides, k \in Kinds, p \in Prices, q \in Quantities :
                 OpenOrder(s, k, p, q))
             \/ RefuseOrder \/ UpdateStock \/ MatchNothing \/ UNCHANGED vars
    BY <1>5, <1>8 DEF OpenOrder, RefuseOrder, UpdateStock, MatchNothing, vars
  <1>9. \A t, p, q : ~CloseTicket(t, p, q) /\ ~Deal(t, p, q)
    BY <1>1 DEF CloseTicket, Deal
  <1>10. QED
    BY <1>2, <1>3, <1>4, <1>6, <1>7, <1>8, <1>9 DEF Next, FixThread, Deals, Match

\* While nobody closes and no batch comes from outside, the market is a
\* price-time book: an insertion is an arrival, an execution a trade of the two
\* orders that come first, and everything else leaves the book alone.
THEOREM MarketImplementsPriceTime ==
    ASSUME ~Closing, "external" \notin Modes
    PROVE  Spec => ImplementsPriceTime
  <1>1. Init => PriceTimeBook!Init
    <2> SUFFICES ASSUME Init PROVE resting = << >>
      BY DEF PriceTimeBook!Init
    <2>1. orders \in Seq(Order) /\ Len(orders) = 0
      BY EmptySeq DEF Init
    <2>2. Live = {}
      BY <2>1, LenProperties DEF Live, Tickets
    <2>3. QED
      BY <2>2 DEF resting
  <1>2. Init => CountInv
    <2> SUFFICES ASSUME Init PROVE CountInv
      OBVIOUS
    <2>1. orders \in Seq(Order) /\ Len(orders) = 0
      BY EmptySeq DEF Init
    <2>2. Tickets = {}
      BY <2>1, LenProperties DEF Tickets
    <2>3. QED
      BY <2>2 DEF CountInv
  <1>3. BookParts /\ CountInv /\ [Next]_vars => CountInv'
    BY CountNext
  <1>4. BookParts /\ CountInv /\ [Next]_vars => [PriceTimeBook!Next]_resting
    BY BookStep
  <1>5. QED
    BY <1>1, <1>2, <1>3, <1>4, BookInit, BookNext, PTL
       DEF Spec, ImplementsPriceTime, PriceTimeBook!Spec
=============================================================================
