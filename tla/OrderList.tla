------------------------------ MODULE OrderList ------------------------------
(****************************************************************************)
(* The order list of one side of a market: Engine<OrderPending> with its    *)
(* PointLinkList of price levels and the LinkEntry queues.                  *)
(*                                                                          *)
(* The list is circular.  `levels' is the circle read from _head along      *)
(* `next', each level the queue of tickets from _link_worker (the oldest)   *)
(* to _link_header, and `tail' the position of _tail in it.  `orders' maps  *)
(* a ticket to its order.  Operators only: Market holds the state.          *)
(****************************************************************************)
EXTENDS Integers, Sequences

Sides == {"buy", "sell"}

NoTicket == 0

\* OrderPending::isFilled, which is also LeItem::volatility.
Filled(o) == o.quantity = o.executed \/ o.open = 0

\* The comparison of the two engines: greater prices first among bids,
\* smaller ones among asks.
Better(o, p) == IF o.side = "buy" THEN o.price > p.price ELSE o.price < p.price

\* The constructor adds a second level before the one the list is born with.
EmptyList == [levels |-> << <<>>, <<>> >>, tail |-> 2]

\* Slips: the order is dropped filled or not; the worker never moves on.
LeaveAny(level, orders) == IF level # <<>> THEN Tail(level) ELSE level

LeaveNone(level, orders) == level

\* leave() drops the oldest order of the level if it is filled, and only that.
Leave(level, orders) ==
    IF level # <<>> /\ Filled(orders[Head(level)]) THEN Tail(level) ELSE level

Roll(list, orders) == [list EXCEPT !.levels[1] = Leave(@, orders)]

\* A slip: the tail's position is not carried round the circle.
RotateTail(list) ==
    [levels |-> Append(Tail(list.levels), Head(list.levels)),
     tail |-> list.tail - 1]

\* _head = _head->next: _tail stays the same node.
Rotate(list) ==
    [levels |-> Append(Tail(list.levels), Head(list.levels)),
     tail |-> IF list.tail = 1 THEN Len(list.levels) ELSE list.tail - 1]

\* spread(): what is left of the list, and the order it returns.
Spread(list, orders) ==
    LET rolled == Roll(list, orders)
    IN  IF rolled.levels[1] = <<>> THEN Rotate(rolled) ELSE rolled

Offered(list, orders) ==
    LET level == Leave(list.levels[1], orders)
    IN  IF level = <<>> THEN NoTicket ELSE Head(level)

\* A slip: an emptied level at the head is taken for an empty list.
IsEmptyHead(list, orders) ==
    /\ Len(list.levels[1]) <= 1
    /\ \A t \in {list.levels[1][i] : i \in DOMAIN list.levels[1]} :
          Filled(orders[t])

\* empty(): one filled order or none in the level at the head, the last one.
IsEmpty(list, orders) ==
    /\ list.tail = 1
    /\ Len(list.levels[1]) <= 1
    /\ \A t \in {list.levels[1][i] : i \in DOMAIN list.levels[1]} :
          Filled(orders[t])

\* A slip: the new level takes the place of the one behind it.
PutOverLevel(levels, i, level) ==
    SubSeq(levels, 1, i - 1) \o <<level>> \o SubSeq(levels, i + 1, Len(levels))

\* A new level in front of position i.
PutLevel(levels, i, level) ==
    SubSeq(levels, 1, i - 1) \o <<level>> \o SubSeq(levels, i, Len(levels))

\* internal_insert(): where the walk from the head stops for order t.
StopsAt(list, orders, t, i) ==
    \/ list.levels[i] = <<>>
    \/ i = list.tail
    \/ ~Better(orders[Head(list.levels[i])], orders[t])

InsertPlace(list, orders, t) ==
    CHOOSE i \in DOMAIN list.levels :
        /\ StopsAt(list, orders, t, i)
        /\ \A j \in 1 .. i - 1 : ~StopsAt(list, orders, t, j)

\* Slips: the younger order goes to the front of its level; the head is not
\* rolled.
InsertFront(list, orders, t) ==
    LET rolled == Roll(list, orders)
        i == InsertPlace(rolled, orders, t)
        level == rolled.levels[i]
        oldest == orders[Head(level)]
    IN  IF level # <<>> /\ Better(oldest, orders[t])
        THEN [levels |-> PutLevel(rolled.levels, i + 1, <<t>>), tail |-> i + 1]
        ELSE IF level # <<>> /\ Better(orders[t], oldest)
        THEN [levels |-> PutLevel(rolled.levels, i, <<t>>),
              tail |-> rolled.tail + 1]
        ELSE [rolled EXCEPT !.levels[i] = <<t>> \o @]

InsertUnrolled(list, orders, t) ==
    LET i == InsertPlace(list, orders, t)
        level == list.levels[i]
        oldest == orders[Head(level)]
    IN  IF level # <<>> /\ Better(oldest, orders[t])
        THEN [levels |-> PutLevel(list.levels, i + 1, <<t>>), tail |-> i + 1]
        ELSE IF level # <<>> /\ Better(orders[t], oldest)
        THEN [levels |-> PutLevel(list.levels, i, <<t>>),
              tail |-> list.tail + 1]
        ELSE [list EXCEPT !.levels[i] = Append(@, t)]

\* insert(): roll the head, then join a level, or open one after the tail or
\* in front of the place.  (The branch of internal_insert that moves the tail
\* to the head needs an empty head, where the walk has already stopped.)
Insert(list, orders, t) ==
    LET rolled == Roll(list, orders)
        i == InsertPlace(rolled, orders, t)
        level == rolled.levels[i]
        oldest == orders[Head(level)]
    IN  IF level # <<>> /\ Better(oldest, orders[t])
        THEN [levels |-> PutLevel(rolled.levels, i + 1, <<t>>), tail |-> i + 1]
        ELSE IF level # <<>> /\ Better(orders[t], oldest)
        THEN [levels |-> PutLevel(rolled.levels, i, <<t>>),
              tail |-> rolled.tail + 1]
        ELSE [rolled EXCEPT !.levels[i] = Append(@, t)]

\* The places of the list, <<level, position>>, and the ticket at one.
Places(list) ==
    UNION {{i} \X DOMAIN list.levels[i] : i \in DOMAIN list.levels}

At(list, p) == list.levels[p[1]][p[2]]

Before(p, q) == p[1] < q[1] \/ (p[1] = q[1] /\ p[2] < q[2])
=============================================================================
