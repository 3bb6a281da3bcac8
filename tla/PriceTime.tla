------------------------------ MODULE PriceTime ------------------------------
(****************************************************************************)
(* What a price-time book promises, without lists or levels: resting orders *)
(* trade only when each is the best of its side, the older one first at the *)
(* same price; both sides of a trade execute the same quantity.             *)
(****************************************************************************)
EXTENDS Integers

VARIABLE resting    \* ticket -> [side, price, left]; a later ticket is younger

BetterPrice(o, p) ==
    IF o.side = "buy" THEN o.price > p.price ELSE o.price < p.price

\* t comes first on its side.
First(t) ==
    \A u \in DOMAIN resting \ {t} :
        resting[u].side = resting[t].side =>
            \/ BetterPrice(resting[t], resting[u])
            \/ resting[t].price = resting[u].price /\ t < u

\* The book after the orders of ts have executed q each.
Reduced(ts, q) ==
    [t \in {u \in DOMAIN resting : u \notin ts \/ resting[u].left # q} |->
        IF t \in ts THEN [resting[t] EXCEPT !.left = @ - q] ELSE resting[t]]

Init == resting = << >>

Arrive ==
    \E t \in DOMAIN resting' \ DOMAIN resting :
        /\ DOMAIN resting' = DOMAIN resting \cup {t}
        /\ \A u \in DOMAIN resting : u < t /\ resting'[u] = resting[u]

Trade ==
    \E b, a \in DOMAIN resting :
        /\ resting[b].side = "buy" /\ resting[a].side = "sell"
        /\ First(b) /\ First(a)
        /\ \E q \in 1 .. resting[b].left :
              q <= resting[a].left /\ resting' = Reduced({a, b}, q)

Next == Arrive \/ Trade

Spec == Init /\ [][Next]_resting
=============================================================================
