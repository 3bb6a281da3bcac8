----------------------------- MODULE MCExchange -----------------------------
(* The ledger and the consumer of the exchange's process, for TLC: the        *)
(* consumer asks the ledger for nothing that depends on the ledger's state,   *)
(* and each behaviour moves one of them.                                     *)
EXTENDS Broker, Feed

\* Two of one day, and one of the next.
Three == {[ymd |-> 1, extype |-> 1], [ymd |-> 1, extype |-> 2],
          [ymd |-> 2, extype |-> 1]}

VARIABLE part

exchangeVars == <<part, vars, feedVars>>

ExchangeInit ==
    /\ part \in {"broker", "feed"}
    /\ Init /\ FeedInit
    \* one start suffices for the part that does not move
    /\ part = "broker" => consumer.source = "kafka" /\ fabr.match_trigger

ExchangeNext ==
    /\ UNCHANGED part
    /\ \/ part = "broker" /\ Next /\ UNCHANGED feedVars
       \/ part = "feed" /\ FeedNext /\ UNCHANGED vars

ExchangeSpec == ExchangeInit /\ [][ExchangeNext]_exchangeVars
=============================================================================
