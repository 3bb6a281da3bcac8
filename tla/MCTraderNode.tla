---------------------------- MODULE MCTraderNode ----------------------------
(* What a trader node's FIX thread and script threads share, for TLC: orders,  *)
(* the data of the user's own and what scripts keep have no state in common,   *)
(* and each behaviour moves one of them.                                      *)
EXTENDS TraderNode, CustomData, Script, TLC

VARIABLE part

nodeVars == <<part, vars, customVars, scriptVars>>

\* Positions that ask for more than there is, and one whose number is not the next.
Calls == {<<[num |-> 0, pct |-> 80], [num |-> n, pct |-> 40]>> : n \in {1, 2}}

NodeInit ==
    /\ part \in {"orders", "custom", "script"}
    /\ Init /\ CustomInit /\ ScriptInit
    \* one start suffices for the parts that do not move
    /\ part # "orders" => mode.split /\ mode.day
    /\ part # "script" => plan[2].num = 1

NodeNext ==
    /\ UNCHANGED part
    /\ \/ part = "orders" /\ Next /\ UNCHANGED <<customVars, scriptVars>>
       \/ part = "custom" /\ CustomNext /\ UNCHANGED <<vars, scriptVars>>
       \/ part = "script" /\ ScriptNext /\ UNCHANGED <<vars, customVars>>

NodeSpec == NodeInit /\ [][NodeNext]_nodeVars

\* No script thread differs from another.
Interchangeable == Permutations(Threads) \cup Permutations(Pool)
=============================================================================
