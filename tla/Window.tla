------------------------------- MODULE Window -------------------------------
(****************************************************************************)
(* What an array of the scripts promises: a window over the last values that *)
(* were added, the oldest first.  Padding a window that is partly filled, or *)
(* changing its length, spoils the order (ordered).                          *)
(****************************************************************************)
EXTENDS Integers, Sequences

CONSTANTS Values, Lengths

VARIABLES window, length, ordered

WindowInit == window = << >> /\ length = 0 /\ ordered = TRUE

Declare(n) ==
    /\ length' = n /\ UNCHANGED window
    /\ ordered' = (ordered /\ (window = << >> \/ n = length))

\* Where the order is spoilt, only the length is promised: the value may be lost.
Add(v) ==
    /\ length > 0 /\ UNCHANGED <<length, ordered>>
    /\ LET all == Append(window, v)
           kept == IF Len(all) <= length THEN all ELSE Tail(all)
       IN  IF ordered THEN window' = kept
           ELSE Len(window') = IF Len(window) < length THEN Len(all) ELSE Len(window)

Put(i, v) ==
    /\ i \in DOMAIN window /\ window' = [window EXCEPT ![i] = v]
    /\ UNCHANGED <<length, ordered>>

Fill(v) ==
    /\ window' = [i \in DOMAIN window |-> v] /\ UNCHANGED <<length, ordered>>

Pad ==
    /\ Len(window') = length /\ UNCHANGED length
    /\ ordered => \A i \in DOMAIN window' :
                     window'[i] = IF i \in DOMAIN window THEN window[i] ELSE 0
    /\ ordered' = (ordered /\ Len(window) \in {0, length})

WindowNext ==
    \/ \E n \in Lengths : Declare(n)
    \/ \E v \in Values : Add(v) \/ Fill(v) \/ \E i \in DOMAIN window : Put(i, v)
    \/ Pad

WindowSpec == WindowInit /\ [][WindowNext]_<<window, length, ordered>>
=============================================================================
