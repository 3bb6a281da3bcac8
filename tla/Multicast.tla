------------------------------ MODULE Multicast ------------------------------
(***************************************************************************)
(* What the quote bus promises its readers, without ring, trigger or       *)
(* threads: one writer publishes the records 0, 1, 2, ... and every reader *)
(* takes them one after the other.  A reader may be refused the record it   *)
(* asks for (the bus never makes the writer wait) and goes on to the next. *)
(* One that lags by more than Window may even get another or a torn record *)
(* in its place; one that keeps up never does.  The writer closes the bus  *)
(* only when nobody is behind.                                             *)
(***************************************************************************)
EXTENDS Naturals, Sequences

CONSTANTS Readers,   \* the threads that follow the writer
          Window,    \* a lag the bus tolerates without loss
          None,      \* a torn record
          Refused    \* no record

VARIABLES sent,      \* number of records published so far
          got,       \* got[r]: what reader r has taken, in order
          open       \* FALSE once the writer has closed the bus

busVars == <<sent, got, open>>

Init == /\ sent = 0
        /\ got = [r \in Readers |-> <<>>]
        /\ open = TRUE

Publish == /\ open
           /\ sent' = sent + 1
           /\ UNCHANGED <<got, open>>

\* The next record of reader r is the one numbered Len(got[r]).
Lag(r) == sent - Len(got[r])

Take(r) ==
    /\ Len(got[r]) < sent
    /\ \E v \in (0 .. sent) \cup {None, Refused} :
          /\ Lag(r) <= Window => v \in {Len(got[r]), Refused}
          /\ got' = [got EXCEPT ![r] = Append(@, v)]
    /\ UNCHANGED <<sent, open>>

Close == /\ open
         /\ \A r \in Readers : Lag(r) = 0
         /\ open' = FALSE
         /\ UNCHANGED <<sent, got>>

Next == Publish \/ Close \/ \E r \in Readers : Take(r)

Spec == Init /\ [][Next]_busVars
=============================================================================
