------------------------------- MODULE Recent -------------------------------
(****************************************************************************)
(* What a ring of rows promises: it keeps the rows that were added, in their *)
(* order, and gives none up but the oldest: because it was told to, or, where *)
(* that is allowed (overlap), to make room.  The newest is never given up.   *)
(****************************************************************************)
EXTENDS Integers, Sequences

CONSTANTS Contents,     \* what a row may hold
          Capacity

VARIABLES kept,         \* the rows, the oldest first
          overlap       \* whether a full ring makes room

RecentInit == kept = << >> /\ overlap = FALSE

Full == Len(kept) = Capacity

Add(row) ==
    /\ Full => overlap
    /\ kept' = IF Full THEN Append(Tail(kept), row) ELSE Append(kept, row)
    /\ UNCHANGED overlap

Change(n, row) ==
    /\ n \in DOMAIN kept /\ kept' = [kept EXCEPT ![n] = row]
    /\ UNCHANGED overlap

GiveUp(n) ==
    /\ n < Len(kept) /\ kept' = SubSeq(kept, n + 1, Len(kept))
    /\ UNCHANGED overlap

Allow(on) == overlap' = on /\ UNCHANGED kept

RecentNext ==
    \/ \E on \in BOOLEAN : Allow(on)
    \/ \E n \in 1..Capacity : GiveUp(n)
    \/ \E row \in Contents : Add(row) \/ \E n \in 1..Capacity : Change(n, row)

RecentSpec == RecentInit /\ [][RecentNext]_<<kept, overlap>>
=============================================================================
