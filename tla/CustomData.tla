----------------------------- MODULE CustomData ------------------------------
(****************************************************************************)
(* Data of the user's own that the stream carries to the scripts: groups of  *)
(* values under an index of a code.  The exchange keeps them and sends them   *)
(* to its sessions, which keep them in the same way (PushGCM); scripts of a   *)
(* node read them from other threads.  The store takes its mutex only to open *)
(* a group.                                                                  *)
(*                                                                          *)
(* One code.  A value is the number of the group, of its index, it came with. *)
(****************************************************************************)
EXTENDS Integers, Sequences, FiniteSets

CONSTANTS Indexes,       \* of groups
          GroupSizes,    \* values that a message may bring
          MaxGroups      \* bound: messages

ASSUME CustomAssumption == GroupSizes \subseteq Nat \ {0} /\ MaxGroups \in Nat

VARIABLES messages,  \* sent by the exchange
          sent,    \* BidResponses on their way
          store,     \* _datas of the node: index -> number, values
          came,      \* history: of each index, how many groups, and of one size?
          writer,    \* the node's FIX thread in PushGCM
          reader     \* a script: CustomDataNumber, CustomDataGet..., CustomDataNumber

customVars == <<messages, sent, store, came, writer, reader>>

NotWriting == [at |-> "idle", idx |-> 0, size |-> 0, pos |-> 0]
NotReading == [at |-> "idle", idx |-> 0, number |-> 0, from |-> 0,
               values |-> << >>, again |-> 0]

CustomInit ==
    /\ messages = 0 /\ sent = << >> /\ store = [i \in {} |-> NotWriting]
    /\ came = [i \in Indexes |-> [groups |-> 0, even |-> TRUE]]
    /\ writer = NotWriting /\ reader = NotReading

Size(i) == Cardinality(DOMAIN store[i].values)

\* A BidResponse to the session of the node; one that is not logged on misses it.
CustemRequest(m) == sent' \in {sent, Append(sent, m)}

\* CustomMsg(): to every session.
CustomMsg(i, size) ==
    /\ messages < MaxGroups /\ messages' = messages + 1
    /\ CustemRequest([idx |-> i, size |-> size])
    /\ UNCHANGED <<store, came, writer, reader>>

\* init(): a new index starts at 0.  The first index of the code is inserted with the
\* code, found by the test that follows, and counted.
New(size) ==
    [number |-> IF store = << >> THEN 1 ELSE 0, values |-> [p \in 0..size - 1 |-> 0]]

\* A slip: what was there is not counted.
OpenedUncounted(i, size) ==
    [x \in DOMAIN store \cup {i} |->
        IF x \in DOMAIN store THEN store[x] ELSE New(size)]

Opened(i, size) ==
    [x \in DOMAIN store \cup {i} |->
        IF x \notin DOMAIN store THEN New(size)
        ELSE IF x = i THEN [store[x] EXCEPT !.number = @ + 1] ELSE store[x]]

\* PushGCM, for a message of its own size.
OpenGroup(m) ==
    /\ store' = Opened(m.idx, m.size)
    /\ writer' = [at |-> "push", idx |-> m.idx, size |-> m.size, pos |-> 0]
    /\ came' = [came EXCEPT
          ![m.idx] = [groups |-> @.groups + 1,
                      even |-> @.even /\ (m.idx \in DOMAIN store
                                             => m.size = Size(m.idx))]]

\* The node's FIX thread has the next BidResponse.
BidResponse ==
    /\ writer.at = "idle" /\ sent # << >> /\ sent' = Tail(sent)
    /\ OpenGroup(Head(sent))
    /\ UNCHANGED <<messages, reader>>

\* push_back(): the place is taken modulo the size that the first group had.
PushBack ==
    /\ writer.at = "push"
    /\ store' = [store EXCEPT
          ![writer.idx].values[writer.pos % Size(writer.idx)] =
              came[writer.idx].groups]
    /\ writer' = IF writer.pos + 1 = writer.size THEN NotWriting
                 ELSE [writer EXCEPT !.pos = @ + 1]
    /\ UNCHANGED <<messages, sent, came, reader>>

\* A script of the node reads the number, each value, and the number again.
ReadNumber(i) ==
    /\ reader.at = "idle" /\ i \in DOMAIN store
    /\ reader' = [NotReading EXCEPT !.at = "get", !.idx = i,
                     !.number = store[i].number, !.from = came[i].groups]
    /\ UNCHANGED <<messages, sent, store, came, writer>>

Get ==
    /\ reader.at = "get"
    /\ LET values == store[reader.idx].values
           p == Len(reader.values)
       IN  reader' = IF p \in DOMAIN values
                     THEN [reader EXCEPT !.values = Append(@, values[p])]
                     ELSE [reader EXCEPT !.at = "done",
                                         !.again = store[reader.idx].number]
    /\ UNCHANGED <<messages, sent, store, came, writer>>

Done ==
    /\ reader.at = "done" /\ reader' = NotReading
    /\ UNCHANGED <<messages, sent, store, came, writer>>

CustomNext ==
    \/ \E i \in Indexes, size \in GroupSizes : CustomMsg(i, size)
    \/ BidResponse \/ PushBack
    \/ \E i \in Indexes : ReadNumber(i)
    \/ Get \/ Done

CustomSpec == CustomInit /\ [][CustomNext]_customVars

-----------------------------------------------------------------------------
(* Properties. *)

\* Types.
CustomTypeOK ==
    /\ writer.pos \in Nat /\ reader.number \in Nat
    /\ \A i \in DOMAIN store : \A p \in DOMAIN store[i].values :
          store[i].values[p] \in 0..came[i].groups

\* A script that finds the number unchanged has read values of the group it counts or
\* of the one before it, never older or newer ones.  Where groups of one index differ
\* in size, places keep what they had.
ReadsAreRecent ==
    reader.at = "done" /\ reader.again = reader.number /\ came[reader.idx].even =>
        \A p \in DOMAIN reader.values :
            reader.values[p] \in {reader.from - 1, reader.from}

\* What a script makes of a group.
CustomInv == CustomTypeOK /\ ReadsAreRecent
=============================================================================
