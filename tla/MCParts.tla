------------------------------ MODULE MCParts -------------------------------
(* Parts of a process that do not touch each other's state, for TLC:        *)
(* each behaviour moves one of them.                                        *)
EXTENDS Storage, SilkPermit, Arrays, BigNumber, Launch, Database

VARIABLE part

vars == <<part, storageVars, permitVars, arraysVars, bigVars, launchVars, databaseVars>>

Init ==
    /\ part \in {"storage", "permit", "arrays", "numbers", "launch", "database"}
    /\ StorageInit /\ PermitInit /\ ArraysInit /\ BigNumberInit /\ LaunchInit
    /\ DatabaseInit
    /\ part # "permit" => major = "row"

Others(name) ==
    /\ part = name /\ UNCHANGED part
    /\ name # "storage" => UNCHANGED storageVars
    /\ name # "permit" => UNCHANGED permitVars
    /\ name # "arrays" => UNCHANGED arraysVars
    /\ name # "numbers" => UNCHANGED bigVars
    /\ name # "launch" => UNCHANGED launchVars
    /\ name # "database" => UNCHANGED databaseVars

Next ==
    \/ Others("storage") /\ StorageNext
    \/ Others("permit") /\ PermitNext
    \/ Others("arrays") /\ ArraysNext
    \/ Others("numbers") /\ BigNumberNext
    \/ Others("launch") /\ LaunchNext
    \/ Others("database") /\ DatabaseNext

Spec == Init /\ [][Next]_vars /\ LaunchFair

(* What a script or a feed puts away is what it gets back: the arrays sum    *)
(* their oldest cells and keep their size (RingLoop.cpp), and a BigNumber    *)
(* holds the value its operations say at the scale it was made with          *)
(* (BigNumber.cpp).                                                          *)
ValuesInv == ArraysInv /\ NumbersInv
=============================================================================
