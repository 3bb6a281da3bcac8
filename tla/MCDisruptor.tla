----------------------------- MODULE MCDisruptor -----------------------------
(* The quote bus on small rings, for TLC.                                  *)
EXTENDS Disruptor, TLC

\* The slaves of one master are interchangeable.
SlaveSymmetry == Permutations(Slaves)
=============================================================================
