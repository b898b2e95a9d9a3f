---------------------------- MODULE MCProcessor ----------------------------
(***************************************************************************)
(* Small instances of Processor for TLC. Drainers are interchangeable, and *)
(* so are the messages that are not Poison.                                *)
(***************************************************************************)
EXTENDS Processor, TLC

Symmetry == Permutations(Drainers) \cup Permutations(Msgs \ Poisons)
=============================================================================
