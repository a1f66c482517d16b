---------------------------- MODULE MCDurableQueue ----------------------------
(* Instances of DurableQueue for TLC. *)
EXTENDS DurableQueue, TLC

Interchangeable == Permutations(Jobs) \union Permutations(Workers)
=============================================================================
