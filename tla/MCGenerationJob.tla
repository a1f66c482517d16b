---------------------------- MODULE MCGenerationJob ----------------------------
(* Instances of GenerationJob for TLC. *)
EXTENDS GenerationJob, TLC

Interchangeable == Permutations(Tasks) \union Permutations(Handlers)
=============================================================================
