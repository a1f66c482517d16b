----------------------------- MODULE MCTenderParse -----------------------------
(* Instances of TenderParse for TLC. *)
EXTENDS TenderParse
=============================================================================
