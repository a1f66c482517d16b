--------------------------- MODULE MCExportLifecycle ---------------------------
(* Instances of ExportLifecycle for TLC. *)
EXTENDS ExportLifecycle
=============================================================================
