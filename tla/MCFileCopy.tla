----------------------------- MODULE MCFileCopy -----------------------------
(* FileCopy with archives of a few entries.                                 *)
EXTENDS FileCopy
=============================================================================
