--------------------------- MODULE MCReadPipeline ---------------------------
(***************************************************************************)
(* Instance of ReadPipeline for TLC: all three routines.                   *)
(***************************************************************************)
EXTENDS ReadPipeline

MCRoutines == { "movsw", "lodsw", "gdma" }

=============================================================================
