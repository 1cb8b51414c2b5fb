----------------------------- MODULE MCTfCache -----------------------------
(***************************************************************************)
(* TfCache, with its history, for TLC.                                     *)
(***************************************************************************)
EXTENDS TfCacheHistory

MCSectors == 0 .. 3

=============================================================================
