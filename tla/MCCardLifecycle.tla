-------------------------- MODULE MCCardLifecycle --------------------------
(***************************************************************************)
(* Instance of CardLifecycle and CardGeometry for TLC.                     *)
(***************************************************************************)
EXTENDS CardGeometry

=============================================================================
