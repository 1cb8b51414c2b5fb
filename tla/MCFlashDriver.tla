--------------------------- MODULE MCFlashDriver ---------------------------
(***************************************************************************)
(* Instances of FlashDriver for TLC.                                       *)
(***************************************************************************)
EXTENDS FlashDriver

MCEarlyExits == { "ask" }

=============================================================================
