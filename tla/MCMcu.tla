-------------------------------- MODULE MCMcu --------------------------------
(***************************************************************************)
(* TLC instance of Mcu.                                                    *)
(***************************************************************************)
EXTENDS Mcu

\* No bit, the lowest, and the sign.
MCFlags == { 0, 1, -16 }

=============================================================================
