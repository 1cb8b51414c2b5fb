------------------------------ MODULE MCDiskIO ------------------------------
(***************************************************************************)
(* Instances of DiskIO for TLC.                                            *)
(***************************************************************************)
EXTENDS DiskIO

MCSectors == 1 .. 3

\* A card whose first sector is among those read.
MCBootSectors == 0 .. 2

MCColor == { TRUE }
MCMono  == { FALSE }

MCNoFaults   == { }
MCDataFault  == { "data" }

=============================================================================
