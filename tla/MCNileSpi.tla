----------------------------- MODULE MCNileSpi -----------------------------
(***************************************************************************)
(* Instances of NileSpi for TLC: two devices (one of them DEV_NONE), a few *)
(* driver calls in a row, and the sets of calls a run lets the client make.*)
(***************************************************************************)
EXTENDS NileSpi

MCDevices == { "NONE", "TF" }

MCTransferOps == AllOps \ { "set_speed" }

MCReceiveOps == { "rx_async", "rx_sync_block", "xch_block" }

=============================================================================
