------------------------------- MODULE SpiLink -------------------------------
(***************************************************************************)
(* The SPI driver as the routines for the MCU see it: CNT, the two pairs   *)
(* of buffers and the transfer in flight, in outline (NileSpi has the      *)
(* details).  The operators are conjuncts of the actions of McuNative,     *)
(* McuBoot and Mcu, which share these variables.                           *)
(***************************************************************************)
EXTENDS Integers, Sequences

CONSTANT Window         \* units of data that fit in a buffer (512 bytes)

ASSUME WindowAssumption == Window \in Nat \ { 0 }

VARIABLES
    idx,        \* CNT: the buffer the CPU sees
    device,     \* CNT: the device
    tx, rx,     \* what the two transmit and receive buffers hold
    flight      \* the transfer in flight

link == << idx, device, tx, rx, flight >>

Devices == { "none", "TF", "MCU" }
Modes   == { "none", "write", "read", "exchange", "wait_read" }

NoFlight == [ mode |-> "none", dev |-> "none", buf |-> 0, n |-> 0,
              stop |-> FALSE ]
Busy == flight.mode # "none"

\* What is read when the MCU sends nothing, and what no transfer put there.
Filler == << "filler" >>

LinkInit ==
    /\ idx = 0
    /\ device = "none"
    /\ tx = [ b \in { 0, 1 } |-> Filler ]
    /\ rx = [ b \in { 0, 1 } |-> << Filler >> ]
    /\ flight = NoFlight

\* outportw(IO_NILE_SPI_CNT, NILE_SPI_CLOCK_CART | dev)
SetControl(dev) ==
    /\ idx' = 0
    /\ device' = dev

\* The controller works on the buffer that is not visible.  What is sent is
\* written to the visible one, which START then exchanges.
StartSending(mode, dev) ==
    /\ ~Busy
    /\ idx' = 1 - idx
    /\ device' = dev
    /\ flight' = [ mode |-> mode, dev |-> dev, buf |-> idx, n |-> 1,
                   stop |-> FALSE ]

\* The length field has nine bits; its tenth is taken for a bit of the mode that
\* is set already.
Length(n) == ((n - 1) % Window) + 1

StartReading(mode, n) ==
    /\ ~Busy
    /\ flight' = [ mode |-> mode, dev |-> device, buf |-> 1 - idx,
                   n |-> Length(n), stop |-> FALSE ]

Flip == idx' = 1 - idx

\* What the first n units of a stream are when it is read, with or without that
\* many in it.
Units(s, n) == [ i \in 1 .. n |-> IF i <= Len(s) THEN s[i] ELSE Filler ]
After(s, n) == SubSeq(s, n + 1, Len(s))

\* A transfer ends: the buffer it worked on holds what was received.
Ends(received) ==
    /\ rx' = [ rx EXCEPT ![flight.buf] = received ]
    /\ flight' = NoFlight
    /\ UNCHANGED << idx, device, tx >>

\* What earlier calls left in the buffers is of no use to anybody, except what
\* is still being sent.
Forgotten(buffers, junk) ==
    [ b \in { 0, 1 } |-> IF Busy /\ flight.buf = b THEN buffers[b] ELSE junk ]

\* nile_spi_abort clears START.
Stopping == flight' = [ flight EXCEPT !.stop = TRUE ]

=============================================================================
