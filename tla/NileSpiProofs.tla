---------------------------- MODULE NileSpiProofs ----------------------------
EXTENDS NileSpi, SequenceTheorems, TLAPS

(***************************************************************************)
(* Proofs about NileSpi, for every number of calls, every set of devices   *)
(* and every build.  The invariant SpiInv is inductive: each of its        *)
(* conjuncts is preserved by every step, given the ones before it.  The    *)
(* properties follow from it.  Each of the step lemmas takes the actions   *)
(* of one routine together.                                                *)
(***************************************************************************)
\* The disjuncts of ClientCall are calls of Call with arguments of its types.
LEMMA SomeCall ==
  ASSUME SpiAssumption, ClientCall
  PROVE  \E op \in Ops, dev \in Devices, clock \in BOOLEAN, speed \in Speeds,
            long \in BOOLEAN : Call(op, dev, clock, speed, long)
<1> USE DEF SpiAssumption
<1>0. "384KHZ" \in Speeds /\ DevNone \in Devices /\ FALSE \in BOOLEAN
  BY DEF Speeds
<1>1. CASE \E op \in Ops \ (Lengthy \cup { "set_control", "set_device",
                                       "set_speed" }) :
           Call(op, DevNone, FALSE, "384KHZ", FALSE)
  BY <1>0, <1>1
<1>2. CASE \E op \in Ops \cap Lengthy, long \in BOOLEAN :
           Call(op, DevNone, FALSE, "384KHZ", long)
  BY <1>0, <1>2
<1>3. CASE \E dev \in Devices, clock \in BOOLEAN :
           Call("set_control", dev, clock, "384KHZ", FALSE)
  BY <1>0, <1>3 DEF Call
<1>4. CASE \E dev \in Devices : Call("set_device", dev, FALSE, "384KHZ", FALSE)
  BY <1>0, <1>4 DEF Call
<1>5. CASE \E speed \in Speeds : Call("set_speed", DevNone, FALSE, speed, FALSE)
  BY <1>0, <1>5 DEF Call
<1> QED BY <1>1, <1>2, <1>3, <1>4, <1>5 DEF ClientCall

\* The write of CNT that sets START leaves CNT and the transfer well typed.
LEMMA StartType ==
  ASSUME TypeOK, NEW mode \in Modes, NEW idx \in Buffers,
         StartTransfer(mode, idx)
  PROVE  /\ cnt' \in [ start : BOOLEAN, idx : Buffers, dev : Devices,
                       clock : BOOLEAN, mode : Modes, len8 : BOOLEAN ]
         /\ xfer' \in [ id : Blocks, dev : Devices, mode : Modes,
                        buf : Buffers, stop : BOOLEAN ]
<1> DEFINE len8 == call.op \in Lengthy /\ call.long
<1>1. len8 \in BOOLEAN
  OBVIOUS
<1>2. cnt' = [ cnt EXCEPT !.start = TRUE, !.idx = idx, !.mode = mode,
                          !.len8 = len8 ]
  BY DEF StartTransfer
<1> HIDE DEF len8
<1>3. cnt' \in [ start : BOOLEAN, idx : Buffers, dev : Devices,
                 clock : BOOLEAN, mode : Modes, len8 : BOOLEAN ]
  BY <1>1, <1>2 DEF TypeOK
<1>4. xfer' \in [ id : Blocks, dev : Devices, mode : Modes, buf : Buffers,
                  stop : BOOLEAN ]
  BY DEF StartTransfer, TypeOK, Buffers
<1> QED BY <1>3, <1>4, Zenon

\* The argument of nile_spi_set_control replaces the whole word.
LEMMA ControlType ==
  ASSUME TypeOK, SetControl
  PROVE  cnt' \in [ start : BOOLEAN, idx : Buffers, dev : Devices,
                    clock : BOOLEAN, mode : Modes, len8 : BOOLEAN ]
<1>1. call.clock \in BOOLEAN /\ call.dev \in Devices
  BY DEF TypeOK
<1>2. "WRITE" \in Modes
  BY DEF Modes
<1>3. 0 \in Buffers
  BY DEF Buffers
<1> QED BY <1>1, <1>2, <1>3 DEF TypeOK, SetControl

\* The last element of a sequence of known length.
LEMMA LastElement ==
  ASSUME NEW w, NEW n, NEW e, Len(w) = n, w[n] = e
  PROVE  w[Len(w)] = e
  OBVIOUS

\* The write of CNT that sets START, in the terms the invariants use.
LEMMA StartEffect ==
  ASSUME TypeOK, NEW mode \in Modes, NEW idx \in Buffers,
         StartTransfer(mode, idx)
  PROVE  /\ cnt'.start
         /\ cnt'.idx = idx
         /\ cnt'.dev = cnt.dev
         /\ cnt'.mode = mode
         /\ xfer'.id = calls
         /\ xfer'.dev = cnt.dev
         /\ xfer'.mode = mode
         /\ xfer'.buf = 1 - idx
         /\ ~xfer'.stop
  BY DEF TypeOK, StartTransfer, Buffers

\* Every step keeps every variable within its type.
LEMMA TypeStep ==
  ASSUME SpiAssumption, TypeOK, [Next]_vars
  PROVE  TypeOK'
<1> USE DEF SpiAssumption, TypeOK, Blocks, Buffers, NoCopy, bankVars, callVars,
            hwVars
<1>1. CASE HwComplete
  <2> USE <1>1 DEF HwComplete, Busy
  <2>1. cnt' \in [ start : BOOLEAN, idx : Buffers, dev : Devices,
                   clock : BOOLEAN, mode : Modes, len8 : BOOLEAN ]
    OBVIOUS
  <2>2. rx' \in [ Buffers -> Blocks ]
    OBVIOUS
  <2>3. tx[xfer.buf] \in Blocks /\ xfer.dev \in Devices
    OBVIOUS
  <2>4. wire' \in Seq(Devices \X Blocks)
    BY <2>3
  <2> QED BY <2>1, <2>2, <2>4
<1>2. CASE HwStop
  <2> USE <1>2 DEF HwStop, Busy
  <2>1. cnt' \in [ start : BOOLEAN, idx : Buffers, dev : Devices,
                   clock : BOOLEAN, mode : Modes, len8 : BOOLEAN ]
    OBVIOUS
  <2>2. rx' \in [ Buffers -> Blocks ]
    OBVIOUS
  <2> QED BY <2>1, <2>2
<1>3. CASE ClientCall
  <2>1. PICK op \in Ops, dev \in Devices, clock \in BOOLEAN,
             speed \in Speeds, long \in BOOLEAN :
                Call(op, dev, clock, speed, long)
    BY <1>3, SomeCall
  <2> USE <2>1 DEF Call
  <2>2. op \in AllOps
    OBVIOUS
  <2>3. pc' \in PCs
    BY <2>2 DEF EntryPoint, PCs, AllOps
  <2>4. call' \in [ op : AllOps, dev : Devices, clock : BOOLEAN,
                    speed : Speeds, long : BOOLEAN ]
    BY <2>2
  <2> QED BY <2>3, <2>4
<1>4. CASE ReadyRoutine
  <2>1. CASE WaitReadyReturns
    <3> USE <2>1 DEF WaitReadyReturns, Return, Skip, Busy
    <3>1. pc' \in PCs
      BY DEF PCs
    <3>2. ret' \in BOOLEAN
      BY DEF CntHighByteSet
    <3> QED BY <3>1, <3>2
  <2> QED BY <1>4, <2>1 DEF ReadyRoutine
<1>5. CASE AbortRoutine
  <2>1. CASE AbortIdle
    <3> USE <2>1 DEF AbortIdle, Return, Skip, Busy
    <3>1. pc' \in PCs
      BY DEF PCs
    <3>2. ret' \in BOOLEAN
      BY DEF CntHighByteSet
    <3> QED BY <3>1, <3>2
  <2>2. CASE AbortBusy
    <3> USE <2>2 DEF AbortBusy, Goto
    <3>1. xfer' \in [ id : Blocks, dev : Devices, mode : Modes, buf : Buffers,
                    stop : BOOLEAN ]
      OBVIOUS
    <3>2. pc' \in PCs
      BY DEF PCs
    <3> QED BY <3>1, <3>2
  <2>3. CASE AbortReturns
    <3> USE <2>3 DEF AbortReturns, Return, Skip, Busy
    <3>1. pc' \in PCs
      BY DEF PCs
    <3>2. ret' \in BOOLEAN
      BY DEF CntHighByteSet
    <3> QED BY <3>1, <3>2
  <2> QED BY <1>5, <2>1, <2>2, <2>3 DEF AbortRoutine
<1>6. CASE TxRoutine
  <2>1. CASE TxOpen
    BY <2>1 DEF TxOpen, OpenTxWindow, Goto, PCs
  <2>2. CASE TxCopy
    BY <2>2 DEF TxCopy, CopyToTx, Goto, PCs
  <2>3. CASE TxWait
    <3> USE <2>3 DEF TxWait, WaitSucceeds, WaitTimesOut, Goto, Return, Skip, Busy
    <3>1. pc' \in PCs
      BY DEF PCs
    <3>2. ret' \in BOOLEAN
      BY DEF CntHighByteSet
    <3> QED BY <3>1, <3>2
  <2>4. CASE TxStart
    <3> USE <2>4 DEF TxStart
    <3>1. "WRITE" \in Modes /\ (1 - cnt.idx) \in Buffers
      BY DEF Modes
    <3>2. pc' \in PCs
      BY DEF Goto, PCs
    <3> QED BY <3>1, <3>2, StartType
  <2>5. CASE TxClose
    <3> USE <2>5 DEF TxClose, CloseTxWindow
    <3>1. bank' \in [ rom1 : { "APP", "SPI_RX" }, ram : { "APP", "SPI_TX" },
                    flash : { "APP", "SRAM" } ]
      OBVIOUS
    <3>2. pc' \in PCs
      BY DEF PCs
    <3> QED BY <3>1, <3>2
  <2>6. CASE TxSyncReturns
    <3> USE <2>6 DEF TxSyncReturns, Return, Skip, Busy
    <3>1. pc' \in PCs
      BY DEF PCs
    <3>2. ret' \in BOOLEAN
      BY DEF CntHighByteSet
    <3> QED BY <3>1, <3>2
  <2> QED BY <1>6, <2>1, <2>2, <2>3, <2>4, <2>5, <2>6 DEF TxRoutine
<1>7. CASE RxRoutine
  <2>1. CASE RxWait1
    <3> USE <2>1 DEF RxWait1, WaitSucceeds, WaitTimesOut, Goto,
              Return, Skip, Busy
    <3>1. pc' \in PCs
      BY DEF PCs
    <3>2. ret' \in BOOLEAN
      BY DEF CntHighByteSet
    <3> QED BY <3>1, <3>2
  <2>2. CASE RxStart
    <3> USE <2>2 DEF RxStart
    <3>1. { "READ", "EXCH" } \subseteq Modes
          /\ { cnt.idx, 1 - cnt.idx } \subseteq Buffers
      BY DEF Modes
    <3>2. /\ cnt' \in [ start : BOOLEAN, idx : Buffers, dev : Devices,
                        clock : BOOLEAN, mode : Modes, len8 : BOOLEAN ]
          /\ xfer' \in [ id : Blocks, dev : Devices, mode : Modes,
                         buf : Buffers, stop : BOOLEAN ]
      BY <3>1, StartType
    <3>3. pc' \in PCs /\ ret' \in BOOLEAN
      BY DEF Return, PCs
    <3> QED BY <3>2, <3>3
  <2>3. CASE RxWait2
    BY <2>3 DEF RxWait2, WaitSucceeds, WaitTimesOut, Skip, Goto, PCs
  <2>4. CASE RxFlip
    BY <2>4 DEF RxFlip, FlippedCnt, Goto, PCs
  <2>5. CASE RxSelect
    <3> USE <2>5 DEF RxSelect, FlippedCnt, Goto
    <3>1. cnt' \in [ start : BOOLEAN, idx : Buffers, dev : Devices,
                   clock : BOOLEAN, mode : Modes, len8 : BOOLEAN ]
      OBVIOUS
    <3>2. bank' \in [ rom1 : { "APP", "SPI_RX" }, ram : { "APP", "SPI_TX" },
                    flash : { "APP", "SRAM" } ]
      OBVIOUS
    <3>3. saved' \in [ rom1 : { "APP", "SPI_RX" }, ram : { "APP", "SPI_TX" },
                    flash : { "APP", "SRAM" } ]
      OBVIOUS
    <3>4. pc' \in PCs
      BY DEF PCs
    <3> QED BY <3>1, <3>2, <3>3, <3>4
  <2>6. CASE RxCopy
    BY <2>6 DEF RxCopy, VisibleRx, Skip, Goto, PCs
  <2>7. CASE RxRestore
    BY <2>7 DEF RxRestore, RestoreRom1, Goto, PCs
  <2> QED BY <1>7, <2>1, <2>2, <2>3, <2>4, <2>5, <2>6, <2>7 DEF RxRoutine
<1>8. CASE XchRoutine
  <2>1. CASE XchWait1
    <3> USE <2>1 DEF XchWait1, WaitSucceeds, Goto, Return, Skip, Busy
    <3>1. pc' \in PCs
      BY DEF PCs
    <3>2. ret' \in BOOLEAN
      BY DEF CntHighByteSet
    <3> QED BY <3>1, <3>2
  <2>2. CASE XchOpen
    BY <2>2 DEF XchOpen, OpenTxWindow, Goto, PCs
  <2>3. CASE XchCopy
    BY <2>3 DEF XchCopy, CopyToTx, Goto, PCs
  <2>4. CASE XchStart
    <3> USE <2>4 DEF XchStart
    <3>1. "EXCH" \in Modes /\ (1 - cnt.idx) \in Buffers
      BY DEF Modes
    <3>2. pc' \in PCs
      BY DEF Goto, PCs
    <3> QED BY <3>1, <3>2, StartType
  <2>5. CASE XchClose
    BY <2>5 DEF XchClose, CloseTxWindow, Goto, PCs
  <2>6. CASE XchWait2
    <3> USE <2>6 DEF XchWait2, WaitSucceeds, Goto, Return, Skip, Busy
    <3>1. pc' \in PCs
      BY DEF PCs
    <3>2. ret' \in BOOLEAN
      BY DEF CntHighByteSet
    <3> QED BY <3>1, <3>2
  <2>7. CASE XchSelect
    BY <2>7 DEF XchSelect, FlippedCnt, Goto, PCs
  <2>8. CASE XchRead
    BY <2>8 DEF XchRead, VisibleRx, Skip, Goto, PCs
  <2>9. CASE XchRestore
    BY <2>9 DEF XchRestore, RestoreRom1, Return, PCs
  <2> QED BY <1>8, <2>1, <2>2, <2>3, <2>4, <2>5, <2>6, <2>7, <2>8, <2>9 DEF XchRoutine
<1>9. CASE BlkRoutine
  <2>1. CASE BlkOpen
    BY <2>1 DEF BlkOpen, OpenTxWindow, Goto, PCs
  <2>2. CASE BlkCopy
    BY <2>2 DEF BlkCopy, CopyToTx, Goto, PCs
  <2>3. CASE BlkClose
    <3> USE <2>3 DEF BlkClose, CloseTxWindow, Goto
    <3>1. bank' \in [ rom1 : { "APP", "SPI_RX" }, ram : { "APP", "SPI_TX" },
                    flash : { "APP", "SRAM" } ]
      OBVIOUS
    <3>2. pc' \in PCs
      BY DEF PCs
    <3> QED BY <3>1, <3>2
  <2> QED BY <1>9, <2>1, <2>2, <2>3 DEF BlkRoutine
<1>10. CASE SetRoutine
  <2>1. CASE SetWait
    <3> USE <2>1 DEF SetWait, WaitSucceeds, Goto, Return, Skip, Busy
    <3>1. pc' \in PCs
      BY DEF PCs
    <3>2. ret' \in BOOLEAN
      BY DEF CntHighByteSet
    <3> QED BY <3>1, <3>2
  <2>2. CASE SetWrite
    <3> USE <2>2 DEF SetWrite, Return
    <3>1. cnt' \in [ start : BOOLEAN, idx : Buffers, dev : Devices,
                     clock : BOOLEAN, mode : Modes, len8 : BOOLEAN ]
      <4>1. CASE SetControl
        BY <4>1, ControlType
      <4>2. CASE SetDevice
        BY <4>2 DEF SetDevice
      <4>3. CASE SetSpeed
        BY <4>3 DEF SetSpeed
      <4> QED BY <4>1, <4>2, <4>3
    <3>2. cartFast' \in BOOLEAN
      BY DEF SetControl, SetDevice, SetSpeed
    <3>3. pc' \in PCs
      BY DEF PCs
    <3> QED BY <3>1, <3>2, <3>3
  <2>3. CASE Flip
    BY <2>3 DEF Flip, FlippedCnt, Return, PCs
  <2> QED BY <1>10, <2>1, <2>2, <2>3 DEF SetRoutine
<1>11. CASE UNCHANGED vars
  BY <1>11 DEF vars
<1> QED BY <1>1, <1>2, <1>3, <1>4, <1>5, <1>6, <1>7, <1>8, <1>9, <1>10,
        <1>11
        DEF Next, Controller, DriverStep

\* Steps that rely on an idle controller keep it idle: only the CPU starts
\* transfers.
LEMMA ReadyStep ==
  ASSUME SpiAssumption, TypeOK, ReadyInv, [Next]_vars
  PROVE  ReadyInv'
<1> USE DEF TypeOK, ReadyInv, ReadyPCs, bankVars, callVars, hwVars
<1>1. CASE HwComplete
  BY <1>1 DEF HwComplete, Busy
<1>2. CASE HwStop
  BY <1>2 DEF HwStop, Busy
<1>3. CASE ClientCall
  BY <1>3, SomeCall DEF Call, EntryPoint, AllOps, Busy
<1>4. CASE ReadyRoutine
  BY <1>4 DEF ReadyRoutine, WaitReadyReturns, Return, Skip, Busy
<1>5. CASE AbortRoutine
  BY <1>5 DEF AbortRoutine, AbortIdle, AbortBusy, AbortReturns, Return,
        Skip, Goto, Busy
<1>6. CASE TxRoutine
  BY <1>6 DEF TxRoutine, TxOpen, TxCopy, TxWait, TxStart, TxClose,
        TxSyncReturns, OpenTxWindow, CopyToTx, CloseTxWindow, StartTransfer,
        WaitSucceeds, WaitTimesOut, Return, Skip, Goto, Busy
<1>7. CASE RxRoutine
  BY <1>7 DEF RxRoutine, RxWait1, RxStart, RxWait2, RxFlip, RxSelect,
        RxCopy, RxRestore, StartTransfer, FlippedCnt, VisibleRx,
        RestoreRom1, WaitSucceeds, WaitTimesOut, Return, Skip, Goto, Busy
<1>8. CASE XchRoutine
  BY <1>8 DEF XchRoutine, XchWait1, XchOpen, XchCopy, XchStart, XchClose,
        XchWait2, XchSelect, XchRead, XchRestore, OpenTxWindow, CopyToTx,
        CloseTxWindow, StartTransfer, FlippedCnt, VisibleRx, RestoreRom1,
        WaitSucceeds, Return, Skip, Goto, Busy
<1>9. CASE BlkRoutine
  BY <1>9 DEF BlkRoutine, BlkOpen, BlkCopy, BlkClose, OpenTxWindow,
        CopyToTx, CloseTxWindow, Goto, Busy
<1>10. CASE SetRoutine
  BY <1>10 DEF SetRoutine, SetWait, SetWrite, Flip, SetControl, SetDevice,
        SetSpeed, FlippedCnt, WaitSucceeds, Return, Skip, Goto, Busy
<1>11. CASE UNCHANGED vars
  BY <1>11 DEF vars, Busy
<1> QED BY <1>1, <1>2, <1>3, <1>4, <1>5, <1>6, <1>7, <1>8, <1>9, <1>10,
        <1>11
        DEF Next, Controller, DriverStep

\* CNT changes only where BUSY was seen clear, so a transfer keeps the
\* buffer and device it started with.
LEMMA FlightStep ==
  ASSUME SpiAssumption, TypeOK, ReadyInv, FlightInv, [Next]_vars
  PROVE  FlightInv'
<1> USE DEF TypeOK, FlightInv, ReadyInv, ReadyPCs, Buffers, bankVars,
        callVars, hwVars
<1>1. CASE HwComplete
  BY <1>1 DEF HwComplete, Busy
<1>2. CASE HwStop
  BY <1>2 DEF HwStop, Busy
<1>3. CASE ClientCall
  BY <1>3, SomeCall DEF Call, EntryPoint, AllOps, Busy
<1>4. CASE ReadyRoutine
  BY <1>4 DEF ReadyRoutine, WaitReadyReturns, Return, Skip, Busy
<1>5. CASE AbortRoutine
  BY <1>5 DEF AbortRoutine, AbortIdle, AbortBusy, AbortReturns, Return,
        Skip, Goto, Busy
<1>6. CASE TxRoutine
  <2>1. CASE TxStart
    BY <2>1, StartEffect DEF TxStart, Return, Goto, Busy, Modes
  <2>2. CASE TxRoutine /\ ~TxStart
    BY <2>2 DEF TxRoutine, TxOpen, TxCopy, TxWait, TxClose, TxSyncReturns,
        OpenTxWindow, CopyToTx, CloseTxWindow, WaitSucceeds, WaitTimesOut,
        Return, Skip, Goto, Busy
  <2> QED BY <1>6, <2>1, <2>2
<1>7. CASE RxRoutine
  <2>1. CASE RxStart
    BY <2>1, StartEffect DEF RxStart, Return, Goto, Busy, Modes
  <2>2. CASE RxRoutine /\ ~RxStart
    BY <2>2 DEF RxRoutine, RxWait1, RxWait2, RxFlip, RxSelect, RxCopy,
        RxRestore, FlippedCnt, VisibleRx, RestoreRom1, WaitSucceeds,
        WaitTimesOut, Return, Skip, Goto, Busy
  <2> QED BY <1>7, <2>1, <2>2
<1>8. CASE XchRoutine
  <2>1. CASE XchStart
    BY <2>1, StartEffect DEF XchStart, Return, Goto, Busy, Modes
  <2>2. CASE XchRoutine /\ ~XchStart
    BY <2>2 DEF XchRoutine, XchWait1, XchOpen, XchCopy, XchClose, XchWait2,
        XchSelect, XchRead, XchRestore, OpenTxWindow, CopyToTx,
        CloseTxWindow, FlippedCnt, VisibleRx, RestoreRom1, WaitSucceeds,
        Return, Skip, Goto, Busy
  <2> QED BY <1>8, <2>1, <2>2
<1>9. CASE BlkRoutine
  BY <1>9 DEF BlkRoutine, BlkOpen, BlkCopy, BlkClose, OpenTxWindow,
        CopyToTx, CloseTxWindow, Goto, Busy
<1>10. CASE SetRoutine
  BY <1>10 DEF SetRoutine, SetWait, SetWrite, Flip, SetControl, SetDevice,
        SetSpeed, FlippedCnt, WaitSucceeds, Return, Skip, Goto, Busy
<1>11. CASE UNCHANGED vars
  BY <1>11 DEF vars, Busy
<1> QED BY <1>1, <1>2, <1>3, <1>4, <1>5, <1>6, <1>7, <1>8, <1>9, <1>10,
        <1>11
        DEF Next, Controller, DriverStep

\* The transmit window is open on exactly its program points, and the
\* values saved are the application's.
LEMMA TxBankStep ==
  ASSUME SpiAssumption, TypeOK, TxBankInv, [Next]_vars
  PROVE  TxBankInv'
<1> USE DEF TypeOK, TxBankInv, TxOpenPCs, bankVars, callVars, hwVars
<1>1. CASE HwComplete
  BY <1>1 DEF HwComplete, Busy
<1>2. CASE HwStop
  BY <1>2 DEF HwStop, Busy
<1>3. CASE ClientCall
  BY <1>3, SomeCall DEF Call, EntryPoint, AllOps, Busy
<1>4. CASE ReadyRoutine
  BY <1>4 DEF ReadyRoutine, WaitReadyReturns, Return, Skip, Busy
<1>5. CASE AbortRoutine
  BY <1>5 DEF AbortRoutine, AbortIdle, AbortBusy, AbortReturns, Return,
        Skip, Goto, Busy
<1>6. CASE TxRoutine
  BY <1>6 DEF TxRoutine, TxOpen, TxCopy, TxWait, TxStart, TxClose,
        TxSyncReturns, OpenTxWindow, CopyToTx, CloseTxWindow, StartTransfer,
        WaitSucceeds, WaitTimesOut, Return, Skip, Goto, Busy
<1>7. CASE RxRoutine
  BY <1>7 DEF RxRoutine, RxWait1, RxStart, RxWait2, RxFlip, RxSelect,
        RxCopy, RxRestore, StartTransfer, FlippedCnt, VisibleRx,
        RestoreRom1, WaitSucceeds, WaitTimesOut, Return, Skip, Goto, Busy
<1>8. CASE XchRoutine
  BY <1>8 DEF XchRoutine, XchWait1, XchOpen, XchCopy, XchStart, XchClose,
        XchWait2, XchSelect, XchRead, XchRestore, OpenTxWindow, CopyToTx,
        CloseTxWindow, StartTransfer, FlippedCnt, VisibleRx, RestoreRom1,
        WaitSucceeds, Return, Skip, Goto, Busy
<1>9. CASE BlkRoutine
  BY <1>9 DEF BlkRoutine, BlkOpen, BlkCopy, BlkClose, OpenTxWindow,
        CopyToTx, CloseTxWindow, Goto, Busy
<1>10. CASE SetRoutine
  BY <1>10 DEF SetRoutine, SetWait, SetWrite, Flip, SetControl, SetDevice,
        SetSpeed, FlippedCnt, WaitSucceeds, Return, Skip, Goto, Busy
<1>11. CASE UNCHANGED vars
  BY <1>11 DEF vars, Busy
<1> QED BY <1>1, <1>2, <1>3, <1>4, <1>5, <1>6, <1>7, <1>8, <1>9, <1>10,
        <1>11
        DEF Next, Controller, DriverStep

\* Likewise for the receive window, where LIBNILE_CLOBBER_ROM1 gives up
\* the restoring only.
LEMMA RxBankStep ==
  ASSUME SpiAssumption, TypeOK, RxBankInv, [Next]_vars
  PROVE  RxBankInv'
<1> USE DEF TypeOK, RxBankInv, RxOpenPCs, bankVars, callVars, hwVars
<1>1. CASE HwComplete
  BY <1>1 DEF HwComplete, Busy
<1>2. CASE HwStop
  BY <1>2 DEF HwStop, Busy
<1>3. CASE ClientCall
  BY <1>3, SomeCall DEF Call, EntryPoint, AllOps, Busy
<1>4. CASE ReadyRoutine
  BY <1>4 DEF ReadyRoutine, WaitReadyReturns, Return, Skip, Busy
<1>5. CASE AbortRoutine
  BY <1>5 DEF AbortRoutine, AbortIdle, AbortBusy, AbortReturns, Return,
        Skip, Goto, Busy
<1>6. CASE TxRoutine
  BY <1>6 DEF TxRoutine, TxOpen, TxCopy, TxWait, TxStart, TxClose,
        TxSyncReturns, OpenTxWindow, CopyToTx, CloseTxWindow, StartTransfer,
        WaitSucceeds, WaitTimesOut, Return, Skip, Goto, Busy
<1>7. CASE RxRoutine
  BY <1>7 DEF RxRoutine, RxWait1, RxStart, RxWait2, RxFlip, RxSelect,
        RxCopy, RxRestore, StartTransfer, FlippedCnt, VisibleRx,
        RestoreRom1, WaitSucceeds, WaitTimesOut, Return, Skip, Goto, Busy
<1>8. CASE XchRoutine
  BY <1>8 DEF XchRoutine, XchWait1, XchOpen, XchCopy, XchStart, XchClose,
        XchWait2, XchSelect, XchRead, XchRestore, OpenTxWindow, CopyToTx,
        CloseTxWindow, StartTransfer, FlippedCnt, VisibleRx, RestoreRom1,
        WaitSucceeds, Return, Skip, Goto, Busy
<1>9. CASE BlkRoutine
  BY <1>9 DEF BlkRoutine, BlkOpen, BlkCopy, BlkClose, OpenTxWindow,
        CopyToTx, CloseTxWindow, Goto, Busy
<1>10. CASE SetRoutine
  BY <1>10 DEF SetRoutine, SetWait, SetWrite, Flip, SetControl, SetDevice,
        SetSpeed, FlippedCnt, WaitSucceeds, Return, Skip, Goto, Busy
<1>11. CASE UNCHANGED vars
  BY <1>11 DEF vars, Busy
<1> QED BY <1>1, <1>2, <1>3, <1>4, <1>5, <1>6, <1>7, <1>8, <1>9, <1>10,
        <1>11
        DEF Next, Controller, DriverStep

\* Control stays within the routine that was called.
LEMMA OpStep ==
  ASSUME SpiAssumption, TypeOK, OpInv, [Next]_vars
  PROVE  OpInv'
<1> USE DEF TypeOK, OpInv, bankVars, callVars, hwVars
<1>1. CASE HwComplete
  BY <1>1 DEF HwComplete, Busy
<1>2. CASE HwStop
  BY <1>2 DEF HwStop, Busy
<1>3. CASE ClientCall
  <2>1. PICK op \in Ops : \E dev \in Devices, clock \in BOOLEAN,
                speed \in Speeds, long \in BOOLEAN :
                   Call(op, dev, clock, speed, long)
    BY <1>3, SomeCall
  <2>2. op \in AllOps
    BY DEF SpiAssumption
  <2>3. pc' = EntryPoint[op] /\ call'.op = op
    BY <2>1 DEF Call
  <2> QED
    BY <2>1, <2>2, <2>3 DEF Call, EntryPoint, AllOps, Busy
<1>4. CASE ReadyRoutine
  BY <1>4 DEF ReadyRoutine, WaitReadyReturns, Return, Skip, Busy
<1>5. CASE AbortRoutine
  BY <1>5 DEF AbortRoutine, AbortIdle, AbortBusy, AbortReturns, Return,
        Skip, Goto, Busy
<1>6. CASE TxRoutine
  BY <1>6 DEF TxRoutine, TxOpen, TxCopy, TxWait, TxStart, TxClose,
        TxSyncReturns, OpenTxWindow, CopyToTx, CloseTxWindow, StartTransfer,
        WaitSucceeds, WaitTimesOut, Return, Skip, Goto, Busy
<1>7. CASE RxRoutine
  BY <1>7 DEF RxRoutine, RxWait1, RxStart, RxWait2, RxFlip, RxSelect,
        RxCopy, RxRestore, StartTransfer, FlippedCnt, VisibleRx,
        RestoreRom1, WaitSucceeds, WaitTimesOut, Return, Skip, Goto, Busy
<1>8. CASE XchRoutine
  BY <1>8 DEF XchRoutine, XchWait1, XchOpen, XchCopy, XchStart, XchClose,
        XchWait2, XchSelect, XchRead, XchRestore, OpenTxWindow, CopyToTx,
        CloseTxWindow, StartTransfer, FlippedCnt, VisibleRx, RestoreRom1,
        WaitSucceeds, Return, Skip, Goto, Busy
<1>9. CASE BlkRoutine
  BY <1>9 DEF BlkRoutine, BlkOpen, BlkCopy, BlkClose, OpenTxWindow,
        CopyToTx, CloseTxWindow, Goto, Busy
<1>10. CASE SetRoutine
  BY <1>10 DEF SetRoutine, SetWait, SetWrite, Flip, SetControl, SetDevice,
        SetSpeed, FlippedCnt, WaitSucceeds, Return, Skip, Goto, Busy
<1>11. CASE UNCHANGED vars
  BY <1>11 DEF vars, Busy
<1> QED BY <1>1, <1>2, <1>3, <1>4, <1>5, <1>6, <1>7, <1>8, <1>9, <1>10,
        <1>11
        DEF Next, Controller, DriverStep

\* Between the copy and the start nothing disturbs the visible transmit
\* buffer.
LEMMA CopiedStep ==
  ASSUME SpiAssumption, TypeOK, TxBankInv, OpInv, CopiedInv, [Next]_vars
  PROVE  CopiedInv'
<1> USE DEF TypeOK, CopiedInv, CopiedPC, OpInv, TxBankInv, TxOpenPCs,
        Buffers, bankVars, callVars, hwVars
<1>1. CASE HwComplete
  BY <1>1 DEF HwComplete, Busy
<1>2. CASE HwStop
  BY <1>2 DEF HwStop, Busy
<1>3. CASE ClientCall
  <2>1. PICK op \in Ops : \E dev \in Devices, clock \in BOOLEAN,
                speed \in Speeds, long \in BOOLEAN :
                   Call(op, dev, clock, speed, long)
    BY <1>3, SomeCall
  <2>2. op \in AllOps
    BY DEF SpiAssumption
  <2>3. pc' = EntryPoint[op] /\ call'.op = op
    BY <2>1 DEF Call
  <2> QED
    BY <2>1, <2>2, <2>3 DEF Call, EntryPoint, AllOps, Busy
<1>4. CASE ReadyRoutine
  BY <1>4 DEF ReadyRoutine, WaitReadyReturns, Return, Skip, Busy
<1>5. CASE AbortRoutine
  BY <1>5 DEF AbortRoutine, AbortIdle, AbortBusy, AbortReturns, Return,
        Skip, Goto, Busy
<1>6. CASE TxRoutine
  BY <1>6 DEF TxRoutine, TxOpen, TxCopy, TxWait, TxStart, TxClose,
        TxSyncReturns, OpenTxWindow, CopyToTx, CloseTxWindow, StartTransfer,
        WaitSucceeds, WaitTimesOut, Return, Skip, Goto, Busy
<1>7. CASE RxRoutine
  BY <1>7 DEF RxRoutine, RxWait1, RxStart, RxWait2, RxFlip, RxSelect,
        RxCopy, RxRestore, StartTransfer, FlippedCnt, VisibleRx,
        RestoreRom1, WaitSucceeds, WaitTimesOut, Return, Skip, Goto, Busy
<1>8. CASE XchRoutine
  BY <1>8 DEF XchRoutine, XchWait1, XchOpen, XchCopy, XchStart, XchClose,
        XchWait2, XchSelect, XchRead, XchRestore, OpenTxWindow, CopyToTx,
        CloseTxWindow, StartTransfer, FlippedCnt, VisibleRx, RestoreRom1,
        WaitSucceeds, Return, Skip, Goto, Busy
<1>9. CASE BlkRoutine
  BY <1>9 DEF BlkRoutine, BlkOpen, BlkCopy, BlkClose, OpenTxWindow,
        CopyToTx, CloseTxWindow, Goto, Busy
<1>10. CASE SetRoutine
  BY <1>10 DEF SetRoutine, SetWait, SetWrite, Flip, SetControl, SetDevice,
        SetSpeed, FlippedCnt, WaitSucceeds, Return, Skip, Goto, Busy
<1>11. CASE UNCHANGED vars
  BY <1>11 DEF vars, Busy
<1> QED BY <1>1, <1>2, <1>3, <1>4, <1>5, <1>6, <1>7, <1>8, <1>9, <1>10,
        <1>11
        DEF Next, Controller, DriverStep

\* A copy goes to the visible buffer, the transfer in flight works on the
\* hidden one.
LEMMA InFlightStep ==
  ASSUME SpiAssumption, TypeOK, ReadyInv, FlightInv, OpInv, CopiedInv,
         InFlightIntact, [Next]_vars
  PROVE  InFlightIntact'
<1> USE DEF TypeOK, InFlightIntact, CopiedInv, CopiedPC, OpInv, FlightInv,
        ReadyInv, ReadyPCs, Buffers, bankVars, callVars, hwVars
<1>1. CASE HwComplete
  BY <1>1 DEF HwComplete, Busy
<1>2. CASE HwStop
  BY <1>2 DEF HwStop, Busy
<1>3. CASE ClientCall
  BY <1>3, SomeCall DEF Call, EntryPoint, AllOps, Busy
<1>4. CASE ReadyRoutine
  BY <1>4 DEF ReadyRoutine, WaitReadyReturns, Return, Skip, Busy
<1>5. CASE AbortRoutine
  BY <1>5 DEF AbortRoutine, AbortIdle, AbortBusy, AbortReturns, Return,
        Skip, Goto, Busy
<1>6. CASE TxRoutine
  BY <1>6 DEF TxRoutine, TxOpen, TxCopy, TxWait, TxStart, TxClose,
        TxSyncReturns, OpenTxWindow, CopyToTx, CloseTxWindow, StartTransfer,
        WaitSucceeds, WaitTimesOut, Return, Skip, Goto, Busy
<1>7. CASE RxRoutine
  BY <1>7 DEF RxRoutine, RxWait1, RxStart, RxWait2, RxFlip, RxSelect,
        RxCopy, RxRestore, StartTransfer, FlippedCnt, VisibleRx,
        RestoreRom1, WaitSucceeds, WaitTimesOut, Return, Skip, Goto, Busy
<1>8. CASE XchRoutine
  BY <1>8 DEF XchRoutine, XchWait1, XchOpen, XchCopy, XchStart, XchClose,
        XchWait2, XchSelect, XchRead, XchRestore, OpenTxWindow, CopyToTx,
        CloseTxWindow, StartTransfer, FlippedCnt, VisibleRx, RestoreRom1,
        WaitSucceeds, Return, Skip, Goto, Busy
<1>9. CASE BlkRoutine
  BY <1>9 DEF BlkRoutine, BlkOpen, BlkCopy, BlkClose, OpenTxWindow,
        CopyToTx, CloseTxWindow, Goto, Busy
<1>10. CASE SetRoutine
  BY <1>10 DEF SetRoutine, SetWait, SetWrite, Flip, SetControl, SetDevice,
        SetSpeed, FlippedCnt, WaitSucceeds, Return, Skip, Goto, Busy
<1>11. CASE UNCHANGED vars
  BY <1>11 DEF vars, Busy
<1> QED BY <1>1, <1>2, <1>3, <1>4, <1>5, <1>6, <1>7, <1>8, <1>9, <1>10,
        <1>11
        DEF Next, Controller, DriverStep

\* A call awaiting its answer owns the transfer, and its end fills the
\* hidden receive buffer.
LEMMA AnswerStep ==
  ASSUME SpiAssumption, TypeOK, ReadyInv, FlightInv, OpInv, AnswerInv,
         [Next]_vars
  PROVE  AnswerInv'
<1> USE DEF TypeOK, AnswerInv, OpInv, FlightInv, ReadyInv, ReadyPCs,
        Buffers, bankVars, callVars, hwVars
<1>1. CASE HwComplete
  BY <1>1 DEF HwComplete, Busy
<1>2. CASE HwStop
  BY <1>2 DEF HwStop, Busy
<1>3. CASE ClientCall
  BY <1>3, SomeCall DEF Call, EntryPoint, AllOps, Busy
<1>4. CASE ReadyRoutine
  BY <1>4 DEF ReadyRoutine, WaitReadyReturns, Return, Skip, Busy
<1>5. CASE AbortRoutine
  BY <1>5 DEF AbortRoutine, AbortIdle, AbortBusy, AbortReturns, Return,
        Skip, Goto, Busy
<1>6. CASE TxRoutine
  <2>1. CASE TxStart
    BY <2>1, StartEffect DEF TxStart, Return, Goto, Busy, Modes
  <2>2. CASE TxRoutine /\ ~TxStart
    BY <2>2 DEF TxRoutine, TxOpen, TxCopy, TxWait, TxClose, TxSyncReturns,
        OpenTxWindow, CopyToTx, CloseTxWindow, WaitSucceeds, WaitTimesOut,
        Return, Skip, Goto, Busy
  <2> QED BY <1>6, <2>1, <2>2
<1>7. CASE RxRoutine
  <2>1. CASE RxStart
    BY <2>1, StartEffect DEF RxStart, Return, Goto, Busy, Modes
  <2>2. CASE RxRoutine /\ ~RxStart
    BY <2>2 DEF RxRoutine, RxWait1, RxWait2, RxFlip, RxSelect, RxCopy,
        RxRestore, FlippedCnt, VisibleRx, RestoreRom1, WaitSucceeds,
        WaitTimesOut, Return, Skip, Goto, Busy
  <2> QED BY <1>7, <2>1, <2>2
<1>8. CASE XchRoutine
  <2>1. CASE XchStart
    BY <2>1, StartEffect DEF XchStart, Return, Goto, Busy, Modes
  <2>2. CASE XchRoutine /\ ~XchStart
    BY <2>2 DEF XchRoutine, XchWait1, XchOpen, XchCopy, XchClose, XchWait2,
        XchSelect, XchRead, XchRestore, OpenTxWindow, CopyToTx,
        CloseTxWindow, FlippedCnt, VisibleRx, RestoreRom1, WaitSucceeds,
        Return, Skip, Goto, Busy
  <2> QED BY <1>8, <2>1, <2>2
<1>9. CASE BlkRoutine
  BY <1>9 DEF BlkRoutine, BlkOpen, BlkCopy, BlkClose, OpenTxWindow,
        CopyToTx, CloseTxWindow, Goto, Busy
<1>10. CASE SetRoutine
  BY <1>10 DEF SetRoutine, SetWait, SetWrite, Flip, SetControl, SetDevice,
        SetSpeed, FlippedCnt, WaitSucceeds, Return, Skip, Goto, Busy
<1>11. CASE UNCHANGED vars
  BY <1>11 DEF vars, Busy
<1> QED BY <1>1, <1>2, <1>3, <1>4, <1>5, <1>6, <1>7, <1>8, <1>9, <1>10,
        <1>11
        DEF Next, Controller, DriverStep

\* What is copied out is the answer to this call.
LEMMA GotStep ==
  ASSUME SpiAssumption, TypeOK, ReadyInv, RxBankInv, OpInv, AnswerInv,
         GotInv, OwnData, [Next]_vars
  PROVE  GotInv' /\ OwnData'
<1> USE DEF TypeOK, GotInv, OwnData, PreStartPCs, AnswerInv, OpInv,
        RxBankInv, RxOpenPCs, ReadyInv, ReadyPCs, Buffers, bankVars,
        callVars, hwVars
<1>1. CASE HwComplete
  BY <1>1 DEF HwComplete, Busy
<1>2. CASE HwStop
  BY <1>2 DEF HwStop, Busy
<1>3. CASE ClientCall
  BY <1>3, SomeCall DEF Call, EntryPoint, AllOps, Busy
<1>4. CASE ReadyRoutine
  BY <1>4 DEF ReadyRoutine, WaitReadyReturns, Return, Skip, Busy
<1>5. CASE AbortRoutine
  BY <1>5 DEF AbortRoutine, AbortIdle, AbortBusy, AbortReturns, Return,
        Skip, Goto, Busy
<1>6. CASE TxRoutine
  BY <1>6 DEF TxRoutine, TxOpen, TxCopy, TxWait, TxStart, TxClose,
        TxSyncReturns, OpenTxWindow, CopyToTx, CloseTxWindow, StartTransfer,
        WaitSucceeds, WaitTimesOut, Return, Skip, Goto, Busy
<1>7. CASE RxRoutine
  BY <1>7 DEF RxRoutine, RxWait1, RxStart, RxWait2, RxFlip, RxSelect,
        RxCopy, RxRestore, StartTransfer, FlippedCnt, VisibleRx,
        RestoreRom1, WaitSucceeds, WaitTimesOut, Return, Skip, Goto, Busy
<1>8. CASE XchRoutine
  BY <1>8 DEF XchRoutine, XchWait1, XchOpen, XchCopy, XchStart, XchClose,
        XchWait2, XchSelect, XchRead, XchRestore, OpenTxWindow, CopyToTx,
        CloseTxWindow, StartTransfer, FlippedCnt, VisibleRx, RestoreRom1,
        WaitSucceeds, Return, Skip, Goto, Busy
<1>9. CASE BlkRoutine
  BY <1>9 DEF BlkRoutine, BlkOpen, BlkCopy, BlkClose, OpenTxWindow,
        CopyToTx, CloseTxWindow, Goto, Busy
<1>10. CASE SetRoutine
  BY <1>10 DEF SetRoutine, SetWait, SetWrite, Flip, SetControl, SetDevice,
        SetSpeed, FlippedCnt, WaitSucceeds, Return, Skip, Goto, Busy
<1>11. CASE UNCHANGED vars
  BY <1>11 DEF vars, Busy
<1> QED BY <1>1, <1>2, <1>3, <1>4, <1>5, <1>6, <1>7, <1>8, <1>9, <1>10,
        <1>11
        DEF Next, Controller, DriverStep

\* Only the end of a sending transfer adds to the wire, and that transfer
\* is younger than all that is there.
LEMMA WireStep ==
  ASSUME SpiAssumption, TypeOK, ReadyInv, InFlightIntact, WireInv,
         WireOrdered, [Next]_vars
  PROVE  WireInv' /\ WireOrdered'
<1> USE DEF TypeOK, WireInv, WireOrdered, PreStartPCs, InFlightIntact,
        ReadyInv, ReadyPCs, Blocks, Buffers, bankVars, callVars, hwVars
<1>1. CASE HwComplete
  <2> USE <1>1 DEF HwComplete, Busy
  <2>1. CASE xfer.mode = "READ"
    BY <2>1
  <2>2. CASE xfer.mode # "READ"
    <3>1. wire' = Append(wire, << xfer.dev, xfer.id >>)
      BY <2>2
    <3>2. /\ xfer.id \in Nat
          /\ << xfer.dev, xfer.id >> \in Devices \X Blocks
      BY DEF SpiAssumption
    <3>3. /\ Len(wire') = Len(wire) + 1
          /\ \A i \in 1 .. Len(wire) : wire'[i] = wire[i]
          /\ wire'[Len(wire) + 1] = << xfer.dev, xfer.id >>
      BY <3>1, <3>2, AppendProperties
    <3>4. Len(wire) \in Nat
      OBVIOUS
    <3>5. \A i \in 1 .. Len(wire) : wire'[i][2] < xfer.id
      BY <2>2, <3>3
    <3>6. \A i \in 1 .. Len(wire') : wire'[i][2] <= xfer.id
      BY <3>2, <3>3, <3>4, <3>5
    <3>7. WireOrdered'
      BY <3>2, <3>3, <3>4, <3>5
    <3> QED BY <3>6, <3>7
  <2> QED BY <2>1, <2>2
<1>2. CASE HwStop
  BY <1>2 DEF HwStop, Busy
<1>3. CASE ClientCall
  <2>1. PICK op \in Ops : \E dev \in Devices, clock \in BOOLEAN,
                speed \in Speeds, long \in BOOLEAN :
                   Call(op, dev, clock, speed, long)
    BY <1>3, SomeCall
  <2>2. op \in AllOps
    BY DEF SpiAssumption
  <2>3. pc' = EntryPoint[op] /\ call'.op = op
    BY <2>1 DEF Call
  <2> QED
    BY <2>1, <2>2, <2>3 DEF Call, EntryPoint, AllOps, Busy
<1>4. CASE ReadyRoutine
  BY <1>4 DEF ReadyRoutine, WaitReadyReturns, Return, Skip, Busy
<1>5. CASE AbortRoutine
  BY <1>5 DEF AbortRoutine, AbortIdle, AbortBusy, AbortReturns, Return,
        Skip, Goto, Busy
<1>6. CASE TxRoutine
  <2>1. CASE TxStart
    BY <2>1, StartEffect DEF TxStart, Return, Goto, Busy, Modes
  <2>2. CASE TxRoutine /\ ~TxStart
    BY <2>2 DEF TxRoutine, TxOpen, TxCopy, TxWait, TxClose, TxSyncReturns,
        OpenTxWindow, CopyToTx, CloseTxWindow, WaitSucceeds, WaitTimesOut,
        Return, Skip, Goto, Busy
  <2> QED BY <1>6, <2>1, <2>2
<1>7. CASE RxRoutine
  <2>1. CASE RxStart
    BY <2>1, StartEffect DEF RxStart, Return, Goto, Busy, Modes
  <2>2. CASE RxRoutine /\ ~RxStart
    BY <2>2 DEF RxRoutine, RxWait1, RxWait2, RxFlip, RxSelect, RxCopy,
        RxRestore, FlippedCnt, VisibleRx, RestoreRom1, WaitSucceeds,
        WaitTimesOut, Return, Skip, Goto, Busy
  <2> QED BY <1>7, <2>1, <2>2
<1>8. CASE XchRoutine
  <2>1. CASE XchStart
    BY <2>1, StartEffect DEF XchStart, Return, Goto, Busy, Modes
  <2>2. CASE XchRoutine /\ ~XchStart
    BY <2>2 DEF XchRoutine, XchWait1, XchOpen, XchCopy, XchClose, XchWait2,
        XchSelect, XchRead, XchRestore, OpenTxWindow, CopyToTx,
        CloseTxWindow, FlippedCnt, VisibleRx, RestoreRom1, WaitSucceeds,
        Return, Skip, Goto, Busy
  <2> QED BY <1>8, <2>1, <2>2
<1>9. CASE BlkRoutine
  BY <1>9 DEF BlkRoutine, BlkOpen, BlkCopy, BlkClose, OpenTxWindow,
        CopyToTx, CloseTxWindow, Goto, Busy
<1>10. CASE SetRoutine
  BY <1>10 DEF SetRoutine, SetWait, SetWrite, Flip, SetControl, SetDevice,
        SetSpeed, FlippedCnt, WaitSucceeds, Return, Skip, Goto, Busy
<1>11. CASE UNCHANGED vars
  BY <1>11 DEF vars, Busy
<1> QED BY <1>1, <1>2, <1>3, <1>4, <1>5, <1>6, <1>7, <1>8, <1>9, <1>10,
        <1>11
        DEF Next, Controller, DriverStep

\* A transmit that is accepted ends on the wire, for nobody but its own
\* call may stop it.
LEMMA DeliverStep ==
  ASSUME SpiAssumption, TypeOK, ReadyInv, FlightInv, OpInv, InFlightIntact,
         DeliverInv, TxDelivered, ReadyMeansReady, [Next]_vars
  PROVE  DeliverInv' /\ TxDelivered'
<1> USE DEF TypeOK, DeliverInv, TxDelivered, InFlightIntact, OpInv,
        FlightInv, ReadyInv, ReadyPCs, Blocks, Buffers, bankVars, callVars,
        hwVars
<1>1. CASE HwComplete
  <2> USE <1>1 DEF HwComplete, Busy
  <2>1. CASE xfer.mode = "READ"
    BY <2>1
  <2>2. CASE xfer.mode # "READ"
    <3>1. wire' = Append(wire, << xfer.dev, xfer.id >>)
      BY <2>2
    <3>2. << xfer.dev, xfer.id >> \in Devices \X Blocks
      BY DEF SpiAssumption
    <3>3. /\ wire' # << >>
          /\ Len(wire') = Len(wire) + 1
          /\ wire'[Len(wire) + 1] = << xfer.dev, xfer.id >>
      BY <3>1, <3>2, AppendProperties
    <3>4. wire'[Len(wire')] = << xfer.dev, xfer.id >>
      BY <3>3, LastElement
    <3>5. cnt'.dev = cnt.dev /\ ~cnt'.start
      OBVIOUS
    <3>6. DeliverInv'
      BY <3>3, <3>4, <3>5
    <3>7. TxDelivered'
      BY <3>3, <3>4, <3>5 DEF ReadyMeansReady
    <3> QED BY <3>6, <3>7
  <2> QED BY <2>1, <2>2
<1>2. CASE HwStop
  BY <1>2 DEF HwStop, Busy
<1>3. CASE ClientCall
  <2>1. PICK op \in Ops : \E dev \in Devices, clock \in BOOLEAN,
                speed \in Speeds, long \in BOOLEAN :
                   Call(op, dev, clock, speed, long)
    BY <1>3, SomeCall
  <2>2. op \in AllOps
    BY DEF SpiAssumption
  <2>3. pc' = EntryPoint[op] /\ call'.op = op
    BY <2>1 DEF Call
  <2> QED
    BY <2>1, <2>2, <2>3 DEF Call, EntryPoint, AllOps, Busy
<1>4. CASE ReadyRoutine
  BY <1>4 DEF ReadyRoutine, WaitReadyReturns, Return, Skip, Busy
<1>5. CASE AbortRoutine
  BY <1>5 DEF AbortRoutine, AbortIdle, AbortBusy, AbortReturns, Return,
        Skip, Goto, Busy
<1>6. CASE TxRoutine
  <2>1. CASE TxStart
    BY <2>1, StartEffect DEF TxStart, Return, Goto, Busy, Modes
  <2>2. CASE TxRoutine /\ ~TxStart
    BY <2>2 DEF TxRoutine, TxOpen, TxCopy, TxWait, TxClose, TxSyncReturns,
        OpenTxWindow, CopyToTx, CloseTxWindow, WaitSucceeds, WaitTimesOut,
        Return, Skip, Goto, Busy
  <2> QED BY <1>6, <2>1, <2>2
<1>7. CASE RxRoutine
  <2>1. CASE RxStart
    BY <2>1, StartEffect DEF RxStart, Return, Goto, Busy, Modes
  <2>2. CASE RxRoutine /\ ~RxStart
    BY <2>2 DEF RxRoutine, RxWait1, RxWait2, RxFlip, RxSelect, RxCopy,
        RxRestore, FlippedCnt, VisibleRx, RestoreRom1, WaitSucceeds,
        WaitTimesOut, Return, Skip, Goto, Busy
  <2> QED BY <1>7, <2>1, <2>2
<1>8. CASE XchRoutine
  <2>1. CASE XchStart
    BY <2>1, StartEffect DEF XchStart, Return, Goto, Busy, Modes
  <2>2. CASE XchRoutine /\ ~XchStart
    BY <2>2 DEF XchRoutine, XchWait1, XchOpen, XchCopy, XchClose, XchWait2,
        XchSelect, XchRead, XchRestore, OpenTxWindow, CopyToTx,
        CloseTxWindow, FlippedCnt, VisibleRx, RestoreRom1, WaitSucceeds,
        Return, Skip, Goto, Busy
  <2> QED BY <1>8, <2>1, <2>2
<1>9. CASE BlkRoutine
  BY <1>9 DEF BlkRoutine, BlkOpen, BlkCopy, BlkClose, OpenTxWindow,
        CopyToTx, CloseTxWindow, Goto, Busy
<1>10. CASE SetRoutine
  BY <1>10 DEF SetRoutine, SetWait, SetWrite, Flip, SetControl, SetDevice,
        SetSpeed, FlippedCnt, WaitSucceeds, Return, Skip, Goto, Busy
<1>11. CASE UNCHANGED vars
  BY <1>11 DEF vars, Busy
<1> QED BY <1>1, <1>2, <1>3, <1>4, <1>5, <1>6, <1>7, <1>8, <1>9, <1>10,
        <1>11
        DEF Next, Controller, DriverStep

\* A call returns true past a wait that saw BUSY clear, or has started its
\* transfer without waiting.
LEMMA ResultStep ==
  ASSUME SpiAssumption, TypeOK, ReadyInv, OpInv, ReadyMeansReady,
         [Next]_vars
  PROVE  ReadyMeansReady'
<1> USE DEF TypeOK, ReadyMeansReady, ReadyInv, ReadyPCs, OpInv, bankVars,
        callVars, hwVars
<1>1. CASE HwComplete
  BY <1>1 DEF HwComplete, Busy
<1>2. CASE HwStop
  BY <1>2 DEF HwStop, Busy
<1>3. CASE ClientCall
  BY <1>3, SomeCall DEF Call, EntryPoint, AllOps, Busy
<1>4. CASE ReadyRoutine
  BY <1>4 DEF ReadyRoutine, WaitReadyReturns, Return, Skip, Busy
<1>5. CASE AbortRoutine
  BY <1>5 DEF AbortRoutine, AbortIdle, AbortBusy, AbortReturns, Return,
        Skip, Goto, Busy
<1>6. CASE TxRoutine
  BY <1>6 DEF TxRoutine, TxOpen, TxCopy, TxWait, TxStart, TxClose,
        TxSyncReturns, OpenTxWindow, CopyToTx, CloseTxWindow, StartTransfer,
        WaitSucceeds, WaitTimesOut, Return, Skip, Goto, Busy
<1>7. CASE RxRoutine
  BY <1>7 DEF RxRoutine, RxWait1, RxStart, RxWait2, RxFlip, RxSelect,
        RxCopy, RxRestore, StartTransfer, FlippedCnt, VisibleRx,
        RestoreRom1, WaitSucceeds, WaitTimesOut, Return, Skip, Goto, Busy
<1>8. CASE XchRoutine
  BY <1>8 DEF XchRoutine, XchWait1, XchOpen, XchCopy, XchStart, XchClose,
        XchWait2, XchSelect, XchRead, XchRestore, OpenTxWindow, CopyToTx,
        CloseTxWindow, StartTransfer, FlippedCnt, VisibleRx, RestoreRom1,
        WaitSucceeds, Return, Skip, Goto, Busy
<1>9. CASE BlkRoutine
  BY <1>9 DEF BlkRoutine, BlkOpen, BlkCopy, BlkClose, OpenTxWindow,
        CopyToTx, CloseTxWindow, Goto, Busy
<1>10. CASE SetRoutine
  BY <1>10 DEF SetRoutine, SetWait, SetWrite, Flip, SetControl, SetDevice,
        SetSpeed, FlippedCnt, WaitSucceeds, Return, Skip, Goto, Busy
<1>11. CASE UNCHANGED vars
  BY <1>11 DEF vars, Busy
<1> QED BY <1>1, <1>2, <1>3, <1>4, <1>5, <1>6, <1>7, <1>8, <1>9, <1>10,
        <1>11
        DEF Next, Controller, DriverStep

\* A step that finds and leaves the controller busy leaves the transfer
\* alone, or asks it to stop.
LEMMA OverrunStep ==
  ASSUME SpiAssumption, TypeOK, ReadyInv, OpInv, [Next]_vars
  PROVE  OverrunFree
<1> USE DEF TypeOK, OverrunFree, ReadyInv, ReadyPCs, OpInv, bankVars,
        callVars, hwVars
<1>1. CASE HwComplete
  BY <1>1 DEF HwComplete, Busy
<1>2. CASE HwStop
  BY <1>2 DEF HwStop, Busy
<1>3. CASE ClientCall
  BY <1>3, SomeCall DEF Call, EntryPoint, AllOps, Busy
<1>4. CASE ReadyRoutine
  BY <1>4 DEF ReadyRoutine, WaitReadyReturns, Return, Skip, Busy
<1>5. CASE AbortRoutine
  BY <1>5 DEF AbortRoutine, AbortIdle, AbortBusy, AbortReturns, Return,
        Skip, Goto, Busy
<1>6. CASE TxRoutine
  BY <1>6 DEF TxRoutine, TxOpen, TxCopy, TxWait, TxStart, TxClose,
        TxSyncReturns, OpenTxWindow, CopyToTx, CloseTxWindow, StartTransfer,
        WaitSucceeds, WaitTimesOut, Return, Skip, Goto, Busy
<1>7. CASE RxRoutine
  BY <1>7 DEF RxRoutine, RxWait1, RxStart, RxWait2, RxFlip, RxSelect,
        RxCopy, RxRestore, StartTransfer, FlippedCnt, VisibleRx,
        RestoreRom1, WaitSucceeds, WaitTimesOut, Return, Skip, Goto, Busy
<1>8. CASE XchRoutine
  BY <1>8 DEF XchRoutine, XchWait1, XchOpen, XchCopy, XchStart, XchClose,
        XchWait2, XchSelect, XchRead, XchRestore, OpenTxWindow, CopyToTx,
        CloseTxWindow, StartTransfer, FlippedCnt, VisibleRx, RestoreRom1,
        WaitSucceeds, Return, Skip, Goto, Busy
<1>9. CASE BlkRoutine
  BY <1>9 DEF BlkRoutine, BlkOpen, BlkCopy, BlkClose, OpenTxWindow,
        CopyToTx, CloseTxWindow, Goto, Busy
<1>10. CASE SetRoutine
  BY <1>10 DEF SetRoutine, SetWait, SetWrite, Flip, SetControl, SetDevice,
        SetSpeed, FlippedCnt, WaitSucceeds, Return, Skip, Goto, Busy
<1>11. CASE UNCHANGED vars
  BY <1>11 DEF vars, Busy
<1> QED BY <1>1, <1>2, <1>3, <1>4, <1>5, <1>6, <1>7, <1>8, <1>9, <1>10,
        <1>11
        DEF Next, Controller, DriverStep

\* At the start nothing is in flight, nothing has been sent and the banks are
\* the application's.
LEMMA InitInv == ASSUME SpiAssumption, Init PROVE SpiInv
<1> USE DEF SpiAssumption, Init
<1>1. TypeOK
  <2> USE DEF Blocks, Buffers, Modes
  <2>1. cnt \in [ start : BOOLEAN, idx : Buffers, dev : Devices,
                  clock : BOOLEAN, mode : Modes, len8 : BOOLEAN ]
    <3>1. { FALSE } \subseteq BOOLEAN
      OBVIOUS
    <3>2. { "WRITE" } \subseteq Modes /\ { 0 } \subseteq Buffers
      OBVIOUS
    <3> QED BY <3>1, <3>2
  <2>2. xfer \in [ id : Blocks, dev : Devices, mode : Modes, buf : Buffers,
                   stop : BOOLEAN ]
    OBVIOUS
  <2>3. call \in [ op : AllOps, dev : Devices, clock : BOOLEAN,
                   speed : Speeds, long : BOOLEAN ]
    BY DEF AllOps, Speeds
  <2>4. wire \in Seq(Devices \X Blocks)
    OBVIOUS
  <2> QED BY <2>1, <2>2, <2>3, <2>4 DEF TypeOK, NoCopy, PCs
<1>2. ReadyInv /\ FlightInv /\ TxBankInv /\ RxBankInv /\ OpInv
  BY DEF ReadyInv, FlightInv, TxBankInv, RxBankInv, OpInv, Busy, ReadyPCs,
         TxOpenPCs, RxOpenPCs
<1>3. CopiedInv /\ InFlightIntact /\ AnswerInv /\ GotInv /\ OwnData
  BY DEF CopiedInv, CopiedPC, InFlightIntact, AnswerInv, GotInv, OwnData, Busy,
         PreStartPCs
<1>4. WireInv /\ WireOrdered
  BY DEF WireInv, WireOrdered, PreStartPCs
<1>5. DeliverInv /\ TxDelivered /\ ReadyMeansReady
  BY DEF DeliverInv, TxDelivered, ReadyMeansReady, Busy
<1> QED BY <1>1, <1>2, <1>3, <1>4, <1>5 DEF SpiInv

\* SpiInv holds in every reachable state of the driver.
THEOREM SpiInvariant == Spec => []SpiInv
<1>1. Init => SpiInv
  BY InitInv, SpiAssumption
<1>2. SpiInv /\ [Next]_vars => SpiInv'
  <2> SUFFICES ASSUME SpiInv, [Next]_vars PROVE SpiInv'
    OBVIOUS
  <2> USE SpiAssumption
  <2> USE DEF SpiInv
  <2>1. TypeOK' BY TypeStep
  <2>2. ReadyInv' BY ReadyStep
  <2>3. FlightInv' BY FlightStep
  <2>4. TxBankInv' BY TxBankStep
  <2>5. RxBankInv' BY RxBankStep
  <2>6. OpInv' BY OpStep
  <2>7. CopiedInv' BY CopiedStep
  <2>8. InFlightIntact' BY InFlightStep
  <2>9. AnswerInv' BY AnswerStep
  <2>10. GotInv' /\ OwnData' BY GotStep
  <2>11. WireInv' /\ WireOrdered' BY WireStep
  <2>12. DeliverInv' /\ TxDelivered' BY DeliverStep
  <2>13. ReadyMeansReady' BY ResultStep
  <2> QED BY <2>1, <2>2, <2>3, <2>4, <2>5, <2>6, <2>7, <2>8, <2>9, <2>10,
             <2>11, <2>12, <2>13
<1> QED BY <1>1, <1>2, PTL DEF Spec

\* The variables of the driver and the controller keep their types.
THEOREM TypeCorrect == Spec => []TypeOK
<1>1. SpiInv => TypeOK
  BY DEF SpiInv
<1> QED BY <1>1, SpiInvariant, PTL

\* The CPU never copies into or out of the buffer a transfer works on: where it
\* copies out nothing is in flight, where it copies in the transfer in flight
\* works on the hidden buffer.
THEOREM WindowsNeverRace == Spec => []NoWindowRace
<1>1. SpiInv => NoWindowRace
  <2> SUFFICES ASSUME SpiInv PROVE NoWindowRace
    OBVIOUS
  <2> USE DEF SpiInv
  <2>1. pc \in TxCopying => bank.ram = "SPI_TX" /\ bank.flash = "SRAM"
    BY DEF TxCopying, TxBankInv, TxOpenPCs
  <2>2. pc \in RxCopying => bank.rom1 = "SPI_RX"
    BY DEF RxCopying, RxBankInv, RxOpenPCs
  <2>3. Busy => xfer.buf # cnt.idx
    BY DEF FlightInv, TypeOK, Buffers
  <2> QED BY <2>1, <2>2, <2>3 DEF NoWindowRace
<1> QED BY <1>1, SpiInvariant, PTL

\* A block is never overwritten while it is on its way.
THEOREM BlocksStayIntact == Spec => []InFlightIntact
<1>1. SpiInv => InFlightIntact
  BY DEF SpiInv
<1> QED BY <1>1, SpiInvariant, PTL

\* Blocks reach the wire at most once and in the order of the calls.
THEOREM WireInCallOrder == Spec => []WireOrdered
<1>1. SpiInv => WireOrdered
  BY DEF SpiInv
<1> QED BY <1>1, SpiInvariant, PTL

\* A transmit reported as successful is delivered, or on its way.
THEOREM TransmitsDelivered == Spec => []TxDelivered
<1>1. SpiInv => TxDelivered
  BY DEF SpiInv
<1> QED BY <1>1, SpiInvariant, PTL

\* No receive returns the answer to another call, or half of one.
THEOREM AnswersAreOwn == Spec => []OwnData
<1>1. SpiInv => OwnData
  BY DEF SpiInv
<1> QED BY <1>1, SpiInvariant, PTL

\* A call that waits and returns true leaves the controller idle.
THEOREM TrueMeansReady == Spec => []ReadyMeansReady
<1>1. SpiInv => ReadyMeansReady
  BY DEF SpiInv
<1> QED BY <1>1, SpiInvariant, PTL

\* Between calls the application's banks are in place.
THEOREM BanksComeBack == Spec => []BanksRestored
<1>1. SpiInv => BanksRestored
  BY DEF SpiInv, TypeOK, TxBankInv, RxBankInv, TxOpenPCs, RxOpenPCs,
         BanksRestored
<1> QED BY <1>1, SpiInvariant, PTL

\* A transfer in flight is never replaced, redirected or reconfigured.
THEOREM NothingOverruns == Spec => NoOverrun
<1>1. SpiInv /\ [Next]_vars => OverrunFree
  BY OverrunStep, SpiAssumption DEF SpiInv
<1> QED BY <1>1, SpiInvariant, PTL DEF Spec, NoOverrun

\* Every step of a routine leads to a place nearer to its end.
LEMMA DriverAdvances ==
  ASSUME DriverStep
  PROVE  StepsLeft' < StepsLeft
<1> USE DEF StepsLeft, Goto, WaitSucceeds, WaitTimesOut, Return
<1>1. CASE ReadyRoutine \/ AbortRoutine
  BY <1>1 DEF ReadyRoutine, AbortRoutine, WaitReadyReturns, AbortIdle, AbortBusy,
              AbortReturns
<1>2. CASE TxRoutine
  BY <1>2 DEF TxRoutine, TxOpen, TxCopy, TxWait, TxStart, TxClose, TxSyncReturns,
              OpenTxWindow, CopyToTx
<1>3. CASE RxRoutine
  BY <1>3 DEF RxRoutine, RxWait1, RxStart, RxWait2, RxFlip, RxSelect, RxCopy,
              RxRestore
<1>4. CASE XchRoutine
  BY <1>4 DEF XchRoutine, XchWait1, XchOpen, XchCopy, XchStart, XchClose, XchWait2,
              XchSelect, XchRead, XchRestore, OpenTxWindow, CopyToTx
<1>5. CASE BlkRoutine
  BY <1>5 DEF BlkRoutine, BlkOpen, BlkCopy, BlkClose, OpenTxWindow, CopyToTx
<1>6. CASE SetRoutine
  BY <1>6 DEF SetRoutine, SetWait, SetWrite, Flip
<1> QED BY <1>1, <1>2, <1>3, <1>4, <1>5, <1>6 DEF DriverStep

\* Every call ends within eleven steps of the driver, whether the controller ever
\* ends a transfer or not: what CallReturns says, but for the fairness of the CPU
\* (src/core/spi: the routines have no backward branch but in a bounded wait).
THEOREM CallsEnd == Spec => CallsAdvance /\ [](StepsLeft \in 0 .. 11)
<1>1. Controller => StepsLeft' = StepsLeft
  BY DEF Controller, HwComplete, HwStop, StepsLeft
<1>2. ClientCall => pc = "idle"
  BY DEF ClientCall, Call
<1>3. [Next]_vars =>
        [ pc # "idle" => \/ StepsLeft' < StepsLeft
                         \/ Controller /\ StepsLeft' = StepsLeft ]_vars
  BY <1>1, <1>2, DriverAdvances DEF Next
<1>4. TypeOK => StepsLeft \in 0 .. 11
  BY DEF TypeOK, PCs, StepsLeft
<1> QED BY <1>3, <1>4, TypeCorrect, PTL DEF Spec, CallsAdvance

=============================================================================
