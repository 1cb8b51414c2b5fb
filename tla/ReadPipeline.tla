---------------------------- MODULE ReadPipeline ----------------------------
(***************************************************************************)
(* The block loop of disk_read (src/storage/nile_disk_read_inner.s): the   *)
(* card sends a start token, 512 bytes and two of CRC for each block, and  *)
(* the CPU copies what is in one receive buffer while the controller fills *)
(* the other.  There are three routines: one copies with movsw, two have   *)
(* the cartridge store what the CPU (lodsw) or the DMA unit (gdma) reads.  *)
(*                                                                         *)
(* One step is one access to the controller or one copy.                   *)
(***************************************************************************)
EXTENDS Integers

CONSTANTS
    Routines,       \* the routines considered
    MaxCount        \* bound on the blocks asked for in one call

ASSUME PipelineAssumption ==
    /\ Routines \subseteq { "movsw", "lodsw", "gdma" }
    /\ MaxCount \in Nat \ { 0 }

VARIABLES
    routine,        \* which routine runs
    count,          \* the blocks asked for
    left,           \* BX
    pc,             \* what the CPU does next
    idx,            \* NILE_SPI_BUFFER_IDX: the buffer the CPU sees
    flight,         \* the transfer in flight
    rx,             \* what the two buffers hold
    stream,         \* what the card sends next
    dest,           \* the bytes stored so far, all of them in place, or Wrong
    rom1,           \* WS_CART_EXTBANK_ROM1_PORT
    emu,            \* IO_NILE_EMU_CNT
    emuSaved,       \* whether the program's own value of it is not zero
    ok,             \* AL before the registers are restored
    result          \* what the routine returns

vars == << routine, count, left, pc, idx, flight, rx, stream, dest, rom1, emu,
           emuSaved, ok, result >>
call == << routine, count, emuSaved >>

\* Bytes of a block: its token is number -1, its CRC 512 and 513.
Token     == -1
FirstPart == 144
BlockSize == 512
CrcEnd    == 514

Chunk(b, p, n) == [ block |-> b, from |-> p, len |-> n ]

Junk   == Chunk(0, 0, 0)
NoData == [ mode |-> "none", len |-> 0, buf |-> 0 ]
Wrong  == -1

Streaming == routine # "movsw"

TypeOK ==
    /\ routine \in Routines
    /\ count \in 1 .. MaxCount
    /\ left \in 0 .. count
    /\ pc \in { "enter", "token", "token_flip", "token_check", "first",
                "rest_start", "first_copy", "rest", "rest_flip", "next",
                "rest_copy", "sector", "crc_start", "crc", "sector_copy",
                "last_copy", "leave", "done" }
    /\ idx \in { 0, 1 }
    /\ flight \in { NoData } \cup
                  [ mode : { "wait", "data" }, len : 1 .. BlockSize, buf : { 0, 1 } ]
    /\ rx \in [ { 0, 1 } -> [ block : Nat, from : Int, len : Nat ] ]
    /\ stream \in [ block : Nat, from : Int ]
    /\ dest \in Int
    /\ rom1 \in { "APP", "RX" }
    /\ emu \in { "APP", "OFF", "TRICK" }
    /\ emuSaved \in BOOLEAN /\ ok \in BOOLEAN /\ result \in BOOLEAN

\* The read command has been accepted.
Init ==
    /\ routine \in Routines
    /\ count \in 1 .. MaxCount
    /\ left = count
    /\ pc = "enter"
    /\ idx \in { 0, 1 }
    /\ flight = NoData
    /\ rx = [ b \in { 0, 1 } |-> Junk ]
    /\ stream = [ block |-> 1, from |-> Token ]
    /\ dest = 0
    /\ rom1 = "APP"
    /\ emu = "APP"
    /\ emuSaved \in BOOLEAN
    /\ ok = FALSE
    /\ result = FALSE

----------------------------------------------------------------------------
(***************************************************************************)
(* The controller and the card.                                            *)
(***************************************************************************)
After(b, p, n) == IF p + n < CrcEnd THEN [ block |-> b, from |-> p + n ]
                                    ELSE [ block |-> b + 1, from |-> Token ]

Received(chunk) ==
    /\ flight # NoData
    /\ rx' = [ rx EXCEPT ![flight.buf] = chunk ]
    /\ flight' = NoData
    /\ UNCHANGED << call, left, pc, idx, dest, rom1, emu, ok, result >>

\* A read takes its length in bytes of the block.
DataArrives ==
    /\ flight.mode = "data"
    /\ IF stream.from + flight.len <= CrcEnd
       THEN Received(Chunk(stream.block, stream.from, flight.len))
       ELSE Received(Junk)
    /\ stream' = After(stream.block, stream.from, flight.len)

\* A wait ends with the first byte that is not 0xFF: the token, or an error.
ByteArrives ==
    /\ flight.mode = "wait"
    /\ Received(Chunk(stream.block, stream.from, 1))
    /\ stream' = After(stream.block, stream.from, 1)

ErrorArrives ==
    /\ flight.mode = "wait"
    /\ Received(Junk)
    /\ UNCHANGED stream

Controller == DataArrives \/ ByteArrives \/ ErrorArrives

Start(mode, len, visible) ==
    /\ idx' = visible
    /\ flight' = [ mode |-> mode, len |-> len, buf |-> 1 - visible ]

FlipBuffer ==
    /\ idx' = 1 - idx
    /\ UNCHANGED flight

----------------------------------------------------------------------------
(***************************************************************************)
(* What the three routines have in common.                                 *)
(***************************************************************************)
Goto(from, to) ==
    /\ pc = from
    /\ pc' = to

\* Mutant: the CPU does not wait.
WaitSkipped(from, to) ==
    /\ Goto(from, to)
    /\ UNCHANGED << call, left, idx, flight, rx, stream, dest, rom1, emu, ok, result >>

\* m_nile_spi_wait_ready_ax_no_timeout.
WaitReady(from, to) ==
    /\ Goto(from, to)
    /\ flight = NoData
    /\ UNCHANGED << call, left, idx, flight, rx, stream, dest, rom1, emu, ok, result >>

\* The first n bytes of what the CPU sees go to the caller's buffer.
Store(n) ==
    LET c == rx[idx] IN
    dest' = IF /\ flight.mode = "none" \/ flight.buf # idx
               /\ c.block > 0 /\ n <= c.len
               /\ dest = (c.block - 1) * BlockSize + c.from
            THEN dest + n ELSE Wrong

Enter ==
    /\ Goto("enter", "token")
    /\ rom1' = "RX"
    /\ Start("wait", 1, idx)
    /\ UNCHANGED << call, left, rx, stream, dest, emu, ok, result >>

\* __nile_spi_wait_ready_near.
TokenReady == WaitReady("token", "token_flip")

\* Mutant: the token is waited for without a timeout.
TokenWaitsOn ==
    /\ pc = "token"
    /\ flight # NoData
    /\ UNCHANGED vars

TokenTimesOut ==
    /\ Goto("token", "leave")
    /\ flight # NoData
    /\ ok' = FALSE
    /\ UNCHANGED << call, left, idx, flight, rx, stream, dest, rom1, emu, result >>

TokenFlip ==
    /\ Goto("token_flip", "token_check")
    /\ FlipBuffer
    /\ UNCHANGED << call, left, rx, stream, dest, rom1, emu, ok, result >>

IsToken(c) == c.block > 0 /\ c.from = Token

\* The data of the block is asked for.  The streaming routines copy the block
\* before it now, and make its buffer visible again.  (movsw 81-86; lodsw
\* 187-191, 223-232; gdma 320-327, 359-368.)
TokenGood ==
    /\ pc = "token_check"
    /\ IsToken(rx[idx])
    /\ \/ /\ ~Streaming
          /\ pc' = "first"
          /\ Start("data", FirstPart, idx)
          /\ UNCHANGED emu
       \/ /\ Streaming
          /\ left = count
          /\ pc' = "sector"
          /\ Start("data", BlockSize, idx)
          /\ UNCHANGED emu
       \/ /\ Streaming
          /\ left # count
          /\ pc' = "sector_copy"
          /\ Start("data", BlockSize, 1 - idx)
          /\ emu' = "TRICK"
    /\ UNCHANGED << call, left, rx, stream, dest, rom1, ok, result >>

TokenBad ==
    /\ Goto("token_check", "leave")
    /\ ~IsToken(rx[idx])
    /\ ok' = FALSE
    /\ UNCHANGED << call, left, idx, flight, rx, stream, dest, rom1, emu, result >>

\* One block less; the token of the next one is waited for already.  (movsw
\* 104-107; lodsw 205-209, 253-255; gdma 341-345, 379-381.)
NextBlock ==
    /\ pc = "next"
    /\ left' = left - 1
    /\ IF left = 1
       THEN /\ pc' = "last_copy"
            /\ emu' = IF Streaming THEN "TRICK" ELSE emu
            /\ UNCHANGED << idx, flight >>
       ELSE /\ pc' = IF Streaming THEN "token" ELSE "rest_copy"
            /\ Start("wait", 1, idx)
            /\ UNCHANGED emu
    /\ UNCHANGED << call, rx, stream, dest, rom1, ok, result >>

\* (movsw 121-125; lodsw 257-258; gdma 383-390.)
LastCopy ==
    /\ Goto("last_copy", "leave")
    /\ Store(IF Streaming THEN BlockSize ELSE BlockSize - FirstPart)
    /\ ok' = TRUE
    /\ UNCHANGED << call, left, idx, flight, rx, stream, rom1, emu, result >>

\* The streaming routines pop the saved EMU_CNT over the result.  (movsw 126-139;
\* lodsw 259-275; gdma 391-405.)
Leave ==
    /\ Goto("leave", "done")
    /\ rom1' = "APP"
    /\ emu' = "APP"
    /\ result' = IF Streaming THEN emuSaved ELSE ok
    /\ UNCHANGED << call, left, idx, flight, rx, stream, dest, ok >>

----------------------------------------------------------------------------
(***************************************************************************)
(* movsw: a block arrives as 144 bytes and the rest with its CRC, and each *)
(* part is copied while what follows arrives.                              *)
(***************************************************************************)
FirstReady == WaitReady("first", "rest_start")

\* Mutant: the buffers are not exchanged.
RestStartUnflipped ==
    /\ Goto("rest_start", "first_copy")
    /\ Start("data", CrcEnd - FirstPart, idx)
    /\ UNCHANGED << call, left, rx, stream, dest, rom1, emu, ok, result >>

RestStart ==
    /\ Goto("rest_start", "first_copy")
    /\ Start("data", CrcEnd - FirstPart, 1 - idx)
    /\ UNCHANGED << call, left, rx, stream, dest, rom1, emu, ok, result >>

FirstCopy ==
    /\ Goto("first_copy", "rest")
    /\ Store(FirstPart)
    /\ UNCHANGED << call, left, idx, flight, rx, stream, rom1, emu, ok, result >>

RestReady == WaitReady("rest", "rest_flip")

RestFlip ==
    /\ Goto("rest_flip", "next")
    /\ FlipBuffer
    /\ UNCHANGED << call, left, rx, stream, dest, rom1, emu, ok, result >>

RestCopy ==
    /\ Goto("rest_copy", "token")
    /\ Store(BlockSize - FirstPart)
    /\ UNCHANGED << call, left, idx, flight, rx, stream, rom1, emu, ok, result >>

----------------------------------------------------------------------------
(***************************************************************************)
(* lodsw and gdma: a block arrives as 512 bytes and its CRC, and is copied *)
(* while the next one arrives.                                             *)
(***************************************************************************)
SectorReady == WaitReady("sector", "crc_start")

CrcStart ==
    /\ Goto("crc_start", "crc")
    /\ emu' = "OFF"
    /\ Start("data", CrcEnd - BlockSize, 1 - idx)
    /\ UNCHANGED << call, left, rx, stream, dest, rom1, ok, result >>

CrcReady == WaitReady("crc", "next")

SectorCopy ==
    /\ Goto("sector_copy", "sector")
    /\ Store(BlockSize)
    /\ UNCHANGED << call, left, idx, flight, rx, stream, rom1, emu, ok, result >>

----------------------------------------------------------------------------
CpuStep ==
    \/ Enter \/ TokenReady \/ TokenTimesOut \/ TokenFlip \/ TokenGood \/ TokenBad
    \/ NextBlock \/ LastCopy \/ Leave
    \/ FirstReady \/ RestStart \/ FirstCopy \/ RestReady \/ RestFlip \/ RestCopy
    \/ SectorReady \/ CrcStart \/ CrcReady \/ SectorCopy

Next == CpuStep \/ Controller

Spec == Init /\ [][Next]_vars

\* The CPU keeps executing, and the controller clocks what it was told to clock;
\* a wait for a silent card need not end.
FairSpec == Spec /\ WF_vars(CpuStep) /\ WF_vars(DataArrives)

----------------------------------------------------------------------------
\* In spite of the overlap the loop ends as a success exactly when every byte the
\* caller asked for has been stored in its place.
OkMeansStored == pc \in { "leave", "done" } => ( ok <=> dest = count * BlockSize )

\* The CPU never copies from, nor looks for a token in, the buffer that the
\* transfer in flight fills; and it copies through the trick only while it is on.
CopyUndisturbed ==
    pc \in { "token_check", "first_copy", "rest_copy", "sector_copy", "last_copy" } =>
        /\ flight # NoData => flight.buf # idx
        /\ rom1 = "RX"
        /\ pc # "token_check" => ( emu = "TRICK" <=> Streaming )

\* While a transfer is in flight it is not replaced, and its buffer not shown.
NoOverrun == [][flight # NoData => /\ flight' \in { flight, NoData }
                                   /\ idx' = idx]_vars

\* The routine returns, also when the card is silent.
Returns == <>(pc = "done")

\* The steps that are left of the block the routine is at; a block that is not
\* yet counted off has at most 13.
StepsOfBlock ==
    CASE pc = "done" -> 0
      [] pc = "leave" -> 1
      [] pc = "last_copy" -> 2
      [] pc = "next" -> 3
      [] pc = "rest_flip" -> 4
      [] pc \in { "rest", "crc" } -> 5
      [] pc \in { "first_copy", "crc_start" } -> 6
      [] pc \in { "rest_start", "sector" } -> 7
      [] pc \in { "first", "sector_copy" } -> 8
      [] pc = "token_check" -> 9
      [] pc = "token_flip" -> 10
      [] pc = "token" -> 11
      [] pc = "rest_copy" -> 12
      [] pc = "enter" -> 13

StepsLeft == 13 * left + StepsOfBlock

\* Every step of the CPU brings the end nearer, and none of the controller's
\* puts it off.
LoopAdvances ==
    [][ /\ CpuStep => StepsLeft' < StepsLeft
        /\ Controller => StepsLeft' = StepsLeft ]_vars

----------------------------------------------------------------------------
(***************************************************************************)
(* The inductive invariant: at each place of the loop, which transfer is   *)
(* in flight or done, what the visible buffer holds, and how far dest is.  *)
(***************************************************************************)
At(b, p) == stream = [ block |-> b, from |-> p ]

\* The hidden buffer holds the chunk.
Hidden(b, p, n) == /\ flight = NoData
                   /\ rx[1 - idx] = Chunk(b, p, n)
                   /\ stream = After(b, p, n)

\* It does, or will.
Pending(b, p, n) ==
    \/ Hidden(b, p, n)
    \/ flight = [ mode |-> "data", len |-> n, buf |-> 1 - idx ] /\ At(b, p)

\* So for a token, or there is none.
TokenHidden(b) ==
    \/ Hidden(b, Token, 1)
    \/ flight = NoData /\ rx[1 - idx] = Junk

TokenPending(b) ==
    \/ TokenHidden(b)
    \/ flight = [ mode |-> "wait", len |-> 1, buf |-> 1 - idx ] /\ At(b, Token)

Visible(b, p, n) == rx[idx] = Chunk(b, p, n)

\* The block the loop is at.
Block == count - left + 1

\* What has been stored when the block's token is waited for, and what is
\* visible then.
Before == IF Streaming /\ left # count
          THEN dest = (Block - 2) * BlockSize /\ Visible(Block - 1, 0, BlockSize)
          ELSE dest = (Block - 1) * BlockSize

TokenPlaceInv ==
    /\ pc = "enter" => /\ flight = NoData /\ At(1, Token)
                       /\ left = count /\ dest = 0
    /\ pc = "token" => Before /\ TokenPending(Block)
    /\ pc = "token_flip" => Before /\ TokenHidden(Block)
    /\ pc = "token_check" =>
          /\ flight = NoData
          /\ \/ Visible(Block, Token, 1) /\ stream = After(Block, Token, 1)
             \/ rx[idx] = Junk
          /\ IF Streaming /\ left # count
             THEN /\ dest = (Block - 2) * BlockSize
                  /\ rx[1 - idx] = Chunk(Block - 1, 0, BlockSize)
             ELSE dest = (Block - 1) * BlockSize

MovswPlaceInv ==
    /\ pc \in { "first", "rest_start", "first_copy" } => dest = (Block - 1) * BlockSize
    /\ pc = "first" => Pending(Block, 0, FirstPart)
    /\ pc = "rest_start" => Hidden(Block, 0, FirstPart)
    /\ pc = "first_copy" => /\ Visible(Block, 0, FirstPart)
                            /\ Pending(Block, FirstPart, CrcEnd - FirstPart)
    /\ pc \in { "rest", "rest_flip" } => dest = (Block - 1) * BlockSize + FirstPart
    /\ pc = "rest" => Pending(Block, FirstPart, CrcEnd - FirstPart)
    /\ pc = "rest_flip" => Hidden(Block, FirstPart, CrcEnd - FirstPart)
    /\ pc = "rest_copy" => /\ left # count
                           /\ dest = (Block - 2) * BlockSize + FirstPart
                           /\ Visible(Block - 1, FirstPart, CrcEnd - FirstPart)
                           /\ TokenPending(Block)

StreamPlaceInv ==
    /\ pc \in { "sector", "crc_start", "crc" } => dest = (Block - 1) * BlockSize
    /\ pc = "sector" => Pending(Block, 0, BlockSize)
    /\ pc = "crc_start" => Hidden(Block, 0, BlockSize)
    /\ pc = "crc" => /\ Visible(Block, 0, BlockSize)
                     /\ Pending(Block, BlockSize, CrcEnd - BlockSize)
    /\ pc = "sector_copy" => /\ left # count
                             /\ dest = (Block - 2) * BlockSize
                             /\ Visible(Block - 1, 0, BlockSize)
                             /\ Pending(Block, 0, BlockSize)

EndPlaceInv ==
    /\ pc = "next" =>
          /\ flight = NoData /\ At(Block + 1, Token)
          /\ IF Streaming
             THEN Visible(Block, 0, BlockSize) /\ dest = (Block - 1) * BlockSize
             ELSE /\ Visible(Block, FirstPart, CrcEnd - FirstPart)
                  /\ dest = (Block - 1) * BlockSize + FirstPart
    /\ pc = "last_copy" =>
          /\ left = 0 /\ flight = NoData
          /\ IF Streaming
             THEN Visible(count, 0, BlockSize) /\ dest = (count - 1) * BlockSize
             ELSE /\ Visible(count, FirstPart, CrcEnd - FirstPart)
                  /\ dest = (count - 1) * BlockSize + FirstPart
    /\ pc \in { "leave", "done" } => dest >= 0 /\ ( ok <=> dest = count * BlockSize )

RegisterInv ==
    /\ pc \notin { "last_copy", "leave", "done" } => left > 0
    /\ pc \in { "first", "rest_start", "first_copy", "rest", "rest_flip",
                "rest_copy" } => ~Streaming
    /\ pc \in { "sector", "crc_start", "crc", "sector_copy" } => Streaming
    /\ pc \notin { "enter", "done" } => rom1 = "RX"
    /\ ~Streaming => emu = "APP"
    /\ pc \in { "sector_copy", "last_copy" } => ( emu = "TRICK" <=> Streaming )

PipelineInv ==
    /\ TypeOK
    /\ TokenPlaceInv
    /\ MovswPlaceInv
    /\ StreamPlaceInv
    /\ EndPlaceInv
    /\ RegisterInv

=============================================================================
