------------------------- MODULE ReadPipelineProofs -------------------------
(***************************************************************************)
(* Overlapping copy and transfer is safe: proofs about ReadPipeline for    *)
(* every routine and calls of any number of blocks.                        *)
(***************************************************************************)
EXTENDS ReadPipeline, TLAPS

USE PipelineAssumption DEF Token, FirstPart, BlockSize, CrcEnd, Wrong

PlaceInv == TokenPlaceInv /\ MovswPlaceInv /\ StreamPlaceInv /\ EndPlaceInv

----------------------------------------------------------------------------
LEMMA InitEstablishes ==
  ASSUME Init
  PROVE  PipelineInv
<1>1. TypeOK
  <2>1. count \in Nat /\ left \in 0 .. count
    BY DEF Init
  <2>2. rx \in [ { 0, 1 } -> [ block : Nat, from : Int, len : Nat ] ]
    BY DEF Init, Junk, Chunk
  <2>3. stream \in [ block : Nat, from : Int ]
    BY DEF Init
  <2>4. flight = NoData /\ dest \in Int
    BY DEF Init
  <2>5. routine \in Routines /\ count \in 1 .. MaxCount /\ idx \in { 0, 1 }
    BY DEF Init
  <2>6. pc = "enter" /\ rom1 = "APP" /\ emu = "APP" /\ emuSaved \in BOOLEAN
    BY DEF Init
  <2>7. ok \in BOOLEAN /\ result \in BOOLEAN
    BY Zenon DEF Init
  <2> QED BY <2>1, <2>2, <2>3, <2>4, <2>5, <2>6, <2>7 DEF TypeOK
<1>2. PlaceInv
  BY DEF Init, PlaceInv, TokenPlaceInv, MovswPlaceInv, StreamPlaceInv,
         EndPlaceInv, At
<1>3. RegisterInv
  BY DEF Init, RegisterInv
<1> QED BY <1>1, <1>2, <1>3 DEF PipelineInv, PlaceInv

\* What arrives goes to the hidden buffer, where it was expected.
LEMMA ControllerKeeps ==
  ASSUME PipelineInv, Controller
  PROVE  PipelineInv'
<1> USE DEF PipelineInv
<1>1. /\ flight # NoData
      /\ flight' = NoData
      /\ UNCHANGED << routine, count, emuSaved, left, pc, idx, dest, rom1, emu, ok,
                      result >>
  BY DEF Controller, DataArrives, ByteArrives, ErrorArrives, Received, call
<1>2. /\ rx \in [ { 0, 1 } -> [ block : Nat, from : Int, len : Nat ] ]
      /\ stream \in [ block : Nat, from : Int ]
      /\ idx \in { 0, 1 }
      /\ flight \in [ mode : { "wait", "data" }, len : 1 .. BlockSize, buf : { 0, 1 } ]
  BY <1>1 DEF TypeOK
<1>3. ASSUME NEW b, NEW p \in Int, NEW n \in Nat, p + n <= CrcEnd, Pending(b, p, n)
      PROVE  /\ rx'[1 - idx] = Chunk(b, p, n) /\ stream' = After(b, p, n)
             /\ rx'[idx] = rx[idx]
  <2>1. /\ flight = [ mode |-> "data", len |-> n, buf |-> 1 - idx ]
        /\ stream = [ block |-> b, from |-> p ]
    BY <1>1, <1>3 DEF Pending, Hidden, At
  <2>2. DataArrives
    BY <2>1 DEF Controller, ByteArrives, ErrorArrives
  <2>3. /\ rx' = [ rx EXCEPT ![1 - idx] = Chunk(b, p, n) ]
        /\ stream' = After(b, p, n)
    BY <1>3, <2>1, <2>2 DEF DataArrives, Received
  <2>4. 1 - idx \in { 0, 1 } /\ 1 - idx # idx
    BY <1>2
  <2> QED BY <1>1, <1>2, <2>3, <2>4
<1>4. ASSUME NEW b, TokenPending(b)
      PROVE  /\ \/ rx'[1 - idx] = Chunk(b, Token, 1) /\ stream' = After(b, Token, 1)
                \/ rx'[1 - idx] = Junk
             /\ rx'[idx] = rx[idx]
  <2>1. /\ flight = [ mode |-> "wait", len |-> 1, buf |-> 1 - idx ]
        /\ stream = [ block |-> b, from |-> Token ]
    BY <1>1, <1>4 DEF TokenPending, TokenHidden, Hidden, At
  <2>2. \/ /\ rx' = [ rx EXCEPT ![1 - idx] = Chunk(b, Token, 1) ]
           /\ stream' = After(b, Token, 1)
        \/ rx' = [ rx EXCEPT ![1 - idx] = Junk ]
    BY <2>1 DEF Controller, DataArrives, ByteArrives, ErrorArrives, Received
  <2>3. 1 - idx \in { 0, 1 } /\ 1 - idx # idx
    BY <1>2
  <2> QED BY <1>1, <1>2, <2>2, <2>3
<1>5. TypeOK'
  <2>1. /\ rx' \in [ { 0, 1 } -> [ block : Nat, from : Int, len : Nat ] ]
        /\ stream' \in [ block : Nat, from : Int ]
    BY <1>2 DEF Controller, DataArrives, ByteArrives, ErrorArrives, Received, Chunk,
                Junk, After
  <2> QED BY <1>1, <2>1 DEF TypeOK
<1>6. UNCHANGED Block /\ UNCHANGED Streaming
  BY <1>1 DEF Block, Streaming
<1>7. TokenPlaceInv'
  <2>1. CASE pc = "token"
    <3>1. Before /\ TokenPending(Block)
      BY <2>1 DEF TokenPlaceInv
    <3>2. TokenHidden(Block)' /\ rx'[idx] = rx[idx]
      BY <1>1, <1>4, <1>6, <3>1 DEF TokenHidden, Hidden
    <3> QED BY <1>1, <1>6, <2>1, <3>1, <3>2 DEF TokenPlaceInv, Before, Visible, TokenPending
  <2>2. CASE pc # "token"
    <3>1. pc \notin { "enter", "token_flip", "token_check" }
      BY <1>1, <2>2 DEF TokenPlaceInv, TokenHidden, Hidden
    <3> QED BY <1>1, <2>2, <3>1 DEF TokenPlaceInv
  <2> QED BY <2>1, <2>2
<1>8. MovswPlaceInv'
  <2>1. pc = "first" => Hidden(Block, 0, FirstPart)'
    BY <1>1, <1>3, <1>6 DEF MovswPlaceInv, Hidden
  <2>2. pc \in { "first_copy", "rest" } =>
          Hidden(Block, FirstPart, CrcEnd - FirstPart)' /\ rx'[idx] = rx[idx]
    BY <1>1, <1>3, <1>6 DEF MovswPlaceInv, Hidden
  <2>3. pc = "rest_copy" => TokenHidden(Block)' /\ rx'[idx] = rx[idx]
    BY <1>1, <1>4, <1>6 DEF MovswPlaceInv, Hidden, TokenHidden
  <2>4. pc \notin { "rest_start", "rest_flip" }
    BY <1>1 DEF MovswPlaceInv, Hidden
  <2> QED BY <1>1, <1>6, <2>1, <2>2, <2>3, <2>4
          DEF MovswPlaceInv, Pending, TokenPending, Visible
<1>9. StreamPlaceInv'
  <2>1. pc = "sector" => Hidden(Block, 0, BlockSize)'
    BY <1>1, <1>3, <1>6 DEF StreamPlaceInv, Hidden
  <2>2. pc = "crc" => Hidden(Block, BlockSize, CrcEnd - BlockSize)' /\ rx'[idx] = rx[idx]
    BY <1>1, <1>3, <1>6 DEF StreamPlaceInv, Hidden
  <2>3. pc = "sector_copy" => Hidden(Block, 0, BlockSize)' /\ rx'[idx] = rx[idx]
    BY <1>1, <1>3, <1>6 DEF StreamPlaceInv, Hidden
  <2>4. pc # "crc_start"
    BY <1>1 DEF StreamPlaceInv, Hidden
  <2> QED BY <1>1, <1>6, <2>1, <2>2, <2>3, <2>4 DEF StreamPlaceInv, Pending, Visible
<1>10. EndPlaceInv'
  <2>1. pc \notin { "next", "last_copy" }
    BY <1>1 DEF EndPlaceInv
  <2> QED BY <1>1, <2>1 DEF EndPlaceInv
<1>11. RegisterInv'
  BY <1>1, <1>6 DEF RegisterInv
<1> QED BY <1>5, <1>7, <1>8, <1>9, <1>10, <1>11

----------------------------------------------------------------------------
\* A step that only waits for the transfer in flight.
LEMMA WaitStep ==
  ASSUME TypeOK, NEW from, NEW to, WaitReady(from, to),
         NEW b \in Nat, NEW p \in Int, NEW n \in Nat, Pending(b, p, n)
  PROVE  Hidden(b, p, n)
BY DEF WaitReady, Pending, NoData

\* What the CPU stores from a chunk that begins where dest ends.
LEMMA StoreStep ==
  ASSUME TypeOK, NEW n \in Nat, Store(n), NEW b \in Nat \ { 0 }, NEW p \in Int, NEW m \in Nat,
         Visible(b, p, m), n <= m, dest = (b - 1) * BlockSize + p,
         flight.mode = "none" \/ flight.buf # idx
  PROVE  dest' = dest + n
BY DEF Store, Visible, Chunk

\* A step of the CPU keeps the invariant.
LEMMA CpuKeeps ==
  ASSUME PipelineInv, CpuStep
  PROVE  PipelineInv'
<1> USE DEF PipelineInv, Goto
<1>0. /\ count \in Nat /\ left \in 0 .. count /\ Block \in Nat
      /\ idx \in { 0, 1 } /\ 1 - idx \in { 0, 1 } /\ 1 - (1 - idx) = idx
  BY DEF TypeOK, Block
<1>1. CASE Enter
  <2>1. TypeOK'
    BY <1>1 DEF Enter, Start, call, TypeOK
  <2>2. Streaming' = Streaming /\ Block' = 1 /\ left' = count'
    BY <1>1, <1>0 DEF Enter, call, Streaming, Block, TokenPlaceInv
  <2>3. TokenPlaceInv'
    BY <1>1, <2>2 DEF Enter, Start, call, TokenPlaceInv, Before, TokenPending, At
  <2>4. MovswPlaceInv' /\ StreamPlaceInv' /\ EndPlaceInv'
    BY <1>1 DEF Enter, MovswPlaceInv, StreamPlaceInv, EndPlaceInv
  <2>5. RegisterInv'
    BY <1>1, <2>2 DEF Enter, call, RegisterInv
  <2> QED BY <2>1, <2>3, <2>4, <2>5
<1>2. CASE TokenReady
  <2>1. TypeOK'
    BY <1>2 DEF TokenReady, WaitReady, call, TypeOK
  <2>2. UNCHANGED Streaming /\ UNCHANGED Block
    BY <1>2 DEF TokenReady, WaitReady, call, Streaming, Block
  <2>3. TokenPlaceInv'
    BY <1>2, <2>2 DEF TokenReady, WaitReady, call, TokenPlaceInv, Before, Visible,
       TokenPending, TokenHidden, Hidden, NoData
  <2>4. MovswPlaceInv' /\ StreamPlaceInv' /\ EndPlaceInv'
    BY <1>2 DEF TokenReady, WaitReady, MovswPlaceInv, StreamPlaceInv, EndPlaceInv
  <2>5. RegisterInv'
    BY <1>2, <2>2 DEF TokenReady, WaitReady, call, RegisterInv
  <2> QED BY <2>1, <2>3, <2>4, <2>5
<1>3. CASE TokenTimesOut
  <2>1. TypeOK'
    BY <1>3 DEF TokenTimesOut, call, TypeOK
  <2>2. UNCHANGED Streaming /\ UNCHANGED Block
    BY <1>3 DEF TokenTimesOut, call, Streaming, Block
  <2>3. TokenPlaceInv' /\ MovswPlaceInv' /\ StreamPlaceInv'
    BY <1>3 DEF TokenTimesOut, TokenPlaceInv, MovswPlaceInv, StreamPlaceInv
  <2>4. left > 0 /\ dest \in { (Block - 1) * BlockSize, (Block - 2) * BlockSize }
                 /\ ( left = count => dest = 0 )
    BY <1>0, <1>3 DEF TokenTimesOut, TokenPlaceInv, Before, RegisterInv, Block
  <2>5. EndPlaceInv'
    BY <1>0, <1>3, <2>4 DEF TokenTimesOut, EndPlaceInv, call, Block
  <2>6. RegisterInv'
    BY <1>3, <2>2 DEF TokenTimesOut, call, RegisterInv
  <2> QED BY <2>1, <2>3, <2>5, <2>6
<1>4. CASE TokenFlip
  <2>1. TypeOK'
    BY <1>0, <1>4 DEF TokenFlip, FlipBuffer, call, TypeOK
  <2>2. UNCHANGED Streaming /\ UNCHANGED Block
    BY <1>4 DEF TokenFlip, call, Streaming, Block
  <2>3. TokenPlaceInv'
    BY <1>0, <1>4, <2>2 DEF TokenFlip, FlipBuffer, call, TokenPlaceInv, Before, Visible,
       TokenHidden, Hidden
  <2>4. MovswPlaceInv' /\ StreamPlaceInv' /\ EndPlaceInv'
    BY <1>4 DEF TokenFlip, MovswPlaceInv, StreamPlaceInv, EndPlaceInv
  <2>5. RegisterInv'
    BY <1>4, <2>2 DEF TokenFlip, call, RegisterInv
  <2> QED BY <2>1, <2>3, <2>4, <2>5
<1>5. CASE TokenGood
  <2>0. /\ flight = NoData /\ Visible(Block, Token, 1) /\ stream = After(Block, Token, 1)
        /\ At(Block, 0)
    BY <1>5 DEF TokenGood, TokenPlaceInv, IsToken, Junk, Chunk, After, At
  <2>1. TypeOK'
    BY <1>0, <1>5 DEF TokenGood, Start, call, TypeOK
  <2>2. UNCHANGED Streaming /\ UNCHANGED Block
    BY <1>5 DEF TokenGood, call, Streaming, Block
  <2>3. TokenPlaceInv' /\ EndPlaceInv'
    BY <1>5 DEF TokenGood, TokenPlaceInv, EndPlaceInv
  <2>4. MovswPlaceInv'
    BY <1>5, <2>0, <2>2 DEF TokenGood, Start, call, MovswPlaceInv, TokenPlaceInv,
       Pending, At
  <2>5. StreamPlaceInv'
    BY <1>0, <1>5, <2>0, <2>2 DEF TokenGood, Start, call, StreamPlaceInv, TokenPlaceInv,
       Pending, At, Visible
  <2>6. RegisterInv'
    BY <1>5, <2>2 DEF TokenGood, call, RegisterInv
  <2> QED BY <2>1, <2>3, <2>4, <2>5, <2>6
<1>6. CASE TokenBad
  <2>1. TypeOK'
    BY <1>6 DEF TokenBad, call, TypeOK
  <2>2. UNCHANGED Streaming /\ UNCHANGED Block
    BY <1>6 DEF TokenBad, call, Streaming, Block
  <2>3. TokenPlaceInv' /\ MovswPlaceInv' /\ StreamPlaceInv'
    BY <1>6 DEF TokenBad, TokenPlaceInv, MovswPlaceInv, StreamPlaceInv
  <2>4. left > 0 /\ dest \in { (Block - 1) * BlockSize, (Block - 2) * BlockSize }
                 /\ ( left = count => dest = 0 )
    BY <1>0, <1>6 DEF TokenBad, TokenPlaceInv, RegisterInv, Block
  <2>5. EndPlaceInv'
    BY <1>0, <1>6, <2>4 DEF TokenBad, EndPlaceInv, call, Block
  <2>6. RegisterInv'
    BY <1>6, <2>2 DEF TokenBad, call, RegisterInv
  <2> QED BY <2>1, <2>3, <2>5, <2>6
<1>7. CASE NextBlock
  <2>0. left > 0 /\ left - 1 \in 0 .. count /\ left - 1 # count
    BY <1>0, <1>7 DEF NextBlock, RegisterInv
  <2>1. TypeOK'
    BY <1>0, <1>7, <2>0 DEF NextBlock, Start, call, TypeOK
  <2>2. UNCHANGED Streaming /\ Block' = Block + 1 /\ Block' - 1 = Block
    BY <1>0, <1>7 DEF NextBlock, call, Streaming, Block
  <2>3. CASE left = 1
    <3>1. Block = count
      BY <1>0, <2>3 DEF Block
    <3>2. TokenPlaceInv' /\ MovswPlaceInv' /\ StreamPlaceInv'
      BY <1>7, <2>3 DEF NextBlock, TokenPlaceInv, MovswPlaceInv, StreamPlaceInv
    <3>3. EndPlaceInv'
      BY <1>7, <2>2, <2>3, <3>1 DEF NextBlock, call, EndPlaceInv, Visible
    <3>4. RegisterInv'
      BY <1>7, <2>2, <2>3 DEF NextBlock, call, RegisterInv
    <3> QED BY <2>1, <3>2, <3>3, <3>4
  <2>4. CASE left # 1
    <3>1. TokenPlaceInv'
      BY <1>0, <1>7, <2>0, <2>2, <2>4 DEF NextBlock, Start, call, TokenPlaceInv, EndPlaceInv,
         Before, TokenPending, At, Visible
    <3>2. MovswPlaceInv'
      BY <1>0, <1>7, <2>0, <2>2, <2>4 DEF NextBlock, Start, call, MovswPlaceInv, EndPlaceInv,
         TokenPending, At, Visible
    <3>3. StreamPlaceInv' /\ EndPlaceInv'
      BY <1>7, <2>4 DEF NextBlock, StreamPlaceInv, EndPlaceInv
    <3>4. RegisterInv'
      BY <1>0, <1>7, <2>0, <2>2, <2>4 DEF NextBlock, call, RegisterInv
    <3> QED BY <2>1, <3>1, <3>2, <3>3, <3>4
  <2> QED BY <2>3, <2>4
<1>8. CASE LastCopy
  <2>0. dest' = count * BlockSize
    <3>1. CASE Streaming
      BY <1>8, <3>1, <1>0, StoreStep DEF LastCopy, EndPlaceInv, TypeOK, NoData
    <3>2. CASE ~Streaming
      BY <1>8, <3>2, <1>0, StoreStep DEF LastCopy, EndPlaceInv, TypeOK, NoData
    <3> QED BY <3>1, <3>2
  <2>1. TypeOK'
    BY <1>0, <1>8, <2>0 DEF LastCopy, call, TypeOK
  <2>2. UNCHANGED Streaming
    BY <1>8 DEF LastCopy, call, Streaming
  <2>3. TokenPlaceInv' /\ MovswPlaceInv' /\ StreamPlaceInv'
    BY <1>8 DEF LastCopy, TokenPlaceInv, MovswPlaceInv, StreamPlaceInv
  <2>4. EndPlaceInv'
    BY <1>0, <1>8, <2>0 DEF LastCopy, call, EndPlaceInv
  <2>5. RegisterInv'
    BY <1>8, <2>2 DEF LastCopy, call, RegisterInv
  <2> QED BY <2>1, <2>3, <2>4, <2>5
<1>9. CASE Leave
  <2>1. TypeOK'
    BY <1>9 DEF Leave, call, TypeOK
  <2>2. UNCHANGED Streaming
    BY <1>9 DEF Leave, call, Streaming
  <2>3. TokenPlaceInv' /\ MovswPlaceInv' /\ StreamPlaceInv' /\ EndPlaceInv'
    BY <1>9 DEF Leave, call, TokenPlaceInv, MovswPlaceInv, StreamPlaceInv, EndPlaceInv
  <2>4. RegisterInv'
    BY <1>9, <2>2 DEF Leave, call, RegisterInv
  <2> QED BY <2>1, <2>3, <2>4
<1>10. CASE FirstReady
  <2>1. TypeOK'
    BY <1>10 DEF FirstReady, WaitReady, call, TypeOK
  <2>2. UNCHANGED Streaming /\ UNCHANGED Block
    BY <1>10 DEF FirstReady, WaitReady, call, Streaming, Block
  <2>3. MovswPlaceInv'
    BY <1>10, <2>2 DEF FirstReady, WaitReady, call, MovswPlaceInv,
       Pending, Hidden, Visible, NoData
  <2>4. TokenPlaceInv' /\ StreamPlaceInv' /\ EndPlaceInv'
    BY <1>10, <2>2 DEF FirstReady, WaitReady, call, TokenPlaceInv, StreamPlaceInv, EndPlaceInv
  <2>5. RegisterInv'
    BY <1>10, <2>2 DEF FirstReady, WaitReady, call, RegisterInv
  <2> QED BY <2>1, <2>3, <2>4, <2>5
<1>11. CASE RestStart
  <2>1. TypeOK'
    BY <1>0, <1>11 DEF RestStart, Start, call, TypeOK
  <2>2. UNCHANGED Streaming /\ UNCHANGED Block
    BY <1>11 DEF RestStart, call, Streaming, Block
  <2>3. At(Block, FirstPart) /\ rx[1 - idx] = Chunk(Block, 0, FirstPart)
    BY <1>11 DEF RestStart, MovswPlaceInv, Hidden, After, At
  <2>4. MovswPlaceInv'
    BY <1>0, <1>11, <2>2, <2>3 DEF RestStart, Start, call, MovswPlaceInv, Pending, At, Visible
  <2>5. TokenPlaceInv' /\ StreamPlaceInv' /\ EndPlaceInv'
    BY <1>11 DEF RestStart, TokenPlaceInv, StreamPlaceInv, EndPlaceInv
  <2>6. RegisterInv'
    BY <1>11, <2>2 DEF RestStart, call, RegisterInv
  <2> QED BY <2>1, <2>4, <2>5, <2>6
<1>12. CASE FirstCopy
  <2>0. dest' = (Block - 1) * BlockSize + FirstPart
    <3>1. Block \in Nat \ { 0 }
      BY <1>0 DEF Block
    <3>2. flight.mode = "none" \/ flight.buf # idx
      BY <1>0, <1>12 DEF FirstCopy, MovswPlaceInv, Pending, Hidden, NoData
    <3> QED BY <1>12, <3>1, <3>2, StoreStep DEF FirstCopy, MovswPlaceInv
  <2>1. TypeOK'
    BY <1>0, <1>12, <2>0 DEF FirstCopy, call, TypeOK
  <2>2. UNCHANGED Streaming /\ UNCHANGED Block
    BY <1>12 DEF FirstCopy, call, Streaming, Block
  <2>3. MovswPlaceInv'
    BY <1>12, <2>0, <2>2 DEF FirstCopy, call, MovswPlaceInv, Pending, Hidden, At
  <2>4. TokenPlaceInv' /\ StreamPlaceInv' /\ EndPlaceInv'
    BY <1>12 DEF FirstCopy, TokenPlaceInv, StreamPlaceInv, EndPlaceInv
  <2>5. RegisterInv'
    BY <1>12, <2>2 DEF FirstCopy, call, RegisterInv
  <2> QED BY <2>1, <2>3, <2>4, <2>5
<1>13. CASE RestReady
  <2>1. TypeOK'
    BY <1>13 DEF RestReady, WaitReady, call, TypeOK
  <2>2. UNCHANGED Streaming /\ UNCHANGED Block
    BY <1>13 DEF RestReady, WaitReady, call, Streaming, Block
  <2>3. MovswPlaceInv'
    BY <1>13, <2>2 DEF RestReady, WaitReady, call, MovswPlaceInv,
       Pending, Hidden, Visible, NoData
  <2>4. TokenPlaceInv' /\ StreamPlaceInv' /\ EndPlaceInv'
    BY <1>13, <2>2 DEF RestReady, WaitReady, call, TokenPlaceInv, StreamPlaceInv, EndPlaceInv
  <2>5. RegisterInv'
    BY <1>13, <2>2 DEF RestReady, WaitReady, call, RegisterInv
  <2> QED BY <2>1, <2>3, <2>4, <2>5
<1>14. CASE RestFlip
  <2>0. ~Streaming /\ left > 0
    BY <1>14 DEF RestFlip, RegisterInv
  <2>1. TypeOK'
    BY <1>0, <1>14 DEF RestFlip, FlipBuffer, call, TypeOK
  <2>2. UNCHANGED Streaming /\ UNCHANGED Block
    BY <1>14 DEF RestFlip, call, Streaming, Block
  <2>3. At(Block + 1, Token) /\ rx[1 - idx] = Chunk(Block, FirstPart, CrcEnd - FirstPart)
    BY <1>14 DEF RestFlip, MovswPlaceInv, Hidden, After, At
  <2>4. EndPlaceInv'
    BY <1>0, <1>14, <2>0, <2>2, <2>3 DEF RestFlip, FlipBuffer, call, EndPlaceInv,
       MovswPlaceInv, Hidden, Visible, At
  <2>5. TokenPlaceInv' /\ MovswPlaceInv' /\ StreamPlaceInv'
    BY <1>14 DEF RestFlip, TokenPlaceInv, MovswPlaceInv, StreamPlaceInv
  <2>6. RegisterInv'
    BY <1>14, <2>2 DEF RestFlip, call, RegisterInv
  <2> QED BY <2>1, <2>4, <2>5, <2>6
<1>15. CASE RestCopy
  <2>0. dest' = (Block - 1) * BlockSize /\ ~Streaming
    <3> DEFINE b == Block - 1
    <3>1. b \in Nat \ { 0 }
      BY <1>0, <1>15 DEF RestCopy, MovswPlaceInv, Block
    <3>2. flight.mode = "none" \/ flight.buf # idx
      BY <1>0, <1>15 DEF RestCopy, MovswPlaceInv, TokenPending, TokenHidden, Hidden, NoData
    <3>3. /\ Store(BlockSize - FirstPart)
          /\ Visible(b, FirstPart, CrcEnd - FirstPart)
          /\ ~Streaming
      BY <1>15 DEF RestCopy, MovswPlaceInv, RegisterInv
    <3>4. /\ dest = (b - 1) * BlockSize + FirstPart
          /\ dest \in Int /\ TypeOK
      BY <1>0, <1>15 DEF RestCopy, MovswPlaceInv, TypeOK
    <3> HIDE DEF b
    <3>5. dest' = dest + (BlockSize - FirstPart)
      BY <3>1, <3>2, <3>3, <3>4, StoreStep
    <3> QED BY <1>0, <3>3, <3>4, <3>5 DEF b
  <2>1. TypeOK'
    BY <1>0, <1>15, <2>0 DEF RestCopy, call, TypeOK
  <2>2. UNCHANGED Streaming /\ UNCHANGED Block
    BY <1>15 DEF RestCopy, call, Streaming, Block
  <2>3. TokenPlaceInv'
    BY <1>15, <2>0, <2>2 DEF RestCopy, call, TokenPlaceInv, MovswPlaceInv, Before,
       TokenPending, TokenHidden, Hidden, At
  <2>4. MovswPlaceInv' /\ StreamPlaceInv' /\ EndPlaceInv'
    BY <1>15 DEF RestCopy, MovswPlaceInv, StreamPlaceInv, EndPlaceInv
  <2>5. RegisterInv'
    BY <1>15, <2>2 DEF RestCopy, call, RegisterInv
  <2> QED BY <2>1, <2>3, <2>4, <2>5
<1>16. CASE SectorReady
  <2>1. TypeOK'
    BY <1>16 DEF SectorReady, WaitReady, call, TypeOK
  <2>2. UNCHANGED Streaming /\ UNCHANGED Block
    BY <1>16 DEF SectorReady, WaitReady, call, Streaming, Block
  <2>3. StreamPlaceInv'
    BY <1>16, <2>2 DEF SectorReady, WaitReady, call, StreamPlaceInv,
       Pending, Hidden, Visible, NoData
  <2>4. TokenPlaceInv' /\ MovswPlaceInv' /\ EndPlaceInv'
    BY <1>16, <2>2 DEF SectorReady, WaitReady, call, TokenPlaceInv, MovswPlaceInv, EndPlaceInv
  <2>5. RegisterInv'
    BY <1>16, <2>2 DEF SectorReady, WaitReady, call, RegisterInv
  <2> QED BY <2>1, <2>3, <2>4, <2>5
<1>17. CASE CrcStart
  <2>1. TypeOK'
    BY <1>0, <1>17 DEF CrcStart, Start, call, TypeOK
  <2>2. UNCHANGED Streaming /\ UNCHANGED Block
    BY <1>17 DEF CrcStart, call, Streaming, Block
  <2>3. At(Block, BlockSize) /\ rx[1 - idx] = Chunk(Block, 0, BlockSize)
    BY <1>17 DEF CrcStart, StreamPlaceInv, Hidden, After, At
  <2>4. StreamPlaceInv'
    BY <1>0, <1>17, <2>2, <2>3 DEF CrcStart, Start, call, StreamPlaceInv, Pending, At, Visible
  <2>5. TokenPlaceInv' /\ MovswPlaceInv' /\ EndPlaceInv'
    BY <1>17 DEF CrcStart, TokenPlaceInv, MovswPlaceInv, EndPlaceInv
  <2>6. RegisterInv'
    BY <1>17, <2>2 DEF CrcStart, call, RegisterInv
  <2> QED BY <2>1, <2>4, <2>5, <2>6
<1>18. CASE CrcReady
  <2>0. Streaming /\ left > 0
    BY <1>18 DEF CrcReady, WaitReady, RegisterInv
  <2>1. TypeOK'
    BY <1>18 DEF CrcReady, WaitReady, call, TypeOK
  <2>2. UNCHANGED Streaming /\ UNCHANGED Block
    BY <1>18 DEF CrcReady, WaitReady, call, Streaming, Block
  <2>3. At(Block + 1, Token)
    BY <1>18 DEF CrcReady, WaitReady, StreamPlaceInv, Pending, Hidden, After, At, NoData
  <2>4. EndPlaceInv'
    BY <1>18, <2>0, <2>2, <2>3 DEF CrcReady, WaitReady, call, EndPlaceInv,
       StreamPlaceInv, Visible, At
  <2>5. TokenPlaceInv' /\ MovswPlaceInv' /\ StreamPlaceInv'
    BY <1>18 DEF CrcReady, WaitReady, TokenPlaceInv, MovswPlaceInv, StreamPlaceInv
  <2>6. RegisterInv'
    BY <1>18, <2>2 DEF CrcReady, WaitReady, call, RegisterInv
  <2> QED BY <2>1, <2>4, <2>5, <2>6
<1>19. CASE SectorCopy
  <2>0. dest' = (Block - 1) * BlockSize
    <3> DEFINE b == Block - 1
    <3>1. b \in Nat \ { 0 }
      BY <1>0, <1>19 DEF SectorCopy, StreamPlaceInv, Block
    <3>2. flight.mode = "none" \/ flight.buf # idx
      BY <1>0, <1>19 DEF SectorCopy, StreamPlaceInv, Pending, Hidden, NoData
    <3>3. Store(BlockSize) /\ Visible(b, 0, BlockSize)
      BY <1>19 DEF SectorCopy, StreamPlaceInv
    <3>4. /\ dest = (b - 1) * BlockSize + 0
          /\ dest \in Int /\ TypeOK
      BY <1>0, <1>19 DEF SectorCopy, StreamPlaceInv, TypeOK
    <3> HIDE DEF b
    <3>5. dest' = dest + BlockSize
      BY <3>1, <3>2, <3>3, <3>4, StoreStep
    <3> QED BY <1>0, <3>4, <3>5 DEF b
  <2>1. TypeOK'
    BY <1>0, <1>19, <2>0 DEF SectorCopy, call, TypeOK
  <2>2. UNCHANGED Streaming /\ UNCHANGED Block
    BY <1>19 DEF SectorCopy, call, Streaming, Block
  <2>3. StreamPlaceInv'
    BY <1>19, <2>0, <2>2 DEF SectorCopy, call, StreamPlaceInv, Pending, Hidden, At
  <2>4. TokenPlaceInv' /\ MovswPlaceInv' /\ EndPlaceInv'
    BY <1>19 DEF SectorCopy, TokenPlaceInv, MovswPlaceInv, EndPlaceInv
  <2>5. RegisterInv'
    BY <1>19, <2>2 DEF SectorCopy, call, RegisterInv
  <2> QED BY <2>1, <2>3, <2>4, <2>5
<1> QED
  BY <1>1, <1>2, <1>3, <1>4, <1>5, <1>6, <1>7, <1>8, <1>9, <1>10, <1>11, <1>12,
     <1>13, <1>14, <1>15, <1>16, <1>17, <1>18, <1>19
  DEF CpuStep

LEMMA StutterKeeps ==
  ASSUME PipelineInv, UNCHANGED vars
  PROVE  PipelineInv'
  BY DEF PipelineInv, TypeOK, TokenPlaceInv, MovswPlaceInv, StreamPlaceInv, EndPlaceInv,
         RegisterInv, Before, TokenPending, TokenHidden, Pending, Hidden, Visible, At,
         Block, Streaming, vars

\* The inductive invariant of the block loop.
THEOREM PipelineInvariant ==
  Spec => []PipelineInv
<1>1. Init => PipelineInv
  BY InitEstablishes
<1>2. PipelineInv /\ [Next]_vars => PipelineInv'
  BY CpuKeeps, ControllerKeeps, StutterKeeps DEF Next
<1> QED BY <1>1, <1>2, PTL DEF Spec

\* The routines' state keeps its types.
THEOREM PipelineTypes ==
  Spec => []TypeOK
<1>1. PipelineInv => TypeOK
  BY DEF PipelineInv
<1> QED BY <1>1, PipelineInvariant, PTL

\* Success means that every byte is in its place, and only then is it reported
\* in AL (nile_disk_read_inner.s:67-126, 193-258, 329-390).
THEOREM SuccessIsWhole ==
  Spec => []OkMeansStored
<1>1. PipelineInv => OkMeansStored
  BY DEF PipelineInv, EndPlaceInv, OkMeansStored
<1> QED BY <1>1, PipelineInvariant, PTL

\* Copies and transfers overlap, and never meet in a buffer
\* (nile_disk_read_inner.s:81-119, 186-257).
THEOREM CopiesUndisturbed ==
  Spec => []CopyUndisturbed
<1>1. PipelineInv => CopyUndisturbed
  BY DEF PipelineInv, TypeOK, TokenPlaceInv, MovswPlaceInv, StreamPlaceInv, EndPlaceInv,
         RegisterInv, CopyUndisturbed, Pending, TokenPending, TokenHidden, Hidden
<1> QED BY <1>1, PipelineInvariant, PTL

\* No transfer is replaced or shown before it has ended
\* (nile_disk_read_inner.s:88-107, 194-218).
THEOREM NothingOverrun ==
  Spec => NoOverrun
<1>1. ASSUME PipelineInv, Next, flight # NoData
      PROVE  flight' \in { flight, NoData } /\ idx' = idx
  <2> USE <1>1 DEF PipelineInv
  <2>1. CASE Controller
    BY <2>1 DEF Controller, DataArrives, ByteArrives, ErrorArrives, Received
  <2>2. CASE \/ TokenReady \/ FirstReady \/ RestReady \/ SectorReady \/ CrcReady
    BY <2>2 DEF TokenReady, FirstReady, RestReady, SectorReady, CrcReady, WaitReady
  <2>3. CASE \/ TokenTimesOut \/ TokenBad \/ LastCopy \/ Leave
             \/ FirstCopy \/ RestCopy \/ SectorCopy
    BY <2>3 DEF TokenTimesOut, TokenBad, LastCopy, Leave, FirstCopy, RestCopy, SectorCopy
  <2>4. pc \notin { "enter", "token_flip", "token_check", "next", "rest_start",
                    "rest_flip", "crc_start" }
    BY DEF TokenPlaceInv, MovswPlaceInv, StreamPlaceInv, EndPlaceInv, TokenHidden, Hidden
  <2>5. ~( \/ Enter \/ TokenFlip \/ TokenGood \/ NextBlock
           \/ RestStart \/ RestFlip \/ CrcStart )
    BY <2>4 DEF Goto, Enter, TokenFlip, TokenGood, NextBlock, RestStart, RestFlip, CrcStart
  <2> QED BY <2>1, <2>2, <2>3, <2>5 DEF Next, CpuStep
<1>2. PipelineInv /\ [Next]_vars =>
        [flight # NoData => flight' \in { flight, NoData } /\ idx' = idx]_vars
  BY <1>1
<1> QED BY <1>2, PipelineInvariant, PTL DEF Spec, NoOverrun

\* Every step of the CPU leads to a place nearer to the end of the block, or
\* counts the block off.
LEMMA CpuAdvances ==
  ASSUME TypeOK, CpuStep
  PROVE  StepsLeft' < StepsLeft
<1> USE DEF StepsLeft, StepsOfBlock, Goto, TypeOK
<1>0. left \in Nat
  BY DEF PipelineAssumption
<1>1. CASE NextBlock
  BY <1>0, <1>1 DEF NextBlock
<1>2. CASE Enter \/ TokenReady \/ TokenTimesOut \/ TokenFlip \/ TokenGood \/ TokenBad
  BY <1>0, <1>2 DEF call, Enter, TokenReady, TokenTimesOut, TokenFlip, TokenGood,
                    TokenBad, WaitReady
<1>3. CASE LastCopy \/ Leave
  BY <1>0, <1>3 DEF LastCopy, Leave
<1>4. CASE \/ FirstReady \/ RestStart \/ FirstCopy \/ RestReady \/ RestFlip
           \/ RestCopy
  BY <1>0, <1>4 DEF FirstReady, RestStart, FirstCopy, RestReady, RestFlip, RestCopy,
                    WaitReady
<1>5. CASE SectorReady \/ CrcStart \/ CrcReady \/ SectorCopy
  BY <1>0, <1>5 DEF SectorReady, CrcStart, CrcReady, SectorCopy, WaitReady
<1> QED BY <1>1, <1>2, <1>3, <1>4, <1>5 DEF CpuStep

\* The routine is done after at most 13 steps for each block and 13 more, with
\* whatever the card sends or keeps to itself: what Returns says, but for fairness
\* (nile_disk_read_inner.s:70-120, 182-256, 316-388).
THEOREM LoopEnds == Spec => LoopAdvances /\ [](StepsLeft \in 0 .. 13 * count + 13)
<1>1. Controller => StepsLeft' = StepsLeft
  BY DEF Controller, DataArrives, ByteArrives, ErrorArrives, Received, StepsLeft,
         StepsOfBlock
<1>2. TypeOK /\ [Next]_vars =>
        [ /\ CpuStep => StepsLeft' < StepsLeft
          /\ Controller => StepsLeft' = StepsLeft ]_vars
  BY <1>1, CpuAdvances
<1>3. TypeOK => StepsLeft \in 0 .. 13 * count + 13
  BY PipelineAssumption DEF TypeOK, StepsLeft, StepsOfBlock, PipelineAssumption
<1> QED BY <1>2, <1>3, PipelineTypes, PTL DEF Spec, LoopAdvances

=============================================================================
