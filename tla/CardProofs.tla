----------------------------- MODULE CardProofs -----------------------------
(***************************************************************************)
(* The status byte survives resets, failures and changes of cards: proofs  *)
(* about CardLifecycle for every set of cards, every set of failures and   *)
(* any number of retries, and so with the queries of CardGeometry between  *)
(* its calls, which tell the size of a card by the registers of that card, *)
(* for every size short of 2^32 sectors.  The same for the bank masks      *)
(* (Banks): the status and the masks are what code outside of a driver     *)
(* relies on at any moment.                                                *)
(***************************************************************************)
EXTENDS CardGeometry, TLAPS

----------------------------------------------------------------------------
\* What a command can do to a card: never change its kind or its power.
LEMMA AnswerShape ==
  ASSUME NEW cmd \in Commands, chip \in Chips, NEW a \in Answers(cmd)
  PROVE  /\ a.chip \in Chips
         /\ a.chip.type = chip.type
         /\ chip.state # "off" => a.chip.state # "off"
         /\ a.resp \in { "ok", "idle", "error" }
<1> DEFINE Good(b) == /\ b.chip \in Chips
                      /\ b.chip.type = chip.type
                      /\ chip.state # "off" => b.chip.state # "off"
                      /\ b.resp \in { "ok", "idle", "error" }
<1>1. \A b \in Polled(chip, TRUE) : Good(b)
  BY DEF Polled, Answer, Ready, Chips
<1>2. \A b \in Polled(chip, FALSE) : Good(b)
  BY DEF Polled, Answer, Ready, Chips
<1>3. (chip.type # "SDHC") \in BOOLEAN
  OBVIOUS
<1>4. \A b \in Polled(chip, chip.type # "SDHC") : Good(b)
  BY <1>1, <1>2, <1>3 DEF Polled
<1>5. \A b \in Outcomes(cmd, chip) : Good(b)
  <2>1. CASE chip.type = "empty"
    <3>1. Outcomes(cmd, chip) = { Answer("error", chip) }
      BY <2>1 DEF Outcomes
    <3> QED BY <3>1 DEF Answer
  <2>2. CASE chip.type # "empty"
    <3>1. CASE cmd = "GO_IDLE_STATE"
      <4>1. Outcomes(cmd, chip) = { Answer("idle",
               [ chip EXCEPT !.state = "idle", !.blocklen = FALSE ]) }
        BY <2>2, <3>1 DEF Outcomes
      <4>2. PICK d : d = [ chip EXCEPT !.state = "idle", !.blocklen = FALSE ]
        OBVIOUS
      <4>3. d \in Chips /\ d.type = chip.type /\ d.state = "idle"
        BY <4>2 DEF Chips
      <4>4. Outcomes(cmd, chip) = { Answer("idle", d) }
        BY <4>1, <4>2
      <4> QED BY <4>3, <4>4 DEF Answer
    <3>2. CASE cmd = "SEND_IF_COND"
      BY <2>2, <3>2 DEF Outcomes, Answer, Chips
    <3>3. CASE cmd = "APP_SEND_OP_COND_HCS"
      BY <2>2, <3>3, <1>1 DEF Outcomes
    <3>4. CASE cmd = "APP_SEND_OP_COND"
      <4>1. CASE chip.type = "MMC"
        BY <3>4, <4>1 DEF Outcomes, Answer, Chips
      <4>2. CASE chip.type # "MMC"
        BY <2>2, <3>4, <4>2, <1>4 DEF Outcomes
      <4> QED BY <4>1, <4>2
    <3>5. CASE cmd = "SEND_OP_COND"
      BY <2>2, <3>5, <1>4 DEF Outcomes
    <3>6. CASE cmd = "READ_OCR"
      BY <2>2, <3>6 DEF Outcomes, Answer, Chips
    <3>7. CASE cmd = "SET_BLOCKLEN"
      <4>1. Outcomes(cmd, chip) =
              { Answer("ok", [ chip EXCEPT !.blocklen = TRUE ]) }
        BY <2>2, <3>7 DEF Outcomes
      <4>2. PICK d : d = [ chip EXCEPT !.blocklen = TRUE ]
        OBVIOUS
      <4>3. d \in Chips /\ d.type = chip.type /\ d.state = chip.state
        BY <4>2 DEF Chips
      <4>4. Outcomes(cmd, chip) = { Answer("ok", d) }
        BY <4>1, <4>2
      <4> QED BY <4>3, <4>4 DEF Answer
    <3> QED BY <3>1, <3>2, <3>3, <3>4, <3>5, <3>6, <3>7 DEF Commands
  <2> QED BY <2>1, <2>2
<1>6. \A c \in { chip } \cup { b.chip : b \in Outcomes(cmd, chip) } :
        Good(Answer("error", c))
  BY <1>5 DEF Answer
<1>7. \A b \in Answers(cmd) : Good(b)
  BY <1>5, <1>6 DEF Answers
<1> QED BY <1>7

\* Only a card says that it is ready, and only one that is.
LEMMA OkIsReady ==
  ASSUME chip \in Chips,
         NEW cmd \in { "APP_SEND_OP_COND_HCS", "APP_SEND_OP_COND", "SEND_OP_COND" },
         NEW a \in Answers(cmd), a.resp = "ok"
  PROVE  a.chip.state = "ready" /\ a.chip.type # "empty"
<1>1. a \in Outcomes(cmd, chip)
  BY DEF Answers, Answer
<1>2. chip.type # "empty"
  <2> SUFFICES ASSUME chip.type = "empty" PROVE FALSE
    OBVIOUS
  <2>1. Outcomes(cmd, chip) = { Answer("error", chip) }
    BY DEF Outcomes
  <2> QED BY <1>1, <2>1 DEF Answer
<1>3. ASSUME NEW k \in BOOLEAN, a \in Polled(chip, k)
      PROVE  a.chip.state = "ready"
  BY <1>3 DEF Polled, Answer, Ready, Chips
<1>4. a \in Polled(chip, TRUE) \/ a \in Polled(chip, FALSE)
  <2>1. CASE cmd = "APP_SEND_OP_COND_HCS"
    BY <1>1, <1>2, <2>1 DEF Outcomes
  <2>2. CASE cmd = "APP_SEND_OP_COND"
    <3>1. chip.type # "MMC"
      BY <1>1, <1>2, <2>2 DEF Outcomes, Answer
    <3>2. a \in Polled(chip, chip.type # "SDHC")
      BY <1>1, <1>2, <2>2, <3>1 DEF Outcomes
    <3> QED BY <3>2 DEF Polled
  <2>3. CASE cmd = "SEND_OP_COND"
    <3>1. a \in Polled(chip, chip.type # "SDHC")
      BY <1>1, <1>2, <2>3 DEF Outcomes
    <3> QED BY <3>1 DEF Polled
  <2> QED BY <2>1, <2>2, <2>3
<1>5. a.chip.type = chip.type
  BY AnswerShape DEF Commands
<1> QED BY <1>2, <1>3, <1>4, <1>5

\* Reading the OCR leaves the card alone, and setting the block length its
\* state.
LEMMA SettledAnswers ==
  ASSUME chip \in Chips, chip.type # "empty"
  PROVE  /\ \A a \in Answers("READ_OCR") : a.chip = chip
         /\ \A a \in Answers("SET_BLOCKLEN") :
              /\ a.chip.state = chip.state
              /\ a.resp = "ok" => a.chip.blocklen
<1>1. Outcomes("READ_OCR", chip) = { Answer("ok", chip) }
  BY DEF Outcomes
<1>2. Outcomes("SET_BLOCKLEN", chip) =
        { Answer("ok", [ chip EXCEPT !.blocklen = TRUE ]) }
  BY DEF Outcomes
<1>3. \A a \in Answers("READ_OCR") : a.chip = chip
  BY <1>1 DEF Answers, Answer
<1>4. \A a \in Answers("SET_BLOCKLEN") :
        a = Answer("ok", [ chip EXCEPT !.blocklen = TRUE ]) \/
        a = Answer("error", [ chip EXCEPT !.blocklen = TRUE ]) \/
        a = Answer("error", chip)
  BY <1>2 DEF Answers, Answer
<1> QED BY <1>3, <1>4 DEF Answer, Chips

----------------------------------------------------------------------------
LEMMA InitEstablishes ==
  ASSUME Init
  PROVE  LifeInv
<1> USE CardAssumption
<1>1. DataOK
  <2>1. chip \in Chips
    BY DEF Init, Chips
  <2>2. retries \in 0 .. MaxRetries
    BY DEF Init
  <2> QED BY <2>1, <2>2 DEF Init, DataOK, Chips, Status
<1>2. PowerInv /\ PlaceInv /\ StatusTrustworthy /\ OkMeansReady /\ AddressingRight
  BY DEF Init, PowerInv, PlaceInv, StatusTrustworthy, OkMeansReady,
         AddressingRight, Unpublished, Places, Talking
<1> QED BY <1>1, <1>2 DEF LifeInv

\* One step keeps the invariant: an action at a time.
LEMMA StepKeeps ==
  ASSUME LifeInv, Next
  PROVE  LifeInv'
<1> USE CardAssumption
<1> USE DEF LifeInv, PowerInv, PlaceInv, StatusTrustworthy, OkMeansReady,
        AddressingRight, Unpublished, Places, Talking, Goto
<1>0. chip \in Chips
  BY DEF DataOK, Chips
<1>1. CASE Initialize
  <2>1. DataOK'
    <3>1. cardState' \in Status /\ ipc' \in Status
      BY <1>1 DEF Initialize, SyncStatus, DataOK, Status
    <3> QED BY <1>1, <3>1 DEF Initialize, InitReturn, loop, DataOK
  <2> QED BY <1>1, <2>1 
    DEF Initialize, SyncStatus, InitReturn, loop
<1>2. CASE EjectStatus
  <2>1. DataOK'
    BY <1>2 DEF EjectStatus, loop, DataOK, Status
  <2> QED BY <1>2, <2>1 DEF EjectStatus, loop
<1>3. CASE IpcSync
  <2>1. DataOK'
    <3>1. cardState' \in Status /\ ipc' \in Status
      BY <1>3 DEF IpcSync, SyncStatus, DataOK, Status
    <3> QED BY <1>3, <3>1 DEF IpcSync, loop, DataOK
  <2> QED BY <1>3, <2>1 DEF IpcSync, SyncStatus, loop
<1>4. CASE WaitReady
  <2>1. DataOK'
    BY <1>4 DEF WaitReady, InitReturn, persistent, loop, DataOK
  <2> QED BY <1>4, <2>1 DEF WaitReady, InitReturn, persistent, loop
<1>5. CASE PowerOn
  <2>1. DataOK'
    BY <1>5 DEF PowerOn, loop, DataOK, Chips
  <2>2. chip' = IF power THEN chip ELSE [ chip EXCEPT !.state = "native" ]
    BY <1>5 DEF PowerOn
  <2>3. chip'.state # "off" /\ chip'.type = chip.type
    BY <1>0, <2>2 DEF Chips
  <2> QED BY <1>5, <2>1, <2>3 DEF PowerOn, loop
<1>6. CASE GoIdle
  <2>1. PICK a \in Answers("GO_IDLE_STATE") :
          chip' = a.chip /\ pc' = IF a.resp = "error" THEN "failed" ELSE "if_cond"
    BY <1>6 DEF GoIdle
  <2>2. chip' \in Chips /\ chip'.type = chip.type
                       /\ (chip.state # "off" => chip'.state # "off")
    BY <1>0, <2>1, AnswerShape DEF Commands
  <2>3. DataOK'
    BY <1>6, <2>1, <2>2 DEF GoIdle, loop, DataOK, Chips
  <2> QED BY <1>6, <2>1, <2>2, <2>3 DEF GoIdle, loop
<1>7. CASE IfCond
  <2>1. PICK a \in Answers("SEND_IF_COND") :
          /\ chip' = a.chip
          /\ pc' \in { "op_legacy", "op_hc", "failed" }
          /\ retries' \in { retries, MaxRetries }
          /\ initCommand' \in { initCommand, "APP_SEND_OP_COND" }
    BY <1>7 DEF IfCond, StartPolling, loop
  <2>2. chip' \in Chips /\ chip'.type = chip.type
                       /\ (chip.state # "off" => chip'.state # "off")
    BY <1>0, <2>1, AnswerShape DEF Commands
  <2>3. DataOK'
    BY <1>7, <2>1, <2>2 DEF IfCond, DataOK, Chips
  <2> QED BY <1>7, <2>1, <2>2, <2>3 DEF IfCond
<1>8. CASE PollHighCapacity
  <2>1. PICK a \in Answers("APP_SEND_OP_COND_HCS") :
          /\ chip' = a.chip
          /\ \/ pc' \in { "op_legacy", "op_hc" } /\ cardState' = cardState
             \/ a.resp = "ok" /\ pc' = "read_ocr" /\ cardState' = "TF_NEW"
          /\ retries' \in { MaxRetries, retries - 1 }
          /\ initCommand' \in { initCommand, "APP_SEND_OP_COND" }
    BY <1>8 DEF PollHighCapacity, StartPolling
  <2>2. chip' \in Chips /\ chip'.type = chip.type
                       /\ (chip.state # "off" => chip'.state # "off")
    BY <1>0, <2>1, AnswerShape DEF Commands
  <2>3. a.resp = "ok" => chip'.state = "ready" /\ chip'.type # "empty"
    BY <1>0, <2>1, OkIsReady
  <2>4. DataOK'
    BY <1>8, <2>1, <2>2 DEF PollHighCapacity, DataOK, Chips, Status
  <2> QED BY <1>8, <2>1, <2>2, <2>3, <2>4 DEF PollHighCapacity
<1>9. CASE HighCapacityTimesOut
  <2>1. DataOK'
    BY <1>9 DEF HighCapacityTimesOut, StartPolling, persistent, DataOK
  <2> QED BY <1>9, <2>1 DEF HighCapacityTimesOut, StartPolling, persistent
<1>10. CASE ReadOcr
  <2>1. chip' = chip
    BY <1>0, <1>10, SettledAnswers DEF ReadOcr
  <2>2. cardState' \in { "TF_NEW_BLOCK", cardState }
    BY <1>10 DEF ReadOcr
  <2>3. DataOK'
    BY <1>10, <2>1, <2>2 DEF ReadOcr, loop, DataOK, Status
  <2> QED BY <1>10, <2>1, <2>3 DEF ReadOcr, loop
<1>11. CASE PollLegacy
  <2>0. initCommand \in { "APP_SEND_OP_COND", "SEND_OP_COND" }
    BY DEF DataOK
  <2>1. PICK a \in Answers(initCommand) :
          /\ chip' = a.chip
          /\ \/ pc' \in { "op_legacy", "failed" } /\ cardState' = cardState
             \/ a.resp = "ok" /\ pc' = "set_blocklen"
                              /\ cardState' \in { "TF_OLD", "MMC_OLD" }
          /\ retries' \in { 0, retries - 1 }
          /\ initCommand' \in { initCommand, "SEND_OP_COND" }
    BY <1>11 DEF PollLegacy
  <2>2. chip' \in Chips /\ chip'.type = chip.type
                       /\ (chip.state # "off" => chip'.state # "off")
    BY <1>0, <2>0, <2>1, AnswerShape DEF Commands
  <2>3. a.resp = "ok" => chip'.state = "ready" /\ chip'.type # "empty"
    BY <1>0, <2>0, <2>1, OkIsReady
  <2>4. DataOK'
    BY <1>11, <2>1, <2>2 DEF PollLegacy, DataOK, Chips, Status
  <2> QED BY <1>11, <2>1, <2>2, <2>3, <2>4 DEF PollLegacy
<1>12. CASE LegacyTimesOut
  <2>1. DataOK'
    BY <1>12 DEF LegacyTimesOut, persistent, DataOK
  <2> QED BY <1>12, <2>1 DEF LegacyTimesOut, persistent
<1>13. CASE SetBlockLength
  <2>1. PICK a \in Answers("SET_BLOCKLEN") :
          chip' = a.chip /\ pc' = IF a.resp = "ok" THEN "publish" ELSE "failed"
    BY <1>13 DEF SetBlockLength
  <2>2. chip.type # "empty"
    BY <1>13 DEF SetBlockLength
  <2>3. chip' \in Chips /\ chip'.type = chip.type
    BY <1>0, <2>1, AnswerShape DEF Commands
  <2>4. chip'.state = chip.state /\ (a.resp = "ok" => chip'.blocklen)
    BY <1>0, <2>1, <2>2, SettledAnswers
  <2>5. DataOK'
    BY <1>13, <2>1, <2>3 DEF SetBlockLength, loop, DataOK, Chips
  <2> QED BY <1>13, <2>1, <2>2, <2>3, <2>4, <2>5 DEF SetBlockLength, loop
<1>14. CASE Publish
  <2>1. DataOK'
    BY <1>14 DEF Publish, InitReturn, loop, DataOK
  <2> QED BY <1>14, <2>1 DEF Publish, InitReturn, loop
<1>15. CASE Fail
  <2>1. chip' \in Chips /\ chip'.state = "off" /\ ~chip'.blocklen
    BY <1>0, <1>15 DEF Fail, Unpowered, Chips
  <2>2. DataOK'
    BY <1>15, <2>1 DEF Fail, InitReturn, loop, DataOK, Chips
  <2> QED BY <1>15, <2>1, <2>2 DEF Fail, InitReturn, loop
<1>16. CASE EjectPower
  <2>1. chip' \in Chips /\ chip'.state = "off" /\ ~chip'.blocklen
    BY <1>0, <1>16 DEF EjectPower, Unpowered, Chips
  <2>2. DataOK'
    BY <1>16, <2>1 DEF EjectPower, loop, DataOK, Chips
  <2>3. power' = FALSE
    BY <1>16 DEF EjectPower
  <2>4. pc = "eject_power" /\ pc' = "idle" /\ UNCHANGED << ipc >>
    BY <1>16 DEF EjectPower
  <2>5. result' = result /\ call' = call
    BY <1>16 DEF EjectPower
  <2> QED BY <2>1, <2>2, <2>3, <2>4, <2>5
<1>17. CASE Restart
  <2>1. chip' \in Chips /\ PowerInv'
    <3>1. CASE UNCHANGED << power, chip >>
      BY <1>0, <3>1
    <3>2. CASE power' = FALSE /\ chip' = Unpowered(chip)
      <4>1. chip' \in Chips /\ chip'.state = "off" /\ ~chip'.blocklen
        BY <1>0, <3>2 DEF Unpowered, Chips
      <4> QED BY <3>2, <4>1
    <3> QED BY <1>17, <3>1, <3>2 DEF Restart
  <2>2. DataOK'
    BY <1>17, <2>1 DEF Restart, loop, DataOK, Chips, Status
  <2>3. StatusTrustworthy'
    BY <1>17 DEF Restart
  <2> QED BY <1>17, <2>1, <2>2, <2>3 DEF Restart, loop
<1>18. CASE ChangeCard
  <2>1. DataOK'
    BY <1>18 DEF ChangeCard, loop, DataOK, Chips
  <2>2. chip'.state = "off" /\ ~chip'.blocklen
    BY <1>18 DEF ChangeCard
  <2> QED BY <1>18, <2>1, <2>2 DEF ChangeCard, loop
<1> QED
  BY <1>1, <1>2, <1>3, <1>4, <1>5, <1>6, <1>7, <1>8, <1>9, <1>10, <1>11,
     <1>12, <1>13, <1>14, <1>15, <1>16, <1>17, <1>18
  DEF Next, Client, DriverStep, InitStep

LEMMA StutterKeeps ==
  ASSUME LifeInv, UNCHANGED vars
  PROVE  LifeInv'
  BY DEF LifeInv, DataOK, PowerInv, PlaceInv, StatusTrustworthy, OkMeansReady,
         AddressingRight, vars

\* The inductive invariant of the card's life.
THEOREM LifeInvariant ==
  Spec => []LifeInv
<1>1. Init => LifeInv
  BY InitEstablishes
<1>2. LifeInv /\ [Next]_vars => LifeInv'
  BY StepKeeps, StutterKeeps
<1> QED BY <1>1, <1>2, PTL DEF Spec

\* A reset at any moment, a failure of any exchange and a change of card leave
\* a status that the next program may believe (diskio.c:157-202, 306-326).
THEOREM StatusSurvives ==
  Spec => []StatusTrustworthy
<1>1. LifeInv => StatusTrustworthy
  BY DEF LifeInv
<1> QED BY <1>1, LifeInvariant, PTL

\* disk_initialize never returns 0 for a card that does not take transfers
\* (diskio.c:208, 312-335).
THEOREM OkIsTrue ==
  Spec => []OkMeansReady
<1>1. LifeInv => OkMeansReady
  BY DEF LifeInv
<1> QED BY <1>1, LifeInvariant, PTL

\* No failure makes a card addressed in bytes be addressed in blocks
\* (diskio.c:260-266).
THEOREM AddressedRight ==
  Spec => []AddressingRight
<1>1. LifeInv => AddressingRight
  BY DEF LifeInv
<1> QED BY <1>1, LifeInvariant, PTL

\* The calls of the card's life go from place to place.
LEMMA PlacesKept ==
  ASSUME TypeOK, LifeInv', [Next]_vars
  PROVE  TypeOK'
<1> USE DEF TypeOK, Places, LifeInv, Goto, InitReturn, StartPolling
<1>1. CASE Client
  BY <1>1 DEF Client, Initialize, EjectStatus, IpcSync
<1>2. CASE InitStep
  <2>1. call' = call
    BY <1>2 DEF InitStep, WaitReady, PowerOn, GoIdle, IfCond, PollHighCapacity,
                HighCapacityTimesOut, ReadOcr, PollLegacy, LegacyTimesOut,
                SetBlockLength, Publish, Fail
  <2>2. pc' \in Places
    BY <1>2 DEF InitStep, WaitReady, PowerOn, GoIdle, IfCond, PollHighCapacity,
                HighCapacityTimesOut, ReadOcr, PollLegacy, LegacyTimesOut,
                SetBlockLength, Publish, Fail
  <2> QED BY <2>1, <2>2
<1>3. CASE EjectPower \/ Restart \/ ChangeCard \/ UNCHANGED vars
  BY <1>3 DEF EjectPower, Restart, ChangeCard, vars
<1> QED BY <1>1, <1>2, <1>3 DEF Next, DriverStep

\* The life cycle keeps its types.
THEOREM LifeTypeCorrect ==
  Spec => []TypeOK
<1>1. Init => TypeOK
  BY InitEstablishes DEF Init, TypeOK, LifeInv, Places
<1>2. TypeOK /\ LifeInv' /\ [Next]_vars => TypeOK'
  BY PlacesKept
<1> QED BY <1>1, <1>2, LifeInvariant, PTL DEF Spec

----------------------------------------------------------------------------
(***************************************************************************)
(* What disk_ioctl tells of the card (CardGeometry): the numbers are those *)
(* of the registers for every capacity, and the calls that read them leave *)
(* the life of the card as it was.                                         *)
(***************************************************************************)
\* The fields of a CSD, by the kind of card.
LEMMA CsdFields ==
  ASSUME NEW type, NEW f \in Csds(type)
  PROVE  /\ f.form = CASE type = "MMC" -> "mmc" [] type = "SDHC" -> "v2"
                       [] OTHER -> "v1"
         /\ f.form = "v2" => f.size \in CapacitiesV2
         /\ f.form # "v2" => /\ f.size \in CapacitiesV1
                             /\ f.mult \in { 0, 3, 7 }
                             /\ f.bl \in { 9, 10, 11 }
         /\ f.form = "v1" => f.erase \in { 0, 1, 127 }
         /\ f.form = "mmc" => f.erase \in { 0, 31 } /\ f.group \in { 0, 9, 31 }
         /\ f.rest \in { 0, 1 }
<1>1. CASE type = "MMC"
  BY <1>1 DEF Csds
<1>2. CASE type = "SDHC"
  BY <1>2 DEF Csds
<1>3. CASE type # "MMC" /\ type # "SDHC"
  BY <1>3 DEF Csds
<1> QED BY <1>1, <1>2, <1>3

\* The number of sectors of a card of high capacity.
LEMMA SectorsOfV2 ==
  ASSUME NEW type, NEW f \in Csds(type), f.form = "v2", bytes = Sent(f)
  PROVE  SectorCount = Capacity(f)
<1> DEFINE s == f.size
<1>1. s \in Nat /\ f.rest \in { 0, 1 }
  BY CsdFields, GeometryAssumption
<1>2. /\ bytes[0] = 64 + f.rest * 63
      /\ bytes[7] = s \div 65536
      /\ bytes[8] = (s \div 256) % 256
      /\ bytes[9] = s % 256
  BY DEF Sent, ByteOf
<1>3. Bits(0, 6, 2) = 1
  BY <1>1, <1>2 DEF Bits
<1>4. SectorCount = (bytes[9] + bytes[8] * 256 + bytes[7] * 65536 + 1) * 1024
  BY <1>3 DEF SectorCount
<1>5. (s % 256) + ((s \div 256) % 256) * 256 + (s \div 65536) * 65536 = s
  BY <1>1
<1>6. SectorCount = (s + 1) * 1024
  BY <1>1, <1>2, <1>4, <1>5
<1> QED BY <1>6 DEF Capacity

\* The three parts into which a CSD takes its 12-bit capacity.
LEMMA BitsOfSize ==
  ASSUME NEW s \in 0 .. 4095, NEW r \in { 0, 1 }
  PROVE  /\ ((s % 4) * 64 + r * 63) \div 64 = s % 4
         /\ s % 4 \in 0 .. 3
         /\ s \div 1024 \in 0 .. 3
         /\ (s % 4) + ((s \div 4) % 256) * 4 + (s \div 1024) * 1024 = s
<1>1. PICK q \in Nat, c \in 0 .. 3 : s = 4 * q + c /\ q = s \div 4 /\ c = s % 4
  BY s \div 4 \in Nat, s % 4 \in 0 .. 3
<1>2. q \in 0 .. 1023
  BY <1>1
<1>3. PICK a \in 0 .. 3 : a = q \div 256
  <2>1. q \div 256 \in 0 .. 3
    BY ONLY <1>2
  <2> QED BY ONLY <2>1
<1>4. PICK b \in 0 .. 255 : b = q % 256
  <2>1. q % 256 \in 0 .. 255
    BY ONLY <1>2
  <2> QED BY ONLY <2>1
<1>5. q = 256 * a + b
  <2>1. q = 256 * (q \div 256) + (q % 256)
    BY ONLY <1>2
  <2> QED BY ONLY <2>1, <1>3, <1>4
<1>6. s \div 1024 = a
  <2>1. PICK d \in 0 .. 1023 : d = 4 * b + c
    <3>1. 4 * b + c \in 0 .. 1023
      BY ONLY b \in 0 .. 255, c \in 0 .. 3
    <3> QED BY ONLY <3>1
  <2>2. s = 4 * q + c /\ q = 256 * a + b
    BY <1>1, <1>5
  <2>3. s = 1024 * a + d
    BY ONLY a \in 0 .. 3, b \in 0 .. 255, c \in 0 .. 3, d \in 0 .. 1023,
            q \in Nat, s \in 0 .. 4095, <2>1, <2>2
  <2> QED BY ONLY a \in 0 .. 3, d \in 0 .. 1023, s \in 0 .. 4095, <2>3
<1>7. (c * 64 + r * 63) \div 64 = c
  <2>1. PICK d \in 0 .. 63 : d = r * 63
    OBVIOUS
  <2>2. (c * 64 + d) \div 64 = c
    BY ONLY c \in 0 .. 3, d \in 0 .. 63
  <2> QED BY <2>1, <2>2
<1>8. s % 4 = c /\ s \div 4 = q /\ q % 256 = b
  BY ONLY <1>1, <1>4
<1>9. s = 4 * q + c /\ q = 256 * a + b
  BY <1>1, <1>5
<1>10. c + b * 4 + a * 1024 = s
  BY ONLY a \in 0 .. 3, b \in 0 .. 255, c \in 0 .. 3, q \in Nat,
          s \in 0 .. 4095, <1>9
<1> QED BY ONLY <1>6, <1>7, <1>8, <1>10, a \in 0 .. 3, c \in 0 .. 3

\* The bits of a CSD of version 1 are put together again as they were.
LEMMA SizeOfV1 ==
  ASSUME NEW type, NEW f \in Csds(type), f.form # "v2", bytes = Sent(f)
  PROVE  Bits(8, 6, 2) + bytes[7] * 4 + Bits(6, 0, 2) * 1024 = f.size
<1>0. f.size \in 0 .. 4095 /\ f.rest \in { 0, 1 }
  <2>1. f.size \in CapacitiesV1 /\ f.rest \in { 0, 1 }
    BY CsdFields, Zenon
  <2>2. \A n \in CapacitiesV1 : n \in 0 .. 4095
    BY GeometryAssumption
  <2>3. PICK n \in CapacitiesV1 : n = f.size
    BY ONLY <2>1, Zenon
  <2>4. n \in 0 .. 4095
    BY ONLY <2>2, n \in CapacitiesV1
  <2> QED BY ONLY <2>1, <2>3, <2>4
<1>1. PICK s \in 0 .. 4095 : s = f.size
  BY ONLY <1>0
<1>2. PICK r \in { 0, 1 } : r = f.rest
  BY ONLY <1>0
<1>3. s = f.size /\ r = f.rest
  BY ONLY <1>1, <1>2
<1>4. /\ bytes[6] = r * 252 + s \div 1024
      /\ bytes[7] = (s \div 4) % 256
      /\ bytes[8] = (s % 4) * 64 + r * 63
  BY <1>3 DEF Sent, ByteOf
<1>5. /\ ((s % 4) * 64 + r * 63) \div 64 = s % 4
      /\ s % 4 \in 0 .. 3
      /\ s \div 1024 \in 0 .. 3
      /\ (s % 4) + ((s \div 4) % 256) * 4 + (s \div 1024) * 1024 = s
  BY ONLY s \in 0 .. 4095, r \in { 0, 1 }, BitsOfSize
<1>6. Bits(8, 6, 2) = s % 4
  <2>1. Bits(8, 6, 2) = (((s % 4) * 64 + r * 63) \div 64) % 4
    BY <1>4 DEF Bits
  <2> QED BY <1>5, <2>1
<1>7. Bits(6, 0, 2) = s \div 1024
  <2>1. Bits(6, 0, 2) = ((r * 252 + s \div 1024) \div 1) % 4
    BY <1>4 DEF Bits
  <2> QED BY <1>5, <2>1
<1> QED BY <1>3, <1>4, <1>5, <1>6, <1>7

LEMMA ExponentOfV1 ==
  ASSUME NEW type, NEW f \in Csds(type), f.form # "v2", bytes = Sent(f)
  PROVE  /\ Bits(0, 6, 2) = 0
         /\ Bits(5, 0, 4) = f.bl
         /\ (Bits(10, 7, 1) + Bits(9, 0, 2) * 2) % 8 = f.mult
<1>1. /\ f.bl \in { 9, 10, 11 } /\ f.mult \in { 0, 3, 7 } /\ f.rest \in { 0, 1 }
      /\ f.form \in { "v1", "mmc" }
      /\ f.form = "v1" => f.erase \in { 0, 1, 127 }
      /\ f.form = "mmc" => f.erase \in { 0, 31 } /\ f.group \in { 0, 9, 31 }
  BY CsdFields
<1>2. /\ bytes[0] = f.rest * 63
      /\ bytes[5] = f.rest * 240 + f.bl
      /\ bytes[9] = f.rest * 252 + f.mult \div 2
  BY <1>1 DEF Sent, ByteOf
<1>3. PICK low \in 0 .. 127 : bytes[10] = (f.mult % 2) * 128 + low
  <2>1. CASE f.form = "v1"
    <3>1. bytes[10] = (f.mult % 2) * 128 + (f.rest * 64 + f.erase \div 2)
      BY <2>1 DEF Sent, ByteOf
    <3>2. f.rest * 64 + f.erase \div 2 \in 0 .. 127
      BY <1>1, <2>1
    <3> QED BY <3>1, <3>2
  <2>2. CASE f.form = "mmc"
    <3>1. bytes[10] = (f.mult % 2) * 128 + (f.erase * 4 + f.group \div 8)
      BY <2>2 DEF Sent, ByteOf
    <3>2. f.erase * 4 + f.group \div 8 \in 0 .. 127
      BY <1>1, <2>2
    <3> QED BY <3>1, <3>2
  <2> QED BY <1>1, <2>1, <2>2
<1>4. Bits(0, 6, 2) = 0
  BY <1>1, <1>2 DEF Bits
<1>5. Bits(5, 0, 4) = f.bl
  BY <1>1, <1>2 DEF Bits
<1>6. Bits(10, 7, 1) = f.mult % 2
  <2>1. Bits(10, 7, 1) = (((f.mult % 2) * 128 + low) \div 128) % 2
    BY <1>3 DEF Bits
  <2> QED BY <1>1, <2>1
<1>7. Bits(9, 0, 2) = f.mult \div 2
  BY <1>1, <1>2 DEF Bits
<1> QED BY <1>1, <1>4, <1>5, <1>6, <1>7

\* The number of sectors of any other card: where the 32 bits of the product are
\* too few, nothing is left, and no number is told.
LEMMA SectorsOfV1 ==
  ASSUME NEW type, NEW f \in Csds(type), f.form # "v2", bytes = Sent(f)
  PROVE  SectorCount # 0 => SectorCount = Capacity(f)
<1>a. f.size \in 0 .. 4095 /\ f.bl \in { 9, 10, 11 } /\ f.mult \in { 0, 3, 7 }
  BY CsdFields, GeometryAssumption
<1>s. PICK s \in 0 .. 4095 : s = f.size
  BY <1>a
<1>1. PICK b \in 9 .. 11, m \in 0 .. 7 : b = f.bl /\ m = f.mult
  <2>1. f.bl \in 9 .. 11 /\ f.mult \in 0 .. 7
    BY <1>a
  <2> QED BY ONLY <2>1
<1>b. b \in { 9, 10, 11 } /\ m \in { 0, 3, 7 }
  BY <1>a, <1>1
<1>n. PICK n \in Nat : n = b + m + 2
  OBVIOUS
<1>c. /\ 2^(32 - n) \in Nat /\ 2^(32 - n) >= 4096
      /\ 2^(m + 2) \in Nat /\ 2^(b - 9) \in Nat
      /\ 2^(n - 9) = 2^(m + 2) * 2^(b - 9)
  <2>1. CASE m = 0 /\ b = 9
    BY ONLY <2>1, <1>n
  <2>2. CASE m = 0 /\ b = 10
    BY ONLY <2>2, <1>n
  <2>3. CASE m = 0 /\ b = 11
    BY ONLY <2>3, <1>n
  <2>4. CASE m = 3 /\ b = 9
    BY ONLY <2>4, <1>n
  <2>5. CASE m = 3 /\ b = 10
    BY ONLY <2>5, <1>n
  <2>6. CASE m = 3 /\ b = 11
    BY ONLY <2>6, <1>n
  <2>7. CASE m = 7 /\ b = 9
    BY ONLY <2>7, <1>n
  <2>8. CASE m = 7 /\ b = 10
    BY ONLY <2>8, <1>n
  <2>9. CASE m = 7 /\ b = 11
    BY ONLY <2>9, <1>n
  <2> QED BY ONLY <1>b, <2>1, <2>2, <2>3, <2>4, <2>5, <2>6, <2>7, <2>8, <2>9
<1>2. PICK p \in Nat, q \in Nat, u \in Nat, v \in Nat :
        /\ 2^(32 - n) = p /\ p >= 4096
        /\ 2^(n - 9) = q /\ q = u * v
        /\ 2^(m + 2) = u /\ 2^(b - 9) = v
  BY ONLY <1>c
<1>3. SectorCount = ((s + 1) % p) * q
  <2>1. /\ Bits(0, 6, 2) = 0
        /\ Bits(5, 0, 4) = b
        /\ (Bits(10, 7, 1) + Bits(9, 0, 2) * 2) % 8 = m
        /\ Bits(8, 6, 2) + bytes[7] * 4 + Bits(6, 0, 2) * 1024 = s
    BY <1>s, <1>1, ExponentOfV1, SizeOfV1
  <2> DEFINE e == Bits(5, 0, 4) + ((Bits(10, 7, 1) + Bits(9, 0, 2) * 2) % 8) + 2
             size == Bits(8, 6, 2) + bytes[7] * 4 + Bits(6, 0, 2) * 1024 + 1
  <2>2. SectorCount = (size % 2^(32 - e)) * 2^(e - 9)
    BY <2>1 DEF SectorCount
  <2>3. e = n /\ size = s + 1
    BY <1>b, <1>n, <2>1
  <2> HIDE DEF e, size
  <2> QED BY <1>2, <2>2, <2>3
<1>4. Capacity(f) = (s + 1) * q
  <2>1. Capacity(f) = (s + 1) * u * v
    BY <1>s, <1>1, <1>2 DEF Capacity
  <2>2. (s + 1) * u * v = (s + 1) * (u * v)
    BY ONLY s \in 0 .. 4095, u \in Nat, v \in Nat
  <2> QED BY <1>2, <2>1, <2>2
<1>5. CASE s + 1 < p
  <2>1. (s + 1) % p = s + 1
    BY ONLY s \in 0 .. 4095, p \in Nat, <1>5
  <2> QED BY <1>3, <1>4, <2>1
<1>6. CASE s + 1 >= p
  <2>0. p >= 4096
    BY <1>2
  <2>1. s + 1 = 4096 /\ p = 4096
    <3>1. s <= 4095
      OBVIOUS
    <3>2. s = 4095
      BY ONLY s \in Nat, p \in Nat, <3>1, <2>0, <1>6
    <3>3. p = 4096
      BY ONLY s \in Nat, p \in Nat, <3>1, <2>0, <1>6
    <3> QED BY ONLY <3>2, <3>3
  <2>2. (s + 1) % p = 0
    BY ONLY <2>1
  <2>3. 0 * q = 0
    BY ONLY q \in Nat
  <2> QED BY ONLY <1>3, <2>2, <2>3
<1> QED BY <1>5, <1>6

\* The allocation unit of a newer card, by the number in its SSR.
LEMMA UnitOfSsr ==
  ASSUME NEW f \in Ssrs, bytes = Sent(f), New
  PROVE  BlockSize = Erased(f)
<1>0. PICK a \in 1 .. 15, r \in { 0, 1 } :
        f = [ NoRegister EXCEPT !.form = "ssr", !.au = a, !.rest = r ]
  BY DEF Ssrs
<1>1. f.au = a /\ f.rest = r /\ f.form = "ssr"
  BY <1>0 DEF NoRegister
<1>2. Bits(10, 4, 4) = a
  <2>1. Bits(10, 4, 4) = ((a * 16 + r * 15) \div 16) % 16
    BY <1>1 DEF Bits, Sent, ByteOf
  <2>2. PICK d \in 0 .. 15 : d = r * 15
    OBVIOUS
  <2>3. ((a * 16 + d) \div 16) % 16 = a
    BY ONLY a \in 1 .. 15, d \in 0 .. 15
  <2> QED BY ONLY <2>1, <2>2, <2>3
<1>3. CASE a <= 10
  <2>1. BlockSize = 16 * 2^a
    BY <1>2, <1>3 DEF BlockSize, New
  <2>2. Erased(f) = 32 * 2^(a - 1)
    BY <1>1, <1>3 DEF Erased, AllocationUnit
  <2>3. a \in { 1, 2, 3, 4, 5, 6, 7, 8, 9, 10 }
    BY ONLY a \in 1 .. 15, <1>3
  <2>4. 16 * 2^a = 32 * 2^(a - 1)
    <3>1. CASE a = 1
      BY ONLY <3>1
    <3>2. CASE a = 2
      BY ONLY <3>2
    <3>3. CASE a = 3
      BY ONLY <3>3
    <3>4. CASE a = 4
      BY ONLY <3>4
    <3>5. CASE a = 5
      BY ONLY <3>5
    <3>6. CASE a = 6
      BY ONLY <3>6
    <3>7. CASE a = 7
      BY ONLY <3>7
    <3>8. CASE a = 8
      BY ONLY <3>8
    <3>9. CASE a = 9
      BY ONLY <3>9
    <3>10. CASE a = 10
      BY ONLY <3>10
    <3> QED BY ONLY <2>3, <3>1, <3>2, <3>3, <3>4, <3>5, <3>6, <3>7, <3>8, <3>9,
                    <3>10
  <2> QED BY <2>1, <2>2, <2>4
<1>4. CASE a \in { 11, 12, 13, 14, 15 }
  <2> DEFINE t == << 12, 16, 24, 32, 64 >>
  <2>1. BlockSize = t[a - 10] * 2048
    BY <1>2, <1>4 DEF BlockSize, New
  <2>2. Erased(f) = AllocationUnit(f)
    BY <1>1 DEF Erased
  <2>3. CASE a = 11
    BY <1>1, <2>1, <2>2, <2>3 DEF AllocationUnit
  <2>4. CASE a = 12
    BY <1>1, <2>1, <2>2, <2>4 DEF AllocationUnit
  <2>5. CASE a = 13
    BY <1>1, <2>1, <2>2, <2>5 DEF AllocationUnit
  <2>6. CASE a = 14
    BY <1>1, <2>1, <2>2, <2>6 DEF AllocationUnit
  <2>7. CASE a = 15
    BY <1>1, <2>1, <2>2, <2>7 DEF AllocationUnit
  <2> QED BY <1>4, <2>3, <2>4, <2>5, <2>6, <2>7
<1>5. a <= 10 \/ a \in { 11, 12, 13, 14, 15 }
  BY ONLY a \in 1 .. 15
<1> QED BY <1>3, <1>4, <1>5

\* The erase group of an MMC, in the two fields of its CSD.
LEMMA GroupOfMmc ==
  ASSUME NEW f \in Csds("MMC"), bytes = Sent(f), cardState = "MMC_OLD"
  PROVE  BlockSize = Erased(f)
<1>1. /\ f.form = "mmc" /\ f.erase \in 0 .. 31 /\ f.group \in 0 .. 31
      /\ f.mult % 2 \in 0 .. 1 /\ f.rest * 31 \in 0 .. 31
  BY CsdFields
<1>2. PICK x \in 0 .. 31, g \in 0 .. 31, m \in 0 .. 1, d \in 0 .. 31 :
        x = f.erase /\ g = f.group /\ m = f.mult % 2 /\ d = f.rest * 31
  BY ONLY <1>1
<1>3. PICK h \in 0 .. 3, l \in 0 .. 7 : h = g \div 8 /\ l = g % 8 /\ g = 8 * h + l
  BY ONLY g \in 0 .. 31
<1>4. /\ bytes[10] = m * 128 + (x * 4 + h)
      /\ bytes[11] = l * 32 + d
  BY <1>1, <1>2, <1>3 DEF Sent, ByteOf
<1>5. Bits(10, 2, 5) = x
  <2>1. Bits(10, 2, 5) = ((m * 128 + (x * 4 + h)) \div 4) % 32
    BY <1>4 DEF Bits
  <2>2. ((m * 128 + (x * 4 + h)) \div 4) % 32 = x
    BY ONLY m \in 0 .. 1, x \in 0 .. 31, h \in 0 .. 3
  <2> QED BY ONLY <2>1, <2>2
<1>6. Bits(10, 0, 2) = h
  <2>1. Bits(10, 0, 2) = ((m * 128 + (x * 4 + h)) \div 1) % 4
    BY <1>4 DEF Bits
  <2>2. ((m * 128 + (x * 4 + h)) \div 1) % 4 = h
    BY ONLY m \in 0 .. 1, x \in 0 .. 31, h \in 0 .. 3
  <2> QED BY ONLY <2>1, <2>2
<1>7. Bits(11, 5, 3) = l
  <2>1. Bits(11, 5, 3) = ((l * 32 + d) \div 32) % 8
    BY <1>4 DEF Bits
  <2>2. ((l * 32 + d) \div 32) % 8 = l
    BY ONLY l \in 0 .. 7, d \in 0 .. 31
  <2> QED BY ONLY <2>1, <2>2
<1>8. BlockSize = (x + 1) * (h * 8 + l + 1)
  BY <1>5, <1>6, <1>7 DEF BlockSize, New
<1>9. h * 8 + l + 1 = g + 1
  BY ONLY g \in 0 .. 31, h \in 0 .. 3, l \in 0 .. 7, <1>3
<1> QED BY <1>1, <1>2, <1>8, <1>9 DEF Erased

\* The erase sector of an older card, which lies across two bytes of its CSD.
LEMMA SectorOfOld ==
  ASSUME NEW type, NEW f \in Csds(type), f.form = "v1", bytes = Sent(f),
         cardState = "TF_OLD"
  PROVE  BlockSize = Erased(f)
<1>1. /\ f.erase \in 0 .. 127 /\ f.mult % 2 \in 0 .. 1
      /\ f.rest \in 0 .. 1
  BY CsdFields
<1>2. PICK x \in 0 .. 127, m \in 0 .. 1, r \in 0 .. 1 :
        x = f.erase /\ m = f.mult % 2 /\ r = f.rest
  BY ONLY <1>1
<1>3. PICK h \in 0 .. 63, l \in 0 .. 1 : h = x \div 2 /\ l = x % 2 /\ x = 2 * h + l
  BY ONLY x \in 0 .. 127
<1>4. /\ bytes[10] = m * 128 + (r * 64 + h)
      /\ bytes[11] = l * 128 + r * 127
  BY <1>2, <1>3 DEF Sent, ByteOf
<1>5. Bits(10, 0, 6) = h
  <2>1. Bits(10, 0, 6) = ((m * 128 + (r * 64 + h)) \div 1) % 64
    BY <1>4 DEF Bits
  <2>2. ((m * 128 + (r * 64 + h)) \div 1) % 64 = h
    BY ONLY m \in 0 .. 1, r \in 0 .. 1, h \in 0 .. 63
  <2> QED BY ONLY <2>1, <2>2
<1>6. Bits(11, 7, 1) = l
  <2>1. Bits(11, 7, 1) = ((l * 128 + r * 127) \div 128) % 2
    BY <1>4 DEF Bits
  <2>2. ((l * 128 + r * 127) \div 128) % 2 = l
    BY ONLY l \in 0 .. 1, r \in 0 .. 1
  <2> QED BY ONLY <2>1, <2>2
<1>7. BlockSize = h * 2 + l + 1
  BY <1>5, <1>6 DEF BlockSize, New
<1>8. h * 2 + l + 1 = x + 1
  BY ONLY x \in 0 .. 127, h \in 0 .. 63, l \in 0 .. 1, <1>3
<1> QED BY <1>2, <1>7, <1>8 DEF Erased

\* The number made of the register that was asked for is the right one, unless
\* it is 0.
LEMMA FoundRight ==
  ASSUME cardState \in Status, query \in { "sectors", "block" },
         register \in IF Ssr THEN Ssrs ELSE Csds(chip.type),
         bytes = Sent(register)
  PROVE  Found # 0 =>
           \/ query = "sectors" /\ Found = Capacity(register)
           \/ query = "block" /\ (Found = Erased(register) \/ ~Recognised)
<1>1. CASE query = "sectors"
  <2>1. register \in Csds(chip.type)
    BY <1>1 DEF Ssr
  <2>2. SectorCount # 0 => SectorCount = Capacity(register)
    BY <2>1, SectorsOfV1, SectorsOfV2
  <2> QED BY <1>1, <2>2 DEF Found
<1>2. CASE query = "block" /\ New
  <2>1. register \in Ssrs
    BY <1>2 DEF Ssr
  <2> QED BY <1>2, <2>1, UnitOfSsr DEF Found
<1>3. CASE query = "block" /\ ~New /\ Recognised
  <2>1. register \in Csds(chip.type)
    BY <1>3 DEF Ssr
  <2>2. CASE chip.type = "MMC"
    <3>1. cardState = "MMC_OLD"
      BY <1>3, <2>2 DEF Recognised
    <3> QED BY <1>3, <2>1, <2>2, <3>1, GroupOfMmc DEF Found
  <2>3. CASE chip.type = "SDHC"
    BY <1>3, <2>3 DEF Recognised, New
  <2>4. CASE chip.type # "MMC" /\ chip.type # "SDHC"
    <3>1. cardState = "TF_OLD"
      BY <1>3, <2>4 DEF Recognised, New
    <3>2. register.form = "v1"
      BY <2>1, <2>4, CsdFields
    <3> QED BY <1>3, <2>1, <3>1, <3>2, SectorOfOld DEF Found
  <2> QED BY <2>2, <2>3, <2>4
<1> QED BY <1>1, <1>2, <1>3

\* The queries leave the life of the card alone.
LEMMA QueriesKeepLife ==
  ASSUME LifeInv, QueryInv,
         (\E q \in { "sectors", "block" } : Ioctl(q)) \/ GeometryStep
  PROVE  LifeInv'
<1>1. UNCHANGED << cardState, persistent, loop, result >>
  BY DEF Ioctl, GeometryStep, InfoCommand, InfoToken, InfoData, InfoDataLost,
         InfoCrc, InfoFails
<1>2. pc' \in Asking \cup { "idle" }
  BY DEF Ioctl, GeometryStep, InfoCommand, InfoToken, InfoData, InfoDataLost,
         InfoCrc, InfoFails, Goto, Conclude, Asking
<1>3. call' = "info"
  BY DEF Ioctl, GeometryStep, InfoCommand, InfoToken, InfoData, InfoDataLost,
         InfoCrc, InfoFails, Goto, QueryInv, Asking
<1>4. DataOK' /\ PowerInv' /\ StatusTrustworthy' /\ AddressingRight'
  BY <1>1 DEF LifeInv, DataOK, PowerInv, StatusTrustworthy, AddressingRight,
              persistent, loop
<1>5. PlaceInv' /\ OkMeansReady'
  BY <1>2, <1>3 DEF PlaceInv, OkMeansReady, Asking, Unpublished, Places, Talking
<1> QED BY <1>4, <1>5 DEF LifeInv

\* The life of the card leaves what was found alone, or takes it along.
LEMMA LifeKeepsQueries ==
  ASSUME LifeInv, QueryInv, GeometryRight, Life
  PROVE  QueryInv' /\ GeometryRight'
<1> USE DEF Asking, Answered, Places
<1>1. CASE (Client \/ Restart) /\ Forget
  <2>1. pc' \in Places /\ pc' \notin Asking
    BY <1>1 DEF Client, Initialize, InitReturn, EjectStatus, IpcSync, Restart,
                Goto
  <2>2. status' = "none"
    BY <1>1 DEF Forget
  <2> QED BY <2>1, <2>2 DEF QueryInv, GeometryRight
<1>2. CASE DriverStep /\ UNCHANGED infoVars
  <2>1. pc \in Places \ { "idle" } /\ pc' \in Places
    BY <1>2 DEF DriverStep, InitStep, WaitReady, PowerOn, GoIdle, IfCond,
                PollHighCapacity, HighCapacityTimesOut, ReadOcr, PollLegacy,
                LegacyTimesOut, SetBlockLength, Publish, Fail, EjectPower, Goto,
                InitReturn, StartPolling
  <2>2. status # "OK"
    BY <2>1 DEF QueryInv
  <2>3. status' # "OK"
    BY <1>2, <2>2 DEF infoVars
  <2>4. pc' \notin Asking
    BY <2>1
  <2> QED BY <2>1, <2>3, <2>4 DEF QueryInv, GeometryRight
<1>3. CASE ChangeCard /\ UNCHANGED infoVars
  <2>1. ~power /\ pc' = pc /\ call' = call
    BY <1>3 DEF ChangeCard
  <2>2. pc \notin Answered /\ status # "OK"
    BY <2>1 DEF LifeInv, PowerInv, QueryInv
  <2>3. status' = status /\ query' = query
    BY <1>3 DEF infoVars
  <2> QED BY <2>1, <2>2, <2>3 DEF QueryInv, GeometryRight
<1> QED BY <1>1, <1>2, <1>3 DEF Life

\* disk_ioctl, a step at a time: it is the last that needs the register to be the
\* one that was asked for.
LEMMA QueriesKeepQueries ==
  ASSUME LifeInv, QueryInv, GeometryRight,
         (\E q \in { "sectors", "block" } : Ioctl(q)) \/ GeometryStep
  PROVE  QueryInv' /\ GeometryRight'
<1> USE DEF Asking, Answered, Places
<1>1. CASE \E q \in { "sectors", "block" } : Ioctl(q)
  <2>1. pc' = "info_command" /\ status' = "none" /\ call' = "info"
                             /\ query' \in { "sectors", "block" }
    BY <1>1 DEF Ioctl, Goto
  <2> QED BY <2>1 DEF QueryInv, GeometryRight
<1>2. CASE InfoFails
  <2>1. pc' = "idle" /\ status' = "ERROR"
    BY <1>2 DEF InfoFails, Conclude
  <2> QED BY <2>1 DEF QueryInv, GeometryRight
<1>3. CASE InfoCommand
  <2>1. /\ pc = "info_command" /\ pc' = "info_token"
        /\ chip' = chip /\ chip.state = "ready"
        /\ UNCHANGED << call, status, query >>
    BY <1>3 DEF InfoCommand, Goto, persistent, infoVars
  <2> QED BY <2>1 DEF QueryInv, GeometryRight
<1>4. CASE InfoToken
  <2>1. /\ pc = "info_token" /\ UNCHANGED << chip, call, query >>
        /\ (pc' = "info_data" /\ status' = status)
             \/ (pc' = "idle" /\ status' = "ERROR")
    BY <1>4 DEF InfoToken, Conclude, persistent, infoVars
  <2> QED BY <2>1 DEF QueryInv, GeometryRight
<1>5. CASE InfoData
  <2>1. /\ pc = "info_data" /\ pc' = "info_crc"
        /\ UNCHANGED << cardState, chip, call, query, status >>
    BY <1>5 DEF InfoData, Goto, persistent
  <2>2. register' \in (IF Ssr THEN Ssrs ELSE Csds(chip.type))
                                /\ bytes' = Sent(register')
    BY <1>5 DEF InfoData
  <2>3. Ssr' = Ssr
    BY <2>1 DEF Ssr, New
  <2> QED BY <2>1, <2>2, <2>3 DEF QueryInv, GeometryRight
<1>6. CASE InfoDataLost
  <2>1. /\ pc = "info_data" /\ pc' = "info_crc" /\ lost' = TRUE
        /\ UNCHANGED << chip, call, query, status >>
    BY <1>6 DEF InfoDataLost, Goto, persistent
  <2> QED BY <2>1 DEF QueryInv, GeometryRight
<1>7. CASE InfoCrc
  <2>1. /\ pc = "info_crc" /\ pc' = "idle" /\ value' = Found
        /\ status' = (IF Found # 0 THEN "OK" ELSE "ERROR")
        /\ UNCHANGED << cardState, power, chip, query, register, lost >>
    BY <1>7 DEF InfoCrc, Conclude, persistent
  <2>2. chip.state = "ready" /\ query \in { "sectors", "block" }
    BY <2>1 DEF QueryInv
  <2>3. power
    BY <2>2 DEF LifeInv, PowerInv
  <2>4. QueryInv'
    BY <2>1, <2>3 DEF QueryInv
  <2>5. ASSUME ~lost, Found # 0
        PROVE  \/ query = "sectors" /\ Found = Capacity(register)
               \/ query = "block" /\ (Found = Erased(register) \/ ~Recognised)
    <3>1. /\ register \in IF Ssr THEN Ssrs ELSE Csds(chip.type)
          /\ bytes = Sent(register)
      BY <2>1, <2>5 DEF QueryInv
    <3>2. cardState \in Status
      BY DEF LifeInv, DataOK
    <3> QED BY ONLY <2>2, <2>5, <3>1, <3>2, FoundRight
  <2>6. Recognised' = Recognised
    BY <2>1 DEF Recognised
  <2>7. GeometryRight'
    BY <2>1, <2>5, <2>6 DEF GeometryRight
  <2> QED BY <2>4, <2>7
<1> QED BY <1>1, <1>2, <1>3, <1>4, <1>5, <1>6, <1>7 DEF GeometryStep

LEMMA GeometryStepKeeps ==
  ASSUME GeometryInv, [GeometryNext]_geometryVars
  PROVE  GeometryInv'
<1> USE DEF GeometryInv
<1>1. CASE Life
  <2>1. [Next]_vars
    BY <1>1 DEF Life, Next
  <2>2. LifeInv'
    BY <2>1, StepKeeps, StutterKeeps
  <2> QED BY <1>1, <2>2, LifeKeepsQueries
<1>2. CASE (\E q \in { "sectors", "block" } : Ioctl(q)) \/ GeometryStep
  BY <1>2, QueriesKeepLife, QueriesKeepQueries
<1>3. CASE UNCHANGED geometryVars
  <2>1. LifeInv'
    BY <1>3, StutterKeeps DEF geometryVars
  <2>2. UNCHANGED << pc, status, call, query, chip, lost, cardState, power,
                     register, bytes, value >>
    BY <1>3 DEF geometryVars, vars, infoVars
  <2>3. QueryInv'
    BY <2>2 DEF QueryInv, Ssr, New
  <2>4. GeometryRight'
    BY <2>2 DEF GeometryRight, Recognised
  <2> QED BY <2>1, <2>3, <2>4
<1> QED BY <1>1, <1>2, <1>3 DEF GeometryNext

\* The inductive invariant of the card with the queries put to it.
THEOREM GeometryInvariant ==
  GeometrySpec => []GeometryInv
<1>1. GeometryInit => GeometryInv
  <2> SUFFICES ASSUME GeometryInit PROVE GeometryInv
    OBVIOUS
  <2>1. LifeInv
    BY InitEstablishes DEF GeometryInit
  <2> QED BY <2>1 DEF GeometryInit, Init, GeometryInv, QueryInv, GeometryRight,
                      Asking, Answered, Places
<1>2. GeometryInv /\ [GeometryNext]_geometryVars => GeometryInv'
  BY GeometryStepKeeps
<1> QED BY <1>1, <1>2, PTL DEF GeometrySpec

\* Where disk_ioctl returns RES_OK, the number it gives is the one the registers
\* of the card say, for every capacity short of 2^32 sectors, every unit and kind of
\* card, after whatever failures and changes of cards (diskio.c:637-703).
THEOREM GeometryTold ==
  GeometrySpec => []GeometryRight
<1>1. GeometryInv => GeometryRight
  BY DEF GeometryInv
<1> QED BY <1>1, GeometryInvariant, PTL

\* And what programs rely on across resets holds with queries between the other
\* calls as well (diskio.c:157-202, 208, 260-266, 306-335).
THEOREM LifeWithQueries ==
  GeometrySpec => [](StatusTrustworthy /\ OkMeansReady /\ AddressingRight)
<1>1. GeometryInv => StatusTrustworthy /\ OkMeansReady /\ AddressingRight
  BY DEF GeometryInv, LifeInv
<1> QED BY <1>1, GeometryInvariant, PTL

\* Inside a call, the number of steps left is one.
LEMMA StepsLeftType ==
  ASSUME LifeInv, QueryInv
  PROVE  /\ StepsLeft \in 0 .. 8 + 2 * MaxRetries
         /\ pc # "idle" => StepsLeft > 0
<1>1. retries \in 0 .. MaxRetries /\ MaxRetries \in Nat
  BY CardAssumption DEF LifeInv, DataOK
<1>2. pc \in Places \cup Asking
  BY DEF QueryInv
<1>3. CASE pc = "op_legacy"
  BY <1>1, <1>3 DEF StepsLeft
<1>4. CASE pc = "op_hc"
  BY <1>1, <1>4 DEF StepsLeft
<1>5. CASE pc \in { "if_cond", "go_idle", "power_on", "init_wait" }
  <2>1. PICK n \in 5 .. 8 : StepsLeft = n + 2 * MaxRetries
    BY <1>5 DEF StepsLeft
  <2>2. n + 2 * MaxRetries \in 0 .. 8 + 2 * MaxRetries /\ n + 2 * MaxRetries > 0
    BY ONLY n \in 5 .. 8, <1>1
  <2> QED BY <2>1, <2>2
<1>6. CASE pc \in { "idle", "publish", "failed", "eject_power", "info_crc",
                   "set_blocklen", "info_data", "read_ocr", "info_token",
                   "info_command" }
  <2>1. StepsLeft \in 0 .. 4 /\ (pc # "idle" => StepsLeft > 0)
    BY <1>6 DEF StepsLeft
  <2> QED BY <1>1, <2>1
<1> QED BY <1>2, <1>3, <1>4, <1>5, <1>6 DEF Places, Asking

\* Each step of the three calls, one by one.
LEMMA CallStepAdvances ==
  ASSUME LifeInv, DriverStep \/ GeometryStep
  PROVE  StepsLeft' < StepsLeft
<1> USE DEF Goto, InitReturn, StepsLeft
<1>1. retries \in 0 .. MaxRetries /\ MaxRetries \in Nat \ { 0 }
  BY CardAssumption DEF LifeInv, DataOK
<1>2. CASE WaitReady \/ PowerOn \/ GoIdle
  BY <1>1, <1>2 DEF WaitReady, PowerOn, GoIdle
<1>3. CASE IfCond
  BY <1>1, <1>3 DEF IfCond, StartPolling
<1>4. CASE PollHighCapacity \/ HighCapacityTimesOut
  BY <1>1, <1>4 DEF PollHighCapacity, HighCapacityTimesOut, StartPolling
<1>5. CASE ReadOcr \/ SetBlockLength \/ Publish \/ Fail \/ EjectPower
  BY <1>1, <1>5 DEF ReadOcr, SetBlockLength, Publish, Fail, EjectPower
<1>6. CASE PollLegacy \/ LegacyTimesOut
  BY <1>1, <1>6 DEF PollLegacy, LegacyTimesOut
<1>7. CASE GeometryStep
  BY <1>1, <1>7 DEF GeometryStep, InfoCommand, InfoToken, InfoData, InfoDataLost,
                    InfoCrc, InfoFails, Conclude
<1> QED BY <1>2, <1>3, <1>4, <1>5, <1>6, <1>7 DEF DriverStep, InitStep

\* Every call of the card's life ends after a bounded number of commands, with
\* whatever answers, changes of card and resets between: the loops of
\* disk_initialize cannot hand each other new retries (diskio.c:233-304).
THEOREM CardCallsEnd ==
  GeometrySpec => CallsAdvance /\ [](StepsLeft <= 8 + 2 * MaxRetries)
<1>1. GeometryInv /\ [GeometryNext]_geometryVars =>
        [ pc # "idle" => \/ StepsLeft' < StepsLeft
                         \/ ChangeCard /\ StepsLeft' = StepsLeft ]_geometryVars
  <2> SUFFICES ASSUME GeometryInv, GeometryNext, pc # "idle"
               PROVE  \/ StepsLeft' < StepsLeft
                      \/ ChangeCard /\ StepsLeft' = StepsLeft
    OBVIOUS
  <2>1. StepsLeft \in Nat /\ StepsLeft > 0
    BY StepsLeftType, CardAssumption DEF GeometryInv, CardAssumption
  <2>2. CASE Client \/ \E q \in { "sectors", "block" } : Ioctl(q)
    BY <2>2 DEF Client, Initialize, EjectStatus, IpcSync, Ioctl, Goto
  <2>3. CASE Restart
    <3>1. StepsLeft' = 0
      BY <2>3 DEF Restart, StepsLeft
    <3> QED BY <2>1, <3>1
  <2>4. CASE ChangeCard
    BY <2>4 DEF ChangeCard, StepsLeft, loop
  <2>5. CASE DriverStep \/ GeometryStep
    BY <2>5, CallStepAdvances DEF GeometryInv
  <2> QED BY <2>2, <2>3, <2>4, <2>5 DEF GeometryNext, Life
<1>2. GeometryInv => StepsLeft <= 8 + 2 * MaxRetries
  BY StepsLeftType, CardAssumption DEF GeometryInv, CardAssumption
<1> QED BY <1>1, <1>2, GeometryInvariant, PTL DEF GeometrySpec, CallsAdvance

----------------------------------------------------------------------------
(***************************************************************************)
(* The bank masks (Banks), beside the card: the proof is for registers,    *)
(* masks and locks of any value.  None of the parts of BanksInv is         *)
(* inductive without the others.                                           *)
(***************************************************************************)
VARIABLES reg, rom, ram, lock, at, shown, fit   \* as in Banks, pc as at

Bank == INSTANCE Banks WITH pc <- at

\* Before the first call.
LEMMA BanksInit == Bank!Init => Bank!BanksInv
  BY DEF Bank!Init, Bank!BanksInv, Bank!TypeOK, Bank!FitInv, Bank!MaskedInv,
         Bank!BanksKept, Bank!ClearPCs, Bank!UnlockPCs,
         Bank!Windows, Bank!Lockable

\* A call begins.
LEMMA BeginKeepsBanks ==
    ASSUME Bank!BanksInv, NEW next \in { "clear_ram", "unlock_ram", "lock" },
           NEW windows \in SUBSET Bank!Windows, Bank!Begin(next, windows),
           \A w \in windows : Bank!Fits(w) \/ (w = "ROML" /\ next # "clear_ram")
    PROVE  Bank!BanksInv'
<1> USE DEF Bank!Begin, Bank!BanksInv, Bank!ClearPCs, Bank!UnlockPCs
<1>1. Bank!TypeOK'
  <2>1. \A w \in Bank!Windows, a \in SUBSET Bank!Linear :
            Bank!Shows(w, a) \in (SUBSET (0 .. 15)) \X (SUBSET Bank!Linear)
    BY DEF Bank!TypeOK, Bank!Shows, Bank!MaskOf, Bank!RomlMask, Bank!Windows,
           Bank!Lockable, Bank!RomMask, Bank!RamMask, Bank!Linear
  <2> QED BY <2>1 DEF Bank!TypeOK
<1>2. Bank!FitInv'
  BY DEF Bank!FitInv, Bank!Fits, Bank!MaskOf
<1>3. Bank!MaskedInv'
  BY DEF Bank!MaskedInv
<1>4. Bank!BanksKept'
  BY DEF Bank!BanksKept, Bank!Shows, Bank!MaskOf, Bank!RomlMask, Bank!TypeOK
<1> QED BY <1>1, <1>2, <1>3, <1>4

\* It masks a register.
LEMMA MaskKeepsBanks ==
    ASSUME Bank!BanksInv, NEW w \in Bank!Windows, NEW from, NEW to,
           Bank!Mask(w, from, to),
           << w, from, to >> \in
              { << "RAM",  "clear_ram",   "clear_rom0" >>,
                << "ROM0", "clear_rom0",  "clear_rom1" >>,
                << "ROM1", "clear_rom1",  "clear_roml" >>,
                << "ROML", "clear_roml",  "clear_mask" >>,
                << "RAM",  "unlock_ram",  "unlock_rom0" >>,
                << "ROM0", "unlock_rom0", "unlock_rom1" >>,
                << "ROM1", "unlock_rom1", "unlock_mask" >> }
    PROVE  Bank!BanksInv'
<1> USE DEF Bank!Mask, Bank!BanksInv, Bank!ClearPCs, Bank!UnlockPCs, Bank!Windows,
            Bank!Lockable
<1>1. Bank!TypeOK'
  BY DEF Bank!TypeOK, Bank!MaskOf
<1>2. Bank!FitInv'
  BY DEF Bank!FitInv, Bank!Fits, Bank!MaskOf, Bank!TypeOK
<1>3. Bank!MaskedInv'
  BY DEF Bank!MaskedInv, Bank!MaskOf, Bank!RomlMask, Bank!TypeOK
<1>4. Bank!BanksKept'
  <2> SUFFICES ASSUME NEW v \in fit, NEW a \in SUBSET Bank!Linear
               PROVE  Bank!Shows(v, a)' = Bank!Shows(v, a)
    BY DEF Bank!BanksKept, Bank!TypeOK
  <2>1. CASE v = "ROML"
    BY <2>1 DEF Bank!Shows, Bank!RomlMask, Bank!MaskOf, Bank!TypeOK
  <2>2. CASE v # "ROML"
    <3>1. v \in lock \/ reg[v] \subseteq Bank!MaskOf(v)
      BY <2>2 DEF Bank!FitInv, Bank!Fits
    <3>2. Bank!Shows(v, a)'
          = << IF v \in lock THEN reg'[v] \cap Bank!MaskOf(v) ELSE reg'[v], {} >>
      <4> HIDE DEF Bank!BanksInv, Bank!ClearPCs, Bank!UnlockPCs, Bank!Windows,
                   Bank!Lockable
      <4>1. lock' = lock /\ Bank!MaskOf(v)' = Bank!MaskOf(v)
        BY Zenon DEF Bank!MaskOf
      <4>2. Bank!Shows(v, a)'
          = << IF v \in lock' THEN reg'[v] \cap Bank!MaskOf(v)' ELSE reg'[v], {} >>
        BY <2>2, Zenon DEF Bank!Shows
      <4> QED BY <4>1, <4>2, Zenon
    <3>3. reg'[v] = IF v = w THEN reg[v] \cap Bank!MaskOf(v) ELSE reg[v]
      BY <2>2 DEF Bank!TypeOK
    <3> QED BY <2>2, <3>1, <3>2, <3>3 DEF Bank!Shows
  <2> QED BY <2>1, <2>2
<1> QED BY <1>1, <1>2, <1>3, <1>4

\* The masks are opened.
LEMMA ClearEndsKeepsBanks == Bank!BanksInv /\ Bank!ClearEnds => Bank!BanksInv'
<1> SUFFICES ASSUME Bank!BanksInv, Bank!ClearEnds PROVE Bank!BanksInv'
  OBVIOUS
<1> USE DEF Bank!ClearEnds, Bank!BanksInv, Bank!ClearPCs, Bank!UnlockPCs, Bank!Windows,
            Bank!Lockable
<1>1. Bank!TypeOK' /\ Bank!FitInv' /\ Bank!MaskedInv'
  BY DEF Bank!TypeOK, Bank!FitInv, Bank!MaskedInv
<1>2. Bank!BanksKept'
  <2> SUFFICES ASSUME NEW w \in fit, NEW a \in SUBSET Bank!Linear
               PROVE  Bank!Shows(w, a)' = Bank!Shows(w, a)
    BY DEF Bank!BanksKept, Bank!TypeOK
  <2>1. CASE w = "ROML"
    BY <2>1 DEF Bank!FitInv, Bank!Fits, Bank!MaskedInv, Bank!Shows, Bank!RomlMask,
                Bank!RomMask, Bank!Linear, Bank!TypeOK
  <2>2. CASE w # "ROML"
    BY <2>2 DEF Bank!FitInv, Bank!Fits, Bank!MaskedInv, Bank!Shows, Bank!MaskOf,
                Bank!RomMask, Bank!RamMask, Bank!TypeOK
  <2> QED BY <2>1, <2>2
<1> QED BY <1>1, <1>2

\* The locks are taken off.
LEMMA UnlockEndsKeepsBanks == Bank!BanksInv /\ Bank!UnlockEnds => Bank!BanksInv'
<1> SUFFICES ASSUME Bank!BanksInv, Bank!UnlockEnds PROVE Bank!BanksInv'
  OBVIOUS
<1> USE DEF Bank!UnlockEnds, Bank!BanksInv, Bank!ClearPCs, Bank!UnlockPCs,
            Bank!Windows, Bank!Lockable
<1>1. Bank!TypeOK' /\ Bank!FitInv' /\ Bank!MaskedInv'
  BY DEF Bank!TypeOK, Bank!FitInv, Bank!MaskedInv
<1>2. Bank!BanksKept'
  BY DEF Bank!BanksKept, Bank!FitInv, Bank!Fits, Bank!MaskedInv, Bank!Shows,
         Bank!MaskOf, Bank!RomlMask, Bank!TypeOK
<1> QED BY <1>1, <1>2

\* The locks are set.
LEMMA LockEndsKeepsBanks == Bank!BanksInv /\ Bank!LockEnds => Bank!BanksInv'
<1> SUFFICES ASSUME Bank!BanksInv, Bank!LockEnds PROVE Bank!BanksInv'
  OBVIOUS
<1> USE DEF Bank!LockEnds, Bank!BanksInv, Bank!ClearPCs, Bank!UnlockPCs, Bank!Windows,
            Bank!Lockable
<1>1. Bank!TypeOK' /\ Bank!FitInv' /\ Bank!MaskedInv'
  BY DEF Bank!TypeOK, Bank!FitInv, Bank!MaskedInv
<1>2. Bank!BanksKept'
  <2> SUFFICES ASSUME NEW w \in fit, NEW a \in SUBSET Bank!Linear
               PROVE  Bank!Shows(w, a)' = Bank!Shows(w, a)
    BY DEF Bank!BanksKept, Bank!TypeOK
  <2>1. CASE w = "ROML"
    BY <2>1 DEF Bank!Shows, Bank!RomlMask
  <2>2. CASE w # "ROML"
    BY <2>2 DEF Bank!FitInv, Bank!Fits, Bank!Shows, Bank!MaskOf, Bank!TypeOK
  <2> QED BY <2>1, <2>2
<1> QED BY <1>1, <1>2

\* No step breaks the invariant.
LEMMA BanksStep == Bank!BanksInv /\ [Bank!Next]_(Bank!vars) => Bank!BanksInv'
<1> SUFFICES ASSUME Bank!BanksInv, [Bank!Next]_(Bank!vars) PROVE Bank!BanksInv'
  OBVIOUS
<1>1. CASE Bank!ClearMask
  BY <1>1, BeginKeepsBanks DEF Bank!ClearMask
<1>2. CASE Bank!Unlock
  BY <1>2, BeginKeepsBanks DEF Bank!Unlock
<1>3. CASE Bank!Lock
  BY <1>3, BeginKeepsBanks DEF Bank!Lock
<1>4. CASE Bank!SetBank
  BY <1>4 DEF Bank!SetBank, Bank!BanksInv, Bank!TypeOK, Bank!FitInv, Bank!MaskedInv,
              Bank!BanksKept, Bank!ClearPCs, Bank!UnlockPCs
<1>5. CASE Bank!ClearRam \/ Bank!ClearRom0 \/ Bank!ClearRom1 \/ Bank!ClearRoml
  BY <1>5, MaskKeepsBanks DEF Bank!ClearRam, Bank!ClearRom0, Bank!ClearRom1,
                              Bank!ClearRoml, Bank!Windows, Bank!Lockable
<1>6. CASE Bank!UnlockRam \/ Bank!UnlockRom0 \/ Bank!UnlockRom1
  BY <1>6, MaskKeepsBanks DEF Bank!UnlockRam, Bank!UnlockRom0, Bank!UnlockRom1,
                              Bank!Windows, Bank!Lockable
<1>7. CASE Bank!ClearEnds
  BY <1>7, ClearEndsKeepsBanks
<1>8. CASE Bank!UnlockEnds
  BY <1>8, UnlockEndsKeepsBanks
<1>9. CASE Bank!LockEnds
  BY <1>9, LockEndsKeepsBanks
<1>10. CASE UNCHANGED Bank!vars
  BY <1>10 DEF Bank!vars, Bank!BanksInv, Bank!TypeOK, Bank!FitInv, Bank!MaskedInv,
               Bank!BanksKept, Bank!Fits, Bank!Shows,
               Bank!MaskOf, Bank!RomlMask
<1> QED BY <1>1, <1>2, <1>3, <1>4, <1>5, <1>6, <1>7, <1>8, <1>9, <1>10 DEF Bank!Next

\* Clearing, opening and closing the masks never changes the bank that a window
\* shows (src/core/fpga/nile_bank.c), whatever the masks, the locks and the
\* registers are and whenever somebody looks.
THEOREM BanksStay == Bank!Spec => []Bank!BanksKept
<1>1. Bank!BanksInv => Bank!BanksKept
  BY DEF Bank!BanksInv
<1> QED BY BanksInit, BanksStep, <1>1, PTL DEF Bank!Spec

=============================================================================
