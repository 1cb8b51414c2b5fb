--------------------------- MODULE CardLifecycle ---------------------------
(***************************************************************************)
(* The TF card from power-up to eject (src/storage/diskio.c):              *)
(* disk_initialize, nilefs_eject, nilefs_ipc_sync and disk_status, with    *)
(* the two things that outlive the program: the card's power, and the      *)
(* status byte in IPC memory from which the next program learns that the   *)
(* card is initialised already.                                            *)
(*                                                                         *)
(* One step is one command to the card or one access to what outlives the  *)
(* program, because the console may be reset between any two of them.      *)
(***************************************************************************)
EXTENDS Naturals

CONSTANTS
    Cards,          \* what may sit in the slot
    MaxRetries,     \* MAX_RETRIES
    Faults          \* the exchanges that may fail

AllCards  == { "empty", "MMC", "SDSC1", "SDSC2", "SDHC" }
Commands  == { "GO_IDLE_STATE", "SEND_IF_COND", "APP_SEND_OP_COND_HCS",
               "APP_SEND_OP_COND", "SEND_OP_COND", "READ_OCR",
               "SET_BLOCKLEN" }
AllFaults == Commands \cup { "spi", "pattern" }

ASSUME CardAssumption ==
    /\ Cards \subseteq AllCards
    /\ MaxRetries \in Nat \ { 0 }
    /\ Faults \subseteq AllFaults

VARIABLES
    cardState,      \* card_state
    ipc,            \* MEM_NILE_IPC->tf_card_status
    power,          \* NILE_POW_TF
    chip,           \* the card in the slot
    pc,             \* what the CPU does next
    retries,        \* of the loop that waits for the card
    initCommand,    \* the command that loop sends
    call,           \* the current or last call
    result          \* what the last disk_initialize returned

persistent == << ipc, power, chip >>
loop == << retries, initCommand >>
vars == << cardState, ipc, power, chip, pc, retries, initCommand, call,
           result >>

\* The values of card_state; NILE_IPC_TF_BLOCK is set in the last one only.
Status == { "none", "MMC_OLD", "TF_OLD", "TF_NEW", "TF_NEW_BLOCK" }

Places == { "idle", "init_wait", "power_on", "go_idle", "if_cond", "op_hc",
            "read_ocr", "op_legacy", "set_blocklen", "publish", "failed",
            "eject_power" }

Chips == [ type : Cards, blocklen : BOOLEAN,
           state : { "off", "native", "idle", "ready" } ]

\* Of everything but the place and the call: CardGeometry has more of these.
DataOK ==
    /\ cardState \in Status
    /\ ipc \in Status
    /\ power \in BOOLEAN
    /\ chip \in Chips
    /\ retries \in 0 .. MaxRetries
    /\ initCommand \in { "APP_SEND_OP_COND", "SEND_OP_COND" }
    /\ result \in { "OK", "NOINIT" }

TypeOK ==
    /\ DataOK
    /\ pc \in Places
    /\ call \in { "none", "init", "eject", "sync" }

\* The console has just been switched on.
Init ==
    /\ cardState = "none"
    /\ ipc \in Status
    /\ power = FALSE
    /\ chip \in [ type : Cards, blocklen : { FALSE }, state : { "off" } ]
    /\ pc = "idle"
    /\ retries = 0
    /\ initCommand = "APP_SEND_OP_COND"
    /\ call = "none"
    /\ result = "NOINIT"

Goto(from, to) ==
    /\ pc = from
    /\ pc' = to

----------------------------------------------------------------------------
(***************************************************************************)
(* The card.                                                               *)
(***************************************************************************)
Unpowered(c) == [ c EXCEPT !.state = "off", !.blocklen = FALSE ]

Ready(c) == [ c EXCEPT !.state = "ready" ]

Answer(resp, c) == [ resp |-> resp, chip |-> c ]

\* A card that is initialising says idle as often as it likes, then ok.  One of
\* high capacity never gets there for a host that does not claim to know it.
Polled(c, knows) ==
    IF knows THEN { Answer("idle", c), Answer("ok", Ready(c)) }
    ELSE { Answer(IF c.state = "ready" THEN "ok" ELSE "idle", c) }

Outcomes(cmd, c) ==
    IF c.type = "empty" THEN { Answer("error", c) }
    ELSE CASE cmd = "GO_IDLE_STATE" ->
                 { Answer("idle", [ c EXCEPT !.state = "idle", !.blocklen = FALSE ]) }
           [] cmd = "SEND_IF_COND" ->
                 { Answer(IF c.type \in { "SDSC2", "SDHC" } THEN "idle" ELSE "error", c) }
           [] cmd = "APP_SEND_OP_COND_HCS" -> Polled(c, TRUE)
           [] cmd = "APP_SEND_OP_COND" ->
                 IF c.type = "MMC" THEN { Answer("error", c) }
                                   ELSE Polled(c, c.type # "SDHC")
           [] cmd = "SEND_OP_COND" -> Polled(c, c.type # "SDHC")
           [] cmd = "READ_OCR" -> { Answer("ok", c) }
           [] cmd = "SET_BLOCKLEN" -> { Answer("ok", [ c EXCEPT !.blocklen = TRUE ]) }

\* nile_tf_command: an exchange that fails may have reached the card.
Answers(cmd) ==
    LET out == Outcomes(cmd, chip) IN
    out \cup IF cmd \in Faults
             THEN { Answer("error", c) : c \in { chip } \cup { a.chip : a \in out } }
             ELSE { }

\* Mutant: the status is believed whether or not the card has power.
SyncUnpowered == cardState' = ipc /\ UNCHANGED ipc

\* The status is believed while the card has power, and cleared otherwise.
SyncStatus ==
    \/ power /\ cardState' = ipc /\ UNCHANGED ipc
    \/ ~power /\ cardState' = "none" /\ ipc' = "none"

----------------------------------------------------------------------------
(***************************************************************************)
(* disk_initialize.                                                        *)
(***************************************************************************)
InitReturn(value) ==
    /\ pc' = "idle"
    /\ result' = value

Initialize ==
    /\ pc = "idle"
    /\ call' = "init"
    /\ SyncStatus
    /\ IF cardState' # "none" THEN InitReturn("OK")
                              ELSE pc' = "init_wait" /\ UNCHANGED result
    /\ UNCHANGED << power, chip, loop >>

WaitReady ==
    /\ \/ Goto("init_wait", "power_on") /\ UNCHANGED result
       \/ pc = "init_wait" /\ "spi" \in Faults /\ InitReturn("NOINIT")
    /\ UNCHANGED << cardState, persistent, loop, call >>

PowerOn ==
    /\ Goto("power_on", "go_idle")
    /\ power' = TRUE
    /\ chip' = IF power THEN chip ELSE [ chip EXCEPT !.state = "native" ]
    /\ UNCHANGED << cardState, ipc, loop, call, result >>

StartPolling(next) ==
    /\ pc' = next
    /\ retries' = MaxRetries
    /\ initCommand' = "APP_SEND_OP_COND"

GoIdle ==
    /\ pc = "go_idle"
    /\ \E a \in Answers("GO_IDLE_STATE") :
          /\ chip' = a.chip
          /\ pc' = IF a.resp = "error" THEN "failed" ELSE "if_cond"
    /\ UNCHANGED << cardState, ipc, power, loop, call, result >>

IfCond ==
    /\ pc = "if_cond"
    /\ \E a \in Answers("SEND_IF_COND") :
          /\ chip' = a.chip
          /\ \/ a.resp = "error" /\ StartPolling("op_legacy")
             \/ a.resp # "error" /\ StartPolling("op_hc")
             \/ /\ a.resp # "error"
                /\ "pattern" \in Faults
                /\ pc' = "failed"
                /\ UNCHANGED loop
    /\ UNCHANGED << cardState, ipc, power, call, result >>

PollHighCapacity ==
    /\ pc = "op_hc"
    /\ retries > 1
    /\ \E a \in Answers("APP_SEND_OP_COND_HCS") :
          /\ chip' = a.chip
          /\ \/ a.resp = "error" /\ StartPolling("op_legacy") /\ UNCHANGED cardState
             \/ /\ a.resp = "ok"
                /\ cardState' = "TF_NEW"
                /\ pc' = "read_ocr"
                /\ retries' = retries - 1
                /\ UNCHANGED initCommand
             \/ /\ a.resp = "idle"
                /\ retries' = retries - 1
                /\ UNCHANGED << cardState, pc, initCommand >>
    /\ UNCHANGED << ipc, power, call, result >>

\* Out of retries: the card is tried as an older one.
HighCapacityTimesOut ==
    /\ pc = "op_hc"
    /\ retries <= 1
    /\ StartPolling("op_legacy")
    /\ UNCHANGED << cardState, persistent, call, result >>

\* Mutant: the status is published before the block length is set.
PublishEarly ==
    /\ pc = "read_ocr"
    /\ ipc' = "TF_NEW"
    /\ pc' = "set_blocklen"
    /\ cardState' = "TF_NEW"
    /\ UNCHANGED << power, chip, loop, call, result >>

\* Mutant: every card that has an OCR is addressed in blocks.
ReadOcrUnread ==
    /\ Goto("read_ocr", "set_blocklen")
    /\ \E a \in Answers("READ_OCR") :
          /\ chip' = a.chip
          /\ cardState' = IF a.resp = "ok" THEN "TF_NEW_BLOCK" ELSE cardState
    /\ UNCHANGED << ipc, power, loop, call, result >>

\* A card whose OCR cannot be read is taken for one addressed in bytes.
ReadOcr ==
    /\ Goto("read_ocr", "set_blocklen")
    /\ \E a \in Answers("READ_OCR") :
          /\ chip' = a.chip
          /\ cardState' = IF a.resp = "ok" /\ chip.type = "SDHC"
                          THEN "TF_NEW_BLOCK" ELSE cardState
    /\ UNCHANGED << ipc, power, loop, call, result >>

PollLegacy ==
    /\ pc = "op_legacy"
    /\ retries > 1
    /\ \E a \in Answers(initCommand) :
          /\ chip' = a.chip
          /\ \/ /\ a.resp = "error"
                /\ IF initCommand = "APP_SEND_OP_COND"
                   THEN /\ initCommand' = "SEND_OP_COND"
                        /\ retries' = retries - 1
                        /\ UNCHANGED pc
                   ELSE /\ pc' = "failed"
                        /\ retries' = 0
                        /\ UNCHANGED initCommand
                /\ UNCHANGED cardState
             \/ /\ a.resp = "ok"
                /\ cardState' = IF initCommand = "APP_SEND_OP_COND"
                                THEN "TF_OLD" ELSE "MMC_OLD"
                /\ pc' = "set_blocklen"
                /\ retries' = retries - 1
                /\ UNCHANGED initCommand
             \/ /\ a.resp = "idle"
                /\ retries' = retries - 1
                /\ UNCHANGED << cardState, pc, initCommand >>
    /\ UNCHANGED << ipc, power, call, result >>

\* Mutant: a loop that runs out of retries gets new ones.
LegacyRenewed ==
    /\ pc = "op_legacy"
    /\ retries <= 1
    /\ retries' = MaxRetries
    /\ UNCHANGED << cardState, persistent, pc, initCommand, call, result >>

LegacyTimesOut ==
    /\ Goto("op_legacy", "failed")
    /\ retries <= 1
    /\ retries' = 0
    /\ UNCHANGED << cardState, persistent, initCommand, call, result >>

SetBlockLength ==
    /\ pc = "set_blocklen"
    /\ \E a \in Answers("SET_BLOCKLEN") :
          /\ chip' = a.chip
          /\ pc' = IF a.resp = "ok" THEN "publish" ELSE "failed"
    /\ UNCHANGED << cardState, ipc, power, loop, call, result >>

\* What follows, the change of clocks, returns 0 even when it fails.
Publish ==
    /\ pc = "publish"
    /\ ipc' = cardState
    /\ InitReturn("OK")
    /\ UNCHANGED << cardState, power, chip, loop, call >>

\* card_init_failed.
Fail ==
    /\ pc = "failed"
    /\ power' = FALSE
    /\ chip' = Unpowered(chip)
    /\ InitReturn("NOINIT")
    /\ UNCHANGED << cardState, ipc, loop, call >>

----------------------------------------------------------------------------
(***************************************************************************)
(* nilefs_eject and nilefs_ipc_sync.                                       *)
(***************************************************************************)
EjectStatus ==
    /\ Goto("idle", "eject_power")
    /\ call' = "eject"
    /\ cardState' = "none"
    /\ ipc' = "none"
    /\ UNCHANGED << power, chip, loop, result >>

EjectPower ==
    /\ Goto("eject_power", "idle")
    /\ power' = FALSE
    /\ chip' = Unpowered(chip)
    /\ UNCHANGED << cardState, ipc, loop, call, result >>

IpcSync ==
    /\ pc = "idle"
    /\ call' = "sync"
    /\ SyncStatus
    /\ UNCHANGED << power, chip, pc, loop, result >>

----------------------------------------------------------------------------
(***************************************************************************)
(* What happens around the library.                                        *)
(***************************************************************************)
\* Another program starts, at any time; card_state is its own, and zero.
\* nile_soft_reset rewrites the power register on the way, other ways of
\* starting a program leave it alone.
Restart ==
    /\ pc' = "idle"
    /\ cardState' = "none"
    /\ call' = "none"
    /\ result' = "NOINIT"
    /\ \/ UNCHANGED << power, chip >>
       \/ power' = FALSE /\ chip' = Unpowered(chip)
    /\ UNCHANGED << ipc, loop >>

\* The user changes the card while its slot has no power.
ChangeCard ==
    /\ ~power
    /\ chip' \in [ type : Cards, blocklen : { FALSE }, state : { "off" } ]
    /\ UNCHANGED << cardState, ipc, power, pc, loop, call, result >>

InitStep ==
    \/ WaitReady \/ PowerOn \/ GoIdle \/ IfCond \/ PollHighCapacity
    \/ HighCapacityTimesOut \/ ReadOcr \/ PollLegacy \/ LegacyTimesOut
    \/ SetBlockLength \/ Publish \/ Fail

DriverStep == InitStep \/ EjectPower

Client == Initialize \/ EjectStatus \/ IpcSync

Next == Client \/ DriverStep \/ Restart \/ ChangeCard

Spec == Init /\ [][Next]_vars

\* The CPU keeps executing.
FairSpec == Spec /\ WF_vars(DriverStep)

----------------------------------------------------------------------------
(***************************************************************************)
(* What a program, and the one after it, rely on.                          *)
(***************************************************************************)
\* The status byte is never believed wrongly: at every moment at which a
\* program could be started, a card that has power and a status was initialised
\* completely since it got that power.
StatusTrustworthy ==
    power /\ ipc # "none" =>
        chip.type # "empty" /\ chip.state = "ready" /\ chip.blocklen

\* disk_initialize returning 0 leaves a card that takes transfers, also when it
\* believed what another program left behind.
OkMeansReady ==
    ( pc = "idle" /\ call = "init" /\ result = "OK" ) =>
        power /\ chip.state = "ready" /\ chip.blocklen

\* A card is addressed in blocks only if it wants to be, whatever was in the slot
\* before it, whichever program asked and whatever failed.
AddressingRight ==
    power /\ "TF_NEW_BLOCK" \in { cardState, ipc } => chip.type = "SDHC"

\* Every call returns, unless the console is reset under it, whatever the card
\* answers.
CallReturns == pc # "idle" ~> pc = "idle"

----------------------------------------------------------------------------
(***************************************************************************)
(* The inductive invariant: what holds at each place of disk_initialize    *)
(* and nilefs_eject that makes the status byte trustworthy between them.   *)
(***************************************************************************)
\* Places at which disk_initialize has found no status, and stored none.
Unpublished == Places \ { "idle" }

\* Places at which it talks to the card.
Talking == { "go_idle", "if_cond", "op_hc", "read_ocr", "op_legacy",
             "set_blocklen", "publish", "failed" }

\* The slot's power and the card's state go together.
PowerInv == /\ power <=> chip.state # "off"
            /\ ~power => ~chip.blocklen

PlaceInv ==
    /\ pc \in Unpublished => ipc = "none"
    /\ pc \in { "init_wait", "power_on" } => cardState = "none"
    /\ pc \in Talking => power
    /\ pc \in { "read_ocr", "set_blocklen", "publish" } =>
          chip.state = "ready" /\ chip.type # "empty"
    /\ pc = "publish" => chip.blocklen
    /\ pc = "eject_power" => call = "eject"

\* The status byte, the power and the card agree at every place a reset may hit.
LifeInv ==
    /\ DataOK
    /\ PowerInv
    /\ PlaceInv
    /\ StatusTrustworthy
    /\ OkMeansReady
    /\ AddressingRight

=============================================================================
