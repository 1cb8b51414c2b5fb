--------------------------------- MODULE Mcu ---------------------------------
(***************************************************************************)
(* The MCU and the routines that talk to it: its reset                     *)
(* (src/core/mcu/nile_mcu_reset.c), which starts the firmware or the boot  *)
(* loader, composed with the native protocol that the firmware speaks      *)
(* (McuNative) and the one the boot loader speaks (McuBoot), over one SPI  *)
(* link.  A program uses the protocol of what it started last.             *)
(***************************************************************************)
EXTENDS SpiLink

CONSTANTS
    Rooms, Lengths, Flags,              \* as in McuNative
    Sizes, Sectors, Counts,             \* as in McuBoot
    CountMod, AllCounts, RetryMod,
    Rev4,           \* LIBNILE_PCB_REV4
    MaxCalls        \* bound: calls in a behaviour

ASSUME NativeAssumption ==
    /\ Rooms \subseteq Nat
    /\ Lengths \subseteq Nat
    /\ Flags \subseteq -16 .. 15           \* five bits

ASSUME BootAssumption ==
    /\ Sizes \subseteq Nat \ { 0 }
    /\ CountMod \in Nat
    /\ AllCounts \in 1 .. CountMod - 1
    /\ Sectors \subseteq 0 .. CountMod - 1
    /\ Counts \subseteq 1 .. CountMod - 1   \* not 0: it is sent as CountMod - 1
    /\ RetryMod \in Nat \ { 0 }

ASSUME McuAssumption ==
    /\ Rev4 \in BOOLEAN
    /\ MaxCalls \in Nat

VARIABLES
    pc, calls, result, intact,                          \* of both protocols
    call, room, left, buffer, answer, saved, firm,      \* as in McuNative
    op, todo, retries, data, loader,                    \* as in McuBoot
    want,       \* to_bootloader; FALSE when a reset has come to nothing
    speaks,     \* what the last reset that was done was to start
    boot0,      \* the level of the pin that decides what a reset starts
    runs        \* what the MCU runs: "firmware" or "loader"

shared      == << pc, calls, result, intact >>
nativeOnly  == << call, room, left, buffer, answer, saved, firm >>
bootOnly    == << op, todo, retries, data, loader >>
resetOnly   == << want, speaks, boot0, runs >>
vars == << link, shared, nativeOnly, bootOnly, resetOnly >>

Native == INSTANCE McuNative
Boot   == INSTANCE McuBoot

----------------------------------------------------------------------------
(***************************************************************************)
(* nile_mcu_reset.                                                         *)
(***************************************************************************)
Reset(to_bootloader) ==
    /\ pc = "idle"
    /\ calls < MaxCalls
    /\ pc' = "reset"
    /\ want' = to_bootloader
    /\ result' = << "none" >>
    /\ UNCHANGED << link, calls, intact, nativeOnly, bootOnly, speaks,
                    boot0, runs >>

\* Nothing has been done then; what was in flight still is.  The argument of the
\* call is gone.
ResetTimesOut ==
    /\ pc = "reset"
    /\ Busy
    /\ pc' = "idle"
    /\ result' = << "false" >>
    /\ want' = FALSE
    /\ UNCHANGED << link, calls, intact, nativeOnly, bootOnly, speaks, boot0,
                    runs >>

\* Mutant: the pin is set without waiting for what is in flight.
BootPinUnwaited ==
    /\ pc = "reset"
    /\ pc' = "reset_low"
    /\ boot0' = want
    /\ IF Rev4 THEN SetControl(IF want THEN "none" ELSE "MCU")
               ELSE UNCHANGED << idx, device >>
    /\ UNCHANGED << tx, rx, flight, calls, result, intact, nativeOnly, bootOnly,
                    want, speaks, runs >>

\* BOOT0 is a pin of its own, or the line that is high when no device is
\* selected.
BootPin ==
    /\ pc = "reset"
    /\ ~Busy
    /\ pc' = "reset_low"
    /\ boot0' = want
    /\ IF Rev4 THEN SetControl(IF want THEN "none" ELSE "MCU")
               ELSE UNCHANGED << idx, device >>
    /\ UNCHANGED << tx, rx, flight, calls, result, intact, nativeOnly, bootOnly,
                    want, speaks, runs >>

\* RESET goes low and high.  What the program held of answers to come is of no
\* more use to it.
Restarted ==
    /\ speaks' = IF want THEN "loader" ELSE "firmware"
    /\ runs' = IF boot0 THEN "loader" ELSE "firmware"
    /\ firm' = Native!Fresh
    /\ loader' = Boot!Booted
    /\ call' = Native!NoCall
    /\ room' = 0
    /\ left' = 0
    /\ buffer' = << >>
    /\ answer' = Native!NoAnswer
    /\ saved' = << 0, "none" >>
    /\ retries' = 0
    /\ data' = << >>
    /\ op' = Boot!NoOp
    /\ intact' = TRUE
    /\ tx' = Forgotten(tx, Filler)
    /\ rx' = Forgotten(rx, << Filler >>)

\* The boot loader is sent the byte it starts with, and its answer awaited.
Restart ==
    /\ pc = "reset_low"
    /\ Restarted
    /\ boot0' = FALSE
    /\ IF want
       THEN /\ pc' = "boot"
            /\ todo' = << Boot!Step("skip", << "start" >>) >> \o Boot!WaitAck
            /\ SetControl("MCU")
            /\ UNCHANGED result
       ELSE /\ pc' = "idle"
            /\ todo' = << >>
            /\ result' = << "true" >>
            /\ UNCHANGED << idx, device >>
    /\ UNCHANGED << flight, calls, want >>

----------------------------------------------------------------------------
(***************************************************************************)
(* The composition.                                                        *)
(***************************************************************************)
Client ==
    \/ \E to \in BOOLEAN : Reset(to)
    \/ speaks = "firmware" /\ Native!Client /\ UNCHANGED << bootOnly, resetOnly >>
    \/ /\ speaks = "loader"
       /\ \E o \in Boot!Operations : Boot!Call(o)
       /\ UNCHANGED << nativeOnly, resetOnly >>
    \/ speaks = "loader" /\ Native!Others /\ UNCHANGED << bootOnly, resetOnly >>

NativeStep == Native!DriverStep /\ UNCHANGED << bootOnly, resetOnly >>
BootStep   == Boot!DriverStep /\ UNCHANGED << nativeOnly, resetOnly >>

DriverStep ==
    NativeStep \/ BootStep \/ ResetTimesOut \/ BootPin \/ Restart

HardwareStep ==
    \/ runs = "firmware" /\ Native!HardwareStep /\ UNCHANGED << bootOnly, resetOnly >>
    \/ runs = "loader" /\ Boot!HardwareStep /\ UNCHANGED << nativeOnly, resetOnly >>
    \/ runs = "loader" /\ Native!OtherTransferEnds /\ UNCHANGED << bootOnly, resetOnly >>

Next == Client \/ DriverStep \/ HardwareStep

Init ==
    /\ Native!Init
    /\ Boot!Init
    /\ want = FALSE
    /\ speaks = "firmware"
    /\ boot0 = FALSE
    /\ runs = "firmware"

Spec == Init /\ [][Next]_vars

\* The CPU keeps executing; of the MCU and the SPI controller nothing is asked.
FairSpec == Spec /\ WF_vars(DriverStep)

----------------------------------------------------------------------------
TypeOK ==
    /\ Native!TypeOK
    /\ want \in BOOLEAN /\ boot0 \in BOOLEAN /\ runs \in { "firmware", "loader" }
    /\ speaks \in { "firmware", "loader" }
    /\ retries \in 0 .. RetryMod - 1

\* What a native call returns is its own command's answer (see McuNative).
AnswerIsOwn == Native!AnswerIsOwn

\* What a boot loader call reports as done was done, exactly (see McuBoot).
TrueMeansDone == Boot!TrueMeansDone

\* Unless a call was given up half-way since the reset, the firmware takes no word
\* for the argument or block of another command, and the boot loader gets what it
\* expects: the two sides never disagree about where in the protocol they are.
McuFollows == Native!ArgumentsAreOwn /\ Boot!LoaderFollows

\* A reset that returns true, at whatever point calls and answers before it were
\* cut off, leaves the MCU running what was asked for and listening for its first
\* command, with nothing left over of what it was sent before.
ResetSynchronises ==
    (pc = "idle" /\ op.kind = "reset" /\ result = << "true" >>) =>
        /\ runs = (IF want THEN "loader" ELSE "firmware")
        /\ want => /\ ~loader.lost
                   /\ loader.expect \in
                        { << "frame" >> } \cup (IF Busy THEN { << "echo" >> } ELSE {})
        /\ ~want => firm = Native!Fresh

\* Every call returns, whatever the MCU and the SPI controller do.
CallEnds == pc # "idle" ~> pc = "idle"

(***************************************************************************)
(* Why it does: the steps that a call has before it at most.               *)
(***************************************************************************)
\* The answers that wait_ack still takes, and the steps of a routine for the boot
\* loader: to ask, to be answered, to have an abort end; every further answer of a
\* poll is another exchange.
PollsLeft == IF retries = 0 THEN RetryMod ELSE retries
BootStepsLeft ==
    (CASE pc = "boot" -> 2 [] pc = "boot_wait" -> 1 [] OTHER -> 0)
        + (IF Head(todo).what = "poll" THEN 2 * PollsLeft ELSE 0)

\* More than any step of a script takes.
StepsOfScript == 2 * RetryMod + 3

StepsLeft ==
    CASE pc \in { "restore", "request", "finish" } -> 1
      [] pc = "skip" -> 2
      [] pc = "data_abort" -> 3
      [] pc = "data_wait" -> 4
      [] pc = "data" -> 5
      [] pc = "header_abort" -> 6
      [] pc = "header_wait" -> 7
      [] pc = "header" -> 8
      [] pc = "block" -> 9
      [] pc = "argument" -> 10
      [] pc = "command" -> 11
      [] pc = "control" -> 12
      [] pc \in { "boot", "boot_wait", "boot_abort" } ->
             StepsOfScript * Len(todo) + BootStepsLeft
      [] pc = "reset_low" -> StepsOfScript * 5
      [] pc = "reset" -> StepsOfScript * 5 + 1
      [] OTHER -> 0

\* Whatever the MCU and the SPI controller do meanwhile, no step of a routine puts
\* the end of its call off, however often an answer is asked for again.
CallsAdvance ==
    [][ pc # "idle" => \/ StepsLeft' < StepsLeft
                       \/ HardwareStep /\ StepsLeft' = StepsLeft ]_vars

=============================================================================
