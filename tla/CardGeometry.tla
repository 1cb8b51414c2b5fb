----------------------------- MODULE CardGeometry -----------------------------
(***************************************************************************)
(* What the library tells the file system of the card: disk_ioctl, the     *)
(* register reads below it (nilefs_read_card_csd, _cid and _ssr), and the  *)
(* numbers made of them (src/storage/diskio.c), in the life of the card    *)
(* that CardLifecycle describes.  Registers are arrays of bytes, as they   *)
(* come; a card fills them as its specification says.                      *)
(***************************************************************************)
EXTENDS CardLifecycle

CONSTANTS
    CapacitiesV1,   \* C_SIZE of standard-capacity cards (12 bits)
    CapacitiesV2    \* and of the others (22 bits)

ASSUME GeometryAssumption ==
    /\ CapacitiesV1 \subseteq 0 .. 4095
    /\ CapacitiesV2 \subseteq Nat

\* C_SIZE has 22 bits, and with all of them set the sectors are 2^32: the count of
\* 32 bits wraps to 0, which is an error.  (TLC itself counts to half of that.)
ASSUME SectorsCountable == \A n \in CapacitiesV2 : n < 4194303

VARIABLES
    query,      \* what disk_ioctl was asked for
    register,   \* history: the fields of the register the card sent
    bytes,      \* the local array csd
    value,      \* the number found
    status,     \* what disk_ioctl returned
    lost        \* history: the register never came, and that went unnoticed

infoVars == << query, register, bytes, value, status, lost >>
geometryVars == << vars, infoVars >>

----------------------------------------------------------------------------
(***************************************************************************)
(* The registers of a card.  Version 2 of the CSD is that of cards of high *)
(* capacity; reserved and unrelated bits are ones where rest is 1.         *)
(***************************************************************************)
NoRegister == [ form |-> "none", size |-> 0, mult |-> 0, bl |-> 9, erase |-> 0,
                group |-> 0, au |-> 0, rest |-> 0 ]

Csds(type) ==
    LET Csd(form, sizes, mults, bls, erases, groups) ==
            { [ form |-> form, size |-> s, mult |-> m, bl |-> b, erase |-> e,
                group |-> g, au |-> 0, rest |-> r ] :
              s \in sizes, m \in mults, b \in bls, e \in erases, g \in groups,
              r \in { 0, 1 } }
    IN  CASE type = "MMC"  -> Csd("mmc", CapacitiesV1, { 0, 7 }, 9 .. 11, { 0, 31 }, { 0, 9, 31 })
          [] type = "SDHC" -> Csd("v2", CapacitiesV2, { 0 }, { 9 }, { 127 }, { 0 })
          [] OTHER         -> Csd("v1", CapacitiesV1, { 0, 3, 7 }, 9 .. 11, { 0, 1, 127 }, { 0 })

Ssrs == { [ NoRegister EXCEPT !.form = "ssr", !.au = a, !.rest = r ] :
            a \in 1 .. 15, r \in { 0, 1 } }

ByteOf(f, i) ==
    CASE i = 0 -> (IF f.form = "v2" THEN 64 ELSE 0) + f.rest * 63
      [] i = 5 -> f.rest * 240 + f.bl
      [] i = 6 /\ f.form # "v2" -> f.rest * 252 + f.size \div 1024
      [] i = 7 -> IF f.form = "v2" THEN f.size \div 65536 ELSE (f.size \div 4) % 256
      [] i = 8 -> IF f.form = "v2" THEN (f.size \div 256) % 256
                                   ELSE (f.size % 4) * 64 + f.rest * 63
      [] i = 9 -> IF f.form = "v2" THEN f.size % 256 ELSE f.rest * 252 + f.mult \div 2
      [] i = 10 /\ f.form = "ssr" -> f.au * 16 + f.rest * 15
      [] i = 10 /\ f.form # "ssr" ->
             (f.mult % 2) * 128 + IF f.form = "mmc" THEN f.erase * 4 + f.group \div 8
                                                    ELSE f.rest * 64 + f.erase \div 2
      [] i = 11 -> IF f.form = "mmc" THEN (f.group % 8) * 32 + f.rest * 31
                                     ELSE (f.erase % 2) * 128 + f.rest * 127
      [] OTHER -> f.rest * 255

Sent(f) == [ i \in 0 .. 11 |-> ByteOf(f, i) ]

Garbage == [ i \in 0 .. 11 |-> 255 ]

----------------------------------------------------------------------------
(***************************************************************************)
(* What the code makes of them.                                            *)
(***************************************************************************)
\* width bits of byte i, from bit low on.
Bits(i, low, width) == (bytes[i] \div 2^low) % 2^width

\* Mutant: the low bit of the multiplier is taken from the wrong place.
SectorCountShifted ==
    CASE Bits(0, 6, 2) = 0 ->
             LET e == Bits(5, 0, 4) + ((Bits(10, 6, 1) + Bits(9, 0, 2) * 2) % 8) + 2
                 size == Bits(8, 6, 2) + bytes[7] * 4 + Bits(6, 0, 2) * 1024 + 1
             IN  (size % 2^(32 - e)) * 2^(e - 9)
      [] Bits(0, 6, 2) = 1 -> (bytes[9] + bytes[8] * 256 + bytes[7] * 65536 + 1) * 1024
      [] OTHER -> 0

\* The product has 32 bits before it is divided by 512.
SectorCount ==
    CASE Bits(0, 6, 2) = 0 ->
             LET e == Bits(5, 0, 4) + ((Bits(10, 7, 1) + Bits(9, 0, 2) * 2) % 8) + 2
                 size == Bits(8, 6, 2) + bytes[7] * 4 + Bits(6, 0, 2) * 1024 + 1
             IN  (size % 2^(32 - e)) * 2^(e - 9)
      [] Bits(0, 6, 2) = 1 -> (bytes[9] + bytes[8] * 256 + bytes[7] * 65536 + 1) * 1024
      [] OTHER -> 0

New == cardState \in { "TF_NEW", "TF_NEW_BLOCK" }

BlockSize ==
    LET shift == Bits(10, 4, 4)
        alloc_unit_table == << 12, 16, 24, 32, 64 >>
    IN  CASE New -> IF shift >= 11 THEN alloc_unit_table[shift - 10] * 2048
                                   ELSE 16 * 2^shift
          [] cardState = "MMC_OLD" ->
                 (Bits(10, 2, 5) + 1) * (Bits(10, 0, 2) * 8 + Bits(11, 5, 3) + 1)
          [] OTHER -> Bits(10, 0, 6) * 2 + Bits(11, 7, 1) + 1

Found == IF query = "sectors" THEN SectorCount ELSE BlockSize

\* Which register is read for it.
Ssr == query = "block" /\ New

----------------------------------------------------------------------------
(***************************************************************************)
(* disk_ioctl, step by step.  The chip select is taken back on every path. *)
(***************************************************************************)
Ioctl(q) ==
    /\ Goto("idle", "info_command")
    /\ call' = "info"
    /\ query' = q
    /\ register' = NoRegister
    /\ bytes' = Garbage
    /\ value' = 0
    /\ status' = "none"
    /\ lost' = FALSE
    /\ UNCHANGED << cardState, persistent, loop, result >>

Conclude(v) ==
    /\ pc' = "idle"
    /\ value' = v
    /\ status' = IF v # 0 THEN "OK" ELSE "ERROR"
    /\ bytes' = Garbage

\* A step that fails makes the number 0.
InfoFails ==
    /\ pc \in { "info_command", "info_token", "info_data", "info_crc" }
    /\ "spi" \in Faults \/ (pc = "info_command" /\ chip.state # "ready")
    /\ Conclude(0)
    /\ UNCHANGED << cardState, persistent, loop, call, result, query, register,
                    lost >>

InfoCommand ==
    /\ Goto("info_command", "info_token")
    /\ chip.state = "ready"
    /\ UNCHANGED << cardState, persistent, loop, call, result, infoVars >>

\* The SSR is announced with two bytes, of which one is read: the other is taken
\* for the token, unless the card leaves it out.
InfoToken ==
    /\ pc = "info_token"
    /\ \/ pc' = "info_data" /\ UNCHANGED infoVars
       \/ Ssr /\ Conclude(0) /\ UNCHANGED << query, register, lost >>
    /\ UNCHANGED << cardState, persistent, loop, call, result >>

InfoData ==
    /\ Goto("info_data", "info_crc")
    /\ \E f \in IF Ssr THEN Ssrs ELSE Csds(chip.type) :
          register' = f /\ bytes' = Sent(f)
    /\ UNCHANGED << cardState, persistent, loop, call, result, query, value,
                    status, lost >>

\* nile_spi_rx_sync_block timed out, and returned the result of its abort.
InfoDataLost ==
    /\ Goto("info_data", "info_crc")
    /\ "spi" \in Faults
    /\ lost' = TRUE
    /\ UNCHANGED << cardState, persistent, loop, call, result, query, register,
                    bytes, value, status >>

InfoCrc ==
    /\ pc = "info_crc"
    /\ Conclude(Found)
    /\ UNCHANGED << cardState, persistent, loop, call, result, query, register,
                    lost >>

GeometryInit ==
    /\ Init
    /\ query = "none"
    /\ register = NoRegister
    /\ bytes = Garbage
    /\ value = 0
    /\ status = "none"
    /\ lost = FALSE

GeometryStep ==
    InfoCommand \/ InfoToken \/ InfoData \/ InfoDataLost \/ InfoCrc \/ InfoFails

\* The life of the card goes on.  What the program before found is gone with it.
Forget ==
    /\ query' = "none"
    /\ register' = NoRegister
    /\ bytes' = Garbage
    /\ value' = 0
    /\ status' = "none"
    /\ lost' = FALSE

Life ==
    \/ (Client \/ Restart) /\ Forget
    \/ (DriverStep \/ ChangeCard) /\ UNCHANGED infoVars

GeometryNext ==
    \/ Life
    \/ \E q \in { "sectors", "block" } : Ioctl(q)
    \/ GeometryStep

GeometrySpec ==
    /\ GeometryInit
    /\ [][GeometryNext]_geometryVars
    /\ WF_geometryVars((DriverStep /\ UNCHANGED infoVars) \/ GeometryStep)

----------------------------------------------------------------------------
(***************************************************************************)
(* What the numbers should be.                                             *)
(***************************************************************************)
\* Capacity in sectors of 512 bytes.
Capacity(f) ==
    IF f.form = "v2" THEN (f.size + 1) * 1024
    ELSE (f.size + 1) * 2^(f.mult + 2) * 2^(f.bl - 9)

\* Allocation units of the SSR, in sectors of 512 bytes: from 16 KB on, doubling
\* up to 8 MB, then 12, 16, 24, 32 and 64 MB.
AllocationUnit(f) ==
    LET MB == 2048
        units == [ a \in 1 .. 10 |-> 32 * 2^(a - 1) ]
    IN  IF f.au <= 10 THEN units[f.au]
        ELSE CASE f.au = 11 -> 12 * MB [] f.au = 12 -> 16 * MB [] f.au = 13 -> 24 * MB
               [] f.au = 14 -> 32 * MB [] f.au = 15 -> 64 * MB

Erased(f) ==
    CASE f.form = "ssr" -> AllocationUnit(f)
      [] f.form = "mmc" -> (f.erase + 1) * (f.group + 1)
      [] OTHER          -> f.erase + 1

\* The kind of card that was found is the kind of card there is.
Recognised ==
    cardState \in ( CASE chip.type = "MMC" -> { "MMC_OLD" }
                      [] chip.type = "SDHC" -> { "TF_NEW", "TF_NEW_BLOCK" }
                      [] OTHER -> { "TF_OLD", "TF_NEW" } )

\* Where disk_ioctl returns RES_OK, the number is what the card's registers say,
\* for every card, capacity and unit, and whatever failed or was changed before:
\* the sectors always, the erase block where the kind of card was recognised.
GeometryRight ==
    (status = "OK" /\ ~lost) =>
        \/ query = "sectors" /\ value = Capacity(register)
        \/ query = "block" /\ (value = Erased(register) \/ ~Recognised)

----------------------------------------------------------------------------
(***************************************************************************)
(* No call takes for ever, whatever the card answers.                      *)
(***************************************************************************)
\* Places of disk_ioctl, and those at which the card has taken the command.
Asking == { "info_command", "info_token", "info_data", "info_crc" }
Answered == Asking \ { "info_command" }

\* At most so many steps, of which each sends one command, are left of the call.
StepsLeft ==
    CASE pc = "idle" -> 0
      [] pc \in { "publish", "failed", "eject_power", "info_crc" } -> 1
      [] pc \in { "set_blocklen", "info_data" } -> 2
      [] pc \in { "read_ocr", "info_token" } -> 3
      [] pc = "info_command" -> 4
      [] pc = "op_legacy"    -> 3 + retries
      [] pc = "op_hc"        -> 4 + MaxRetries + retries
      [] pc = "if_cond"      -> 5 + 2 * MaxRetries
      [] pc = "go_idle"      -> 6 + 2 * MaxRetries
      [] pc = "power_on"     -> 7 + 2 * MaxRetries
      [] pc = "init_wait"    -> 8 + 2 * MaxRetries

\* Every step from within a call brings its end nearer, but for what the user
\* does to a slot without power.
CallsAdvance ==
    [][ pc # "idle" => \/ StepsLeft' < StepsLeft
                       \/ ChangeCard /\ StepsLeft' = StepsLeft ]_geometryVars

----------------------------------------------------------------------------
(***************************************************************************)
(* The inductive invariant of the queries.                                 *)
(***************************************************************************)
\* A number that was found is told only while the card it was asked of is still
\* in the slot and has power, and the register that the code decodes is the one
\* that the card was asked for.
QueryInv ==
    /\ pc \in Places \cup Asking
    /\ pc \in Asking =>
          status = "none" /\ call = "info" /\ query \in { "sectors", "block" }
    /\ pc \in Answered => chip.state = "ready"
    /\ pc = "info_crc" /\ ~lost =>
          /\ register \in IF Ssr THEN Ssrs ELSE Csds(chip.type)
          /\ bytes = Sent(register)
    /\ status = "OK" => pc = "idle" /\ power

GeometryInv == LifeInv /\ QueryInv /\ GeometryRight

=============================================================================
