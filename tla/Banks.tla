-------------------------------- MODULE Banks --------------------------------
(***************************************************************************)
(* The bank masks of the FPGA: nile_bank_clear_mask, nile_bank_unlock and  *)
(* nile_bank_lock (src/core/fpga/nile_bank.c), one access to a register at *)
(* a time.  The code that runs them, and the interrupts that come between, *)
(* are fetched through the same windows.                                   *)
(*                                                                         *)
(* A register is the set of the bits that are ones.                        *)
(***************************************************************************)
EXTENDS Integers

VARIABLES
    reg,        \* the bank registers
    rom, ram,   \* NILE_SEG_MASK: the masks of ROM and RAM banks
    lock,       \* NILE_SEG_MASK: the windows whose lock bit is set
    pc,         \* what the CPU does next
    shown,      \* history: what the windows showed when the call began
    fit         \* history: the windows that the call is not to disturb

vars == << reg, rom, ram, lock, pc, shown, fit >>

Lockable == { "RAM", "ROM0", "ROM1" }
Windows  == Lockable \cup { "ROML" }

RomMask == 0 .. 8               \* NILE_SEG_MASK_ROM_MASK
RamMask == 0 .. 3               \* NILE_SEG_MASK_RAM_MASK
Linear  == 0 .. 3               \* address bits 16 to 19 in the linear window

MaskOf(w) == IF w = "RAM" THEN ram ELSE rom

\* rom_mask >> 4
RomlMask == { b \in 0 .. 15 : b + 4 \in rom }

\* The bank that a window shows, if bits 16 to 19 of the address are a: a lock
\* puts the mask in force, and the linear window always is masked, address and
\* all.
Shows(w, a) ==
    IF w = "ROML" THEN << reg[w] \cap RomlMask, a \cap rom >>
    ELSE << IF w \in lock THEN reg[w] \cap MaskOf(w) ELSE reg[w], {} >>

\* The mask is in force for a window, or makes no difference to it.  The linear
\* window shows an image of less than a megabyte more than once.
Fits(w) ==
    IF w = "ROML" THEN Linear \subseteq rom
                  ELSE w \in lock \/ reg[w] \subseteq MaskOf(w)

----------------------------------------------------------------------------
Begin(next, windows) ==
    /\ pc = "idle"
    /\ pc' = next
    /\ shown' = [ w \in Windows |-> [ a \in SUBSET Linear |-> Shows(w, a) ] ]
    /\ fit' = windows
    /\ UNCHANGED << reg, rom, ram, lock >>

ClearMask == Begin("clear_ram", { w \in Windows : Fits(w) })

\* Nothing is done where no lock is set.  The linear window is left alone.
Unlock ==
    /\ lock # {}
    /\ Begin("unlock_ram", { w \in Windows : w = "ROML" \/ Fits(w) })

Lock == Begin("lock", { w \in Windows : w = "ROML" \/ Fits(w) })

\* outportw(port, inportw(port) & mask)
Mask(w, from, to) ==
    /\ pc = from
    /\ pc' = to
    /\ reg' = [ reg EXCEPT ![w] = @ \cap (IF w = "ROML" THEN RomlMask
                                                        ELSE MaskOf(w)) ]
    /\ UNCHANGED << rom, ram, lock, shown, fit >>

ClearRam  == Mask("RAM",  "clear_ram",  "clear_rom0")
ClearRom0 == Mask("ROM0", "clear_rom0", "clear_rom1")
ClearRom1 == Mask("ROM1", "clear_rom1", "clear_roml")
ClearRoml == Mask("ROML", "clear_roml", "clear_mask")

\* outportw(IO_NILE_SEG_MASK, 0xFFFF)
ClearEnds ==
    /\ pc = "clear_mask"
    /\ pc' = "idle"
    /\ rom' = RomMask
    /\ ram' = RamMask
    /\ lock' = Lockable
    /\ UNCHANGED << reg, shown, fit >>

UnlockRam  == Mask("RAM",  "unlock_ram",  "unlock_rom0")
UnlockRom0 == Mask("ROM0", "unlock_rom0", "unlock_rom1")
UnlockRom1 == Mask("ROM1", "unlock_rom1", "unlock_mask")

UnlockEnds ==
    /\ pc = "unlock_mask"
    /\ pc' = "idle"
    /\ lock' = {}
    /\ UNCHANGED << reg, rom, ram, shown, fit >>

LockEnds ==
    /\ pc = "lock"
    /\ pc' = "idle"
    /\ lock' = Lockable
    /\ UNCHANGED << reg, rom, ram, shown, fit >>

\* The program sets a bank register between two calls.
SetBank ==
    /\ pc = "idle"
    /\ \E w \in Windows, bits \in SUBSET (0 .. 15) :
          reg' = [ reg EXCEPT ![w] = bits ]
    /\ fit' = {}
    /\ UNCHANGED << rom, ram, lock, pc, shown >>

Init ==
    /\ reg \in [ Windows -> SUBSET (0 .. 15) ]
    /\ rom \in SUBSET RomMask
    /\ ram \in SUBSET RamMask
    /\ lock \in SUBSET Lockable
    /\ pc = "idle"
    /\ shown = [ w \in Windows |-> [ a \in SUBSET Linear |-> << {}, {} >> ] ]
    /\ fit = {}

Next ==
    \/ ClearMask \/ Unlock \/ Lock \/ SetBank
    \/ ClearRam \/ ClearRom0 \/ ClearRom1 \/ ClearRoml \/ ClearEnds
    \/ UnlockRam \/ UnlockRom0 \/ UnlockRom1 \/ UnlockEnds \/ LockEnds

Spec == Init /\ [][Next]_vars

----------------------------------------------------------------------------
\* nile_bank_clear_mask, nile_bank_unlock and nile_bank_lock never change the bank
\* that a window shows, not even between two of their steps: for a window whose
\* lock was set, or whose register had no bits outside the mask, and, when the
\* mask is cleared, for the linear window of an image of a megabyte or more.
BanksKept ==
    \A w \in fit : \A a \in SUBSET Linear : Shows(w, a) = shown[w][a]

ClearPCs  == { "clear_ram", "clear_rom0", "clear_rom1", "clear_roml", "clear_mask" }
UnlockPCs == { "unlock_ram", "unlock_rom0", "unlock_rom1", "unlock_mask" }

TypeOK ==
    /\ reg \in [ Windows -> SUBSET (0 .. 15) ]
    /\ rom \subseteq RomMask
    /\ ram \subseteq RamMask
    /\ lock \subseteq Lockable
    /\ pc \in { "idle", "lock" } \cup ClearPCs \cup UnlockPCs
    /\ fit \subseteq Windows
    /\ shown \in [ Windows -> [ SUBSET Linear -> (SUBSET (0 .. 15)) \X (SUBSET Linear) ] ]

\* A window that fits goes on to, until the call ends.
FitInv ==
    \A w \in fit : \/ pc = "idle" \/ Fits(w)
                   \/ w = "ROML" /\ pc \notin ClearPCs

\* The registers that have been masked already.
MaskedInv ==
    /\ pc \in (ClearPCs \cup UnlockPCs) \ { "clear_ram", "unlock_ram" }
           => reg["RAM"] \subseteq ram
    /\ pc \in { "clear_rom1", "clear_roml", "clear_mask", "unlock_rom1", "unlock_mask" }
           => reg["ROM0"] \subseteq rom
    /\ pc \in { "clear_roml", "clear_mask", "unlock_mask" } => reg["ROM1"] \subseteq rom
    /\ pc = "clear_mask" => reg["ROML"] \subseteq RomlMask

BanksInv == TypeOK /\ FitInv /\ MaskedInv /\ BanksKept

=============================================================================
