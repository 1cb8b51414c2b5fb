------------------------------ MODULE TfCache ------------------------------
(***************************************************************************)
(* The sector cache of nilefs (src/storage/tfcache.c): a handful of        *)
(* 512-byte slots in internal RAM, used in color mode only.  A lookup that *)
(* misses installs the sector at once and hands its slot to disk_read,     *)
(* which fills it later; the module is about which slot stands for which   *)
(* sector, DiskIO about what the slot holds.                               *)
(***************************************************************************)
EXTENDS Integers

CONSTANTS
    N,              \* LIBNILE_TFCACHE_SECTOR_COUNT
    CounterMod,     \* used_counter and used_at wrap here: 2^16
    Sectors         \* the sectors the file system touches

ASSUME CacheAssumption ==
    /\ N \in Nat \ { 0 }
    /\ CounterMod \in Nat \ { 0, 1 }
    /\ Sectors \subseteq Nat

VARIABLES
    entry,          \* nile_tfcache.entry
    usedCounter,    \* nile_tfcache.used_counter
    slot,           \* what the last lookup stored in *buffer
    color           \* ws_system_is_color_active()

cacheVars == << entry, usedCounter, slot, color >>

Slots == 0 .. N - 1
Null  == N
Lba   == Sectors \cup { 0 }

TypeOK ==
    /\ entry \in [ Slots -> [ used : 0 .. CounterMod - 1, valid : BOOLEAN,
                              sector : Lba ] ]
    /\ usedCounter \in 0 .. CounterMod - 1
    /\ slot \in Slots \cup { Null }
    /\ color \in BOOLEAN

\* The cache as nile_tfcache_invalidate_all leaves it: all zero.
Cleared == [ i \in Slots |-> [ used |-> 0, valid |-> FALSE, sector |-> 0 ] ]

Init ==
    /\ entry = Cleared
    /\ usedCounter = 0
    /\ slot = Null
    /\ color \in BOOLEAN

----------------------------------------------------------------------------
(***************************************************************************)
(* The scan of nile_tfcache_get.                                           *)
(***************************************************************************)
Hits(sector) == { i \in Slots : entry[i].valid /\ entry[i].sector = sector }

Invalid == { i \in Slots : ~entry[i].valid }

\* Mutant: the age of an entry is taken the wrong way round.
UsedDiffReversed(i) == (entry[i].used - usedCounter) % CounterMod

\* used_diff_local, in sixteen bits.
UsedDiff(i) == (usedCounter - entry[i].used) % CounterMod

Oldest ==
    { i \in Slots : UsedDiff(i) > 0 /\ \A j \in Slots : UsedDiff(j) <= UsedDiff(i) }

First(i, S) == i \in S /\ \A j \in S : i <= j
Last(i, S)  == i \in S /\ \A j \in S : j <= i

\* to_use_entry after a scan without a hit: the last invalid entry, and if
\* there is none the first of the least recently used ones.
ToUse(i) == IF Invalid # { } THEN Last(i, Invalid) ELSE First(i, Oldest)

\* Mutant: used_counter is incremented before it is stored.
TouchPreIncrement(i, sector) ==
    /\ usedCounter' = (usedCounter + 1) % CounterMod
    /\ entry' = [ entry EXCEPT ![i] = [ used |-> usedCounter', valid |-> TRUE,
                                        sector |-> sector ] ]
    /\ slot' = i
    /\ UNCHANGED color

Touch(i, sector) ==
    /\ entry' = [ entry EXCEPT ![i] = [ used |-> usedCounter, valid |-> TRUE,
                                        sector |-> sector ] ]
    /\ usedCounter' = (usedCounter + 1) % CounterMod
    /\ slot' = i
    /\ UNCHANGED color

GetHit(sector) ==
    /\ color
    /\ \E i \in Slots : First(i, Hits(sector)) /\ Touch(i, sector)

\* Mutant: a sector is installed without looking for it first.
InstallBlindly(sector) ==
    /\ color
    /\ \E i \in Slots : ToUse(i) /\ Touch(i, sector)

GetMiss(sector) ==
    /\ color
    /\ Hits(sector) = { }
    /\ \E i \in Slots : ToUse(i) /\ Touch(i, sector)

\* *buffer = NULL: not in color mode, or no entry to use.
GetNone(sector) ==
    /\ color => /\ Hits(sector) = { }
                /\ ~ \E i \in Slots : ToUse(i)
    /\ slot' = Null
    /\ UNCHANGED << entry, usedCounter, color >>

Get(sector) == GetHit(sector) \/ GetMiss(sector) \/ GetNone(sector)

----------------------------------------------------------------------------
Drop(S) ==
    entry' = [ i \in Slots |->
                 IF i \in S THEN [ entry[i] EXCEPT !.valid = FALSE ]
                            ELSE entry[i] ]

\* nile_tfcache_invalidate: the first entry that names the sector, be it valid
\* or not, and no other.
Invalidate(sector) ==
    /\ IF color
       THEN Drop({ i \in Slots :
                     First(i, { j \in Slots : entry[j].sector = sector }) })
       ELSE UNCHANGED entry
    /\ UNCHANGED << usedCounter, slot, color >>

\* Mutant: the last sector of the range is forgotten.
InvalidateAllButLast(from, to) ==
    /\ IF color
       THEN Drop({ i \in Slots : entry[i].sector \in from .. to - 1 })
       ELSE UNCHANGED entry
    /\ UNCHANGED << usedCounter, slot, color >>

InvalidateMany(from, to) ==
    /\ IF color
       THEN Drop({ i \in Slots : entry[i].sector \in from .. to })
       ELSE UNCHANGED entry
    /\ UNCHANGED << usedCounter, slot, color >>

InvalidateAll ==
    /\ entry' = IF color THEN Cleared ELSE entry
    /\ usedCounter' = IF color THEN 0 ELSE usedCounter
    /\ UNCHANGED << slot, color >>

\* The application changes the video mode.
SwitchMode ==
    /\ color' = ~color
    /\ UNCHANGED << entry, usedCounter, slot >>

Next ==
    \/ \E sector \in Sectors : Get(sector) \/ Invalidate(sector)
    \/ \E from, to \in Sectors : from < to /\ InvalidateMany(from, to)
    \/ InvalidateAll
    \/ SwitchMode

Spec == Init /\ [][Next]_cacheVars

----------------------------------------------------------------------------
\* No two slots stand for one sector, so what a hit returns does not depend on
\* the order of the scan, although a sector comes back to another slot than the
\* one it was dropped from.
UniqueValid ==
    \A i, j \in Slots :
        ( i # j /\ entry[i].valid /\ entry[j].valid )
           => entry[i].sector # entry[j].sector

\* In color mode a lookup never comes back without a slot: however far the
\* counter has wrapped, some entry looks used.
AlwaysRoom ==
    ( \A i \in Slots : entry[i].valid ) => \E i \in Slots : First(i, Oldest)

\* Why a lookup finds room: with all entries valid, the one used last is there.
NewestInv ==
    ( \A i \in Slots : entry[i].valid ) => \E i \in Slots : UsedDiff(i) = 1

CacheInv == TypeOK /\ UniqueValid /\ NewestInv

=============================================================================
