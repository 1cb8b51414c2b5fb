--------------------------- MODULE TfCacheHistory ---------------------------
(***************************************************************************)
(* TfCache with a history variable that no step depends on: how many       *)
(* lookups ago each slot was used, counted up to CounterMod.  The code     *)
(* knows ages only by a counter that wraps; the history says what they     *)
(* are.                                                                    *)
(***************************************************************************)
EXTENDS TfCache

VARIABLE since

historyVars == << entry, usedCounter, slot, color, since >>

HistoryInit == Init /\ since = [ i \in Slots |-> 0 ]

Older(n) == IF n < CounterMod THEN n + 1 ELSE n

\* The step was a lookup that stored the counter in an entry.
Used == usedCounter' # usedCounter /\ slot' \in Slots /\ entry' # Cleared

HistoryNext ==
    /\ Next
    /\ since' = IF Used
                THEN [ i \in Slots |-> IF i = slot' THEN 1 ELSE Older(since[i]) ]
                ELSE since

HistorySpec == HistoryInit /\ [][HistoryNext]_historyVars

----------------------------------------------------------------------------
\* A lookup that has to throw a sector out throws out the one used longest
\* ago, as long as the counter has not come round since any entry was used.
EvictsOldest ==
    [][ \A i \in Slots :
          ( /\ entry[i].valid /\ entry'[i].valid
            /\ entry'[i].sector # entry[i].sector
            /\ \A j \in Slots : since[j] < CounterMod )
          => \A j \in Slots : since[j] <= since[i] ]_historyVars

\* Until the counter comes round, the age the scan computes of a valid entry is
\* the number of lookups since it was used.
AgeInv ==
    /\ since \in [ Slots -> 0 .. CounterMod ]
    /\ \A i \in Slots :
          entry[i].valid /\ since[i] < CounterMod => UsedDiff(i) = since[i]

=============================================================================
