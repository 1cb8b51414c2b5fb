\* Three slots, four sectors, a counter that wraps after five lookups.
SPECIFICATION HistorySpec
CONSTANTS
    N = 3
    CounterMod = 5
    Sectors <- MCSectors
INVARIANTS
    UniqueValid
    AlwaysRoom
PROPERTIES
    EvictsOldest
