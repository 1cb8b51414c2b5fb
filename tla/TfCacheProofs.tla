--------------------------- MODULE TfCacheProofs ---------------------------
(***************************************************************************)
(* Proofs about TfCache, for every number of slots, every set of sectors   *)
(* and every width of the counter.  CacheInv is inductive.  UniqueValid    *)
(* needs nothing but itself; that a lookup always finds a slot rests on    *)
(* NewestInv, since the counter wraps and an age of zero is never taken.   *)
(* At the end, with the lookups counted that have passed since each slot   *)
(* was used (TfCacheHistory), that it is the oldest slot that is given up. *)
(***************************************************************************)
EXTENDS TfCacheHistory, WellFoundedInduction, TLAPS

\* The entry stored before the increment is one lookup old, also when the
\* counter wraps.
LEMMA WrapDiff ==
  ASSUME NEW M \in Nat \ { 0, 1 }, NEW c \in 0 .. M - 1
  PROVE  (((c + 1) % M) - c) % M = 1
<1>1. CASE c + 1 < M
  <2>1. (c + 1) % M = c + 1
    BY <1>1
  <2>2. 1 % M = 1
    OBVIOUS
  <2> QED BY <2>1, <2>2
<1>2. CASE c + 1 = M
  <2>1. (c + 1) % M = 0
    BY <1>2
  <2>2. (1 - M) % M = 1
    OBVIOUS
  <2> QED BY <1>2, <2>1, <2>2
<1> QED BY <1>1, <1>2

\* Every set of naturals that is not empty has a least element.
LEMMA LeastNat ==
  ASSUME NEW S \in SUBSET Nat, S # { }
  PROVE  \E i \in S : \A j \in S : i <= j
<1> DEFINE R == OpToRel(<, Nat)
<1>1. IsWellFoundedOn(R, Nat)
  BY NatLessThanWellFounded
<1>2. \A x, y \in Nat : x < y => << x, y >> \in R
  BY DEF OpToRel
<1> HIDE DEF R
<1>3. PICK x \in S : \A y \in S : ~(<< y, x >> \in R)
  BY <1>1, WFMin, Zenon
<1>4. \A j \in S : ~(j < x)
  BY <1>2, <1>3, Zenon
<1>5. \A j \in S : x <= j
  BY <1>4
<1> QED BY <1>5

\* Some element of a set whose images are bounded has the greatest image.
LEMMA GreatestImage ==
  ASSUME NEW S, S # { }, NEW b \in Nat,
         NEW f, \A i \in S : f[i] \in 0 .. b
  PROVE  \E i \in S : \A j \in S : f[j] <= f[i]
<1> DEFINE T == { b - f[i] : i \in S }
<1>1. T \in SUBSET Nat /\ T # { }
  OBVIOUS
<1>2. PICK n \in T : \A m \in T : n <= m
  BY <1>1, LeastNat, Zenon
<1>3. PICK i \in S : n = b - f[i]
  BY <1>2
<1>4. ASSUME NEW j \in S PROVE f[j] <= f[i]
  <2>1. b - f[i] <= b - f[j]
    BY <1>2, <1>3
  <2> QED BY <2>1
<1> QED BY <1>4

----------------------------------------------------------------------------
\* Ages are numbers below CounterMod.
LEMMA DiffType ==
  ASSUME CacheAssumption, TypeOK, NEW i \in Slots
  PROVE  UsedDiff(i) \in 0 .. CounterMod - 1
<1>1. entry[i].used \in 0 .. CounterMod - 1
  BY DEF TypeOK
<1>2. usedCounter - entry[i].used \in Int
  BY <1>1 DEF TypeOK
<1>3. \A x \in Int : x % CounterMod \in 0 .. CounterMod - 1
  BY DEF CacheAssumption
<1> QED BY <1>2, <1>3 DEF UsedDiff

\* A lookup that touches an entry keeps the types.
LEMMA TouchType ==
  ASSUME CacheAssumption, TypeOK, NEW i \in Slots, NEW sector \in Sectors,
         Touch(i, sector)
  PROVE  TypeOK'
<1>1. entry' \in [ Slots -> [ used : 0 .. CounterMod - 1, valid : BOOLEAN,
                              sector : Lba ] ]
  <2> DEFINE e == [ used |-> usedCounter, valid |-> TRUE, sector |-> sector ]
  <2>1. e \in [ used : 0 .. CounterMod - 1, valid : BOOLEAN, sector : Lba ]
    BY DEF TypeOK, Lba
  <2>2. entry' = [ entry EXCEPT ![i] = e ]
    BY DEF Touch
  <2> QED BY <2>1, <2>2 DEF TypeOK
<1>2. usedCounter' \in 0 .. CounterMod - 1
  BY DEF TypeOK, Touch, CacheAssumption
<1>3. slot' \in Slots \cup { Null } /\ color' \in BOOLEAN
  BY DEF TypeOK, Touch
<1> QED BY <1>1, <1>2, <1>3 DEF TypeOK

\* So does dropping entries.
LEMMA DropType ==
  ASSUME TypeOK, NEW S, Drop(S)
  PROVE  entry' \in [ Slots -> [ used : 0 .. CounterMod - 1, valid : BOOLEAN,
                                 sector : Lba ] ]
<1> DEFINE E == [ used : 0 .. CounterMod - 1, valid : BOOLEAN, sector : Lba ]
<1>1. \A e \in E : [ e EXCEPT !.valid = FALSE ] \in E
  OBVIOUS
<1>2. \A i \in Slots : entry[i] \in E
  BY DEF TypeOK
<1> HIDE DEF E
<1>3. entry' \in [ Slots -> E ]
  BY <1>1, <1>2 DEF Drop
<1> QED BY <1>3 DEF E

\* The four ways a step treats the entries, with what each leaves alone.
LEMMA StepKinds ==
  ASSUME Next
  PROVE  \/ \E sector \in Sectors : GetHit(sector)
         \/ \E sector \in Sectors : GetMiss(sector)
         \/ UNCHANGED << entry, usedCounter >> /\ slot' \in { slot, Null }
            /\ color' \in { color, ~color }
         \/ (\E S \in SUBSET Slots : Drop(S)) /\ UNCHANGED << usedCounter, slot, color >>
         \/ entry' = Cleared /\ usedCounter' = 0 /\ UNCHANGED << slot, color >>
<1>1. ASSUME NEW sector \in Sectors, Get(sector)
      PROVE  \/ GetHit(sector)
             \/ GetMiss(sector)
             \/ /\ UNCHANGED << entry, usedCounter >>
                /\ slot' \in { slot, Null } /\ color' \in { color, ~color }
  BY <1>1 DEF Get, GetNone
<1>2. ASSUME NEW sector \in Sectors, Invalidate(sector)
      PROVE  \/ UNCHANGED cacheVars
             \/ /\ \E S \in SUBSET Slots : Drop(S)
                /\ UNCHANGED << usedCounter, slot, color >>
  <2> DEFINE S == { i \in Slots :
                      First(i, { j \in Slots : entry[j].sector = sector }) }
  <2>1. S \in SUBSET Slots
    OBVIOUS
  <2>2. color => Drop(S)
    BY <1>2 DEF Invalidate
  <2> HIDE DEF S
  <2> QED BY <1>2, <2>1, <2>2 DEF Invalidate, cacheVars
<1>3. ASSUME NEW from \in Sectors, NEW to \in Sectors, InvalidateMany(from, to)
      PROVE  \/ UNCHANGED cacheVars
             \/ /\ \E S \in SUBSET Slots : Drop(S)
                /\ UNCHANGED << usedCounter, slot, color >>
  <2> DEFINE S == { i \in Slots : entry[i].sector \in from .. to }
  <2>1. S \in SUBSET Slots
    OBVIOUS
  <2>2. color => Drop(S)
    BY <1>3 DEF InvalidateMany
  <2> HIDE DEF S
  <2> QED BY <1>3, <2>1, <2>2 DEF InvalidateMany, cacheVars
<1>4. ASSUME InvalidateAll
      PROVE  \/ UNCHANGED cacheVars
             \/ /\ entry' = Cleared /\ usedCounter' = 0
                /\ UNCHANGED << slot, color >>
  BY <1>4 DEF InvalidateAll, cacheVars
<1>5. ASSUME SwitchMode
      PROVE  /\ UNCHANGED << entry, usedCounter >>
             /\ slot' \in { slot, Null } /\ color' \in { color, ~color }
  BY <1>5 DEF SwitchMode
<1>6. UNCHANGED cacheVars =>
         /\ UNCHANGED << entry, usedCounter >>
         /\ slot' \in { slot, Null } /\ color' \in { color, ~color }
  BY DEF cacheVars
<1> QED BY <1>1, <1>2, <1>3, <1>4, <1>5, <1>6, Zenon DEF Next

LEMMA TypeStep ==
  ASSUME CacheAssumption, TypeOK, [Next]_cacheVars
  PROVE  TypeOK'
<1>1. ASSUME NEW sector \in Sectors, GetHit(sector) \/ GetMiss(sector)
      PROVE  TypeOK'
  <2>1. PICK i \in Slots : Touch(i, sector)
    BY <1>1 DEF GetHit, GetMiss
  <2> QED BY <2>1, TouchType
<1>2. CASE UNCHANGED << entry, usedCounter >> /\ slot' \in { slot, Null }
           /\ color' \in { color, ~color }
  BY <1>2 DEF TypeOK
<1>3. CASE /\ \E S \in SUBSET Slots : Drop(S)
           /\ UNCHANGED << usedCounter, slot, color >>
  BY <1>3, DropType DEF TypeOK
<1>4. CASE entry' = Cleared /\ usedCounter' = 0 /\ UNCHANGED << slot, color >>
  BY <1>4 DEF TypeOK, Cleared, CacheAssumption, Lba
<1>5. CASE UNCHANGED cacheVars
  BY <1>5 DEF TypeOK, cacheVars
<1> QED BY <1>1, <1>2, <1>3, <1>4, <1>5, StepKinds, Zenon

----------------------------------------------------------------------------
\* A sector is installed only where no valid entry names it, and nothing but a
\* lookup makes an entry valid.
LEMMA UniqueStep ==
  ASSUME CacheAssumption, TypeOK, UniqueValid, [Next]_cacheVars
  PROVE  UniqueValid'
<1>1. ASSUME NEW sector \in Sectors, GetHit(sector)
      PROVE  UniqueValid'
  <2>1. PICK i \in Slots : i \in Hits(sector) /\ Touch(i, sector)
    BY <1>1 DEF GetHit, First
  <2>2. \A j \in Slots : /\ entry'[j].valid = entry[j].valid
                         /\ entry'[j].sector = entry[j].sector
    BY <2>1 DEF Touch, Hits, TypeOK
  <2> QED BY <2>2 DEF UniqueValid
<1>2. ASSUME NEW sector \in Sectors, GetMiss(sector)
      PROVE  UniqueValid'
  <2>1. PICK i \in Slots : Touch(i, sector)
    BY <1>2 DEF GetMiss
  <2>2. \A j \in Slots \ { i } : entry'[j] = entry[j]
    BY <2>1 DEF Touch, TypeOK
  <2>3. entry'[i].sector = sector
    BY <2>1 DEF Touch, TypeOK
  <2>4. \A j \in Slots : entry[j].valid => entry[j].sector # sector
    BY <1>2 DEF GetMiss, Hits
  <2> QED BY <2>2, <2>3, <2>4 DEF UniqueValid
<1>3. CASE UNCHANGED << entry, usedCounter >> /\ slot' \in { slot, Null }
           /\ color' \in { color, ~color }
  BY <1>3 DEF UniqueValid
<1>4. CASE /\ \E S \in SUBSET Slots : Drop(S)
           /\ UNCHANGED << usedCounter, slot, color >>
  <2>1. \A j \in Slots : entry'[j].valid =>
           entry[j].valid /\ entry'[j].sector = entry[j].sector
    BY <1>4 DEF Drop, TypeOK
  <2> QED BY <2>1 DEF UniqueValid
<1>5. CASE entry' = Cleared /\ usedCounter' = 0 /\ UNCHANGED << slot, color >>
  BY <1>5 DEF UniqueValid, Cleared
<1>6. CASE UNCHANGED cacheVars
  BY <1>6 DEF UniqueValid, cacheVars
<1> QED BY <1>1, <1>2, <1>3, <1>4, <1>5, <1>6, StepKinds, Zenon

\* The entry a lookup touches is one lookup old afterwards; whatever makes an
\* entry invalid makes the claim void.
LEMMA NewestStep ==
  ASSUME CacheAssumption, TypeOK, NewestInv, [Next]_cacheVars
  PROVE  NewestInv'
<1>1. ASSUME NEW sector \in Sectors, GetHit(sector) \/ GetMiss(sector)
      PROVE  NewestInv'
  <2>1. PICK i \in Slots : Touch(i, sector)
    BY <1>1 DEF GetHit, GetMiss
  <2>2. /\ entry'[i].used = usedCounter
        /\ usedCounter' = (usedCounter + 1) % CounterMod
    BY <2>1 DEF Touch, TypeOK
  <2>3. UsedDiff(i)' = 1
    BY <2>2, WrapDiff DEF UsedDiff, TypeOK, CacheAssumption
  <2> QED BY <2>3 DEF NewestInv
<1>2. CASE UNCHANGED << entry, usedCounter >> /\ slot' \in { slot, Null }
           /\ color' \in { color, ~color }
  BY <1>2 DEF NewestInv, UsedDiff
<1>3. CASE /\ \E S \in SUBSET Slots : Drop(S)
           /\ UNCHANGED << usedCounter, slot, color >>
  <2>1. \A j \in Slots : /\ entry'[j].valid => entry[j].valid
                         /\ entry'[j].used = entry[j].used
    BY <1>3 DEF Drop, TypeOK
  <2> QED BY <1>3, <2>1 DEF NewestInv, UsedDiff
<1>4. CASE entry' = Cleared /\ usedCounter' = 0 /\ UNCHANGED << slot, color >>
  <2>1. 0 \in Slots /\ ~Cleared[0].valid
    BY DEF Slots, Cleared, CacheAssumption
  <2> QED BY <1>4, <2>1 DEF NewestInv
<1>5. CASE UNCHANGED cacheVars
  BY <1>5 DEF NewestInv, UsedDiff, cacheVars
<1> QED BY <1>1, <1>2, <1>3, <1>4, <1>5, StepKinds, Zenon

----------------------------------------------------------------------------
\* Every reachable state satisfies the inductive invariant.
THEOREM CacheInvariant == Spec => []CacheInv
<1> USE CacheAssumption
<1>1. Init => CacheInv
  <2> SUFFICES ASSUME Init PROVE CacheInv
    OBVIOUS
  <2>1. TypeOK
    BY DEF Init, TypeOK, Cleared, CacheAssumption, Lba
  <2>2. UniqueValid
    BY DEF Init, UniqueValid, Cleared
  <2>3. NewestInv
    BY DEF Init, NewestInv, Cleared, Slots, CacheAssumption
  <2> QED BY <2>1, <2>2, <2>3 DEF CacheInv
<1>2. CacheInv /\ [Next]_cacheVars => CacheInv'
  BY TypeStep, UniqueStep, NewestStep, Zenon DEF CacheInv
<1> QED BY <1>1, <1>2, PTL DEF Spec

\* The cache keeps its types whatever the width of the counter.
THEOREM CacheTypeCorrect == Spec => []TypeOK
<1>1. CacheInv => TypeOK
  BY DEF CacheInv
<1> QED BY <1>1, CacheInvariant, PTL

\* No sector is ever valid in two slots.
THEOREM NoTwins == Spec => []UniqueValid
<1>1. CacheInv => UniqueValid
  BY DEF CacheInv
<1> QED BY <1>1, CacheInvariant, PTL

\* A lookup in color mode always finds a slot, although ages wrap.
THEOREM RoomForever == Spec => []AlwaysRoom
<1>1. CacheInv => AlwaysRoom
  <2> SUFFICES ASSUME CacheInv, \A i \in Slots : entry[i].valid
               PROVE  \E i \in Slots : First(i, Oldest)
    BY DEF AlwaysRoom
  <2> DEFINE age == [ i \in Slots |-> UsedDiff(i) ]
  <2>1. PICK newest \in Slots : UsedDiff(newest) = 1
    BY DEF CacheInv, NewestInv
  <2>2. \A i \in Slots : age[i] \in 0 .. CounterMod - 1
    BY CacheAssumption, DiffType DEF CacheInv
  <2>3. CounterMod - 1 \in Nat /\ Slots # { }
    BY <2>1, CacheAssumption DEF CacheAssumption
  <2> HIDE DEF age
  <2>4. PICK i \in Slots : \A j \in Slots : age[j] <= age[i]
    BY <2>2, <2>3, GreatestImage, Zenon
  <2>5. \A j \in Slots : UsedDiff(j) <= UsedDiff(i)
    BY <2>4 DEF age
  <2>6. UsedDiff(i) > 0
    BY <2>1, <2>2, <2>5 DEF age
  <2>7. i \in Oldest
    BY <2>5, <2>6 DEF Oldest
  <2>8. Oldest \in SUBSET Nat /\ Oldest \subseteq Slots
    BY DEF Oldest, Slots
  <2>9. PICK k \in Oldest : \A j \in Oldest : k <= j
    BY <2>7, <2>8, LeastNat, Zenon
  <2> QED BY <2>8, <2>9 DEF First
<1> QED BY <1>1, CacheInvariant, PTL

----------------------------------------------------------------------------
\* The counter's remainder grows by one until it comes round.
LEMMA NextAge ==
  ASSUME NEW M \in Nat \ { 0, 1 }, NEW c \in 0 .. M - 1, NEW u \in 0 .. M - 1,
         ((c - u) % M) + 1 < M
  PROVE  (((c + 1) % M) - u) % M = ((c - u) % M) + 1
<1>1. CASE u <= c /\ c + 1 < M
  <2>1. (c + 1) % M = c + 1
    BY <1>1
  <2>2. (c - u) % M = c - u
    BY <1>1
  <2>3. (c + 1 - u) % M = c + 1 - u
    BY <1>1
  <2> QED BY <2>1, <2>2, <2>3
<1>2. CASE u <= c /\ c + 1 = M
  <2>1. (c + 1) % M = 0
    BY <1>2
  <2>2. (c - u) % M = c - u
    BY <1>2
  <2>3. u # 0
    BY <1>2, <2>2
  <2>4. (0 - u) % M = M - u
    BY <2>3
  <2> QED BY <1>2, <2>1, <2>2, <2>4
<1>3. CASE c < u
  <2>1. (c + 1) % M = c + 1
    BY <1>3
  <2>2. (c - u) % M = M + c - u
    BY <1>3
  <2>3. c + 1 # u
    BY <1>3, <2>2
  <2>4. (c + 1 - u) % M = M + c + 1 - u
    BY <1>3, <2>3
  <2> QED BY <2>1, <2>2, <2>4
<1> QED BY <1>1, <1>2, <1>3

\* A lookup that touches an entry counts for the ages of all.
LEMMA TouchIsUse ==
  ASSUME CacheAssumption, TypeOK, NEW i \in Slots, NEW sector \in Sectors,
         Touch(i, sector)
  PROVE  Used
<1>1. usedCounter' # usedCounter
  <2>1. usedCounter \in 0 .. CounterMod - 1
        /\ usedCounter' = (usedCounter + 1) % CounterMod
    BY DEF TypeOK, Touch
  <2>2. CounterMod \in Nat \ { 0, 1 }
    BY DEF CacheAssumption
  <2>3. CASE usedCounter + 1 < CounterMod
    BY <2>1, <2>2, <2>3
  <2>4. CASE usedCounter + 1 = CounterMod
    BY <2>1, <2>2, <2>4
  <2> QED BY <2>1, <2>2, <2>3, <2>4
<1>2. entry'[i].valid
  BY DEF Touch, TypeOK
<1>3. entry' # Cleared
  BY <1>2 DEF Cleared
<1> QED BY <1>1, <1>3 DEF Used, Touch

LEMMA AgeTouch ==
  ASSUME CacheAssumption, TypeOK, AgeInv, NEW i \in Slots, NEW sector \in Sectors,
         Touch(i, sector),
         since' = [ k \in Slots |-> IF k = slot' THEN 1 ELSE Older(since[k]) ]
  PROVE  AgeInv'
<1>0. CounterMod \in Nat \ { 0, 1 } /\ slot' = i
  BY DEF CacheAssumption, Touch
<1>1. since' \in [ Slots -> 0 .. CounterMod ]
  <2>1. \A n \in 0 .. CounterMod : Older(n) \in 0 .. CounterMod
    BY <1>0 DEF Older
  <2>2. 1 \in 0 .. CounterMod
    BY <1>0
  <2> QED BY <2>1, <2>2 DEF AgeInv
<1>2. ASSUME NEW j \in Slots, entry'[j].valid, since'[j] < CounterMod
      PROVE  UsedDiff(j)' = since'[j]
  <2>1. CASE j = i
    <3>1. /\ entry'[j].used = usedCounter
          /\ usedCounter' = (usedCounter + 1) % CounterMod
      BY <2>1 DEF Touch, TypeOK
    <3>2. UsedDiff(j)' = 1
      BY <1>0, <3>1, WrapDiff DEF UsedDiff, TypeOK
    <3> QED BY <1>0, <2>1, <3>2
  <2>2. CASE j # i
    <3>1. /\ entry'[j] = entry[j]
          /\ usedCounter' = (usedCounter + 1) % CounterMod
      BY <2>2 DEF Touch, TypeOK
    <3>2. since'[j] = Older(since[j])
      BY <1>0, <2>2
    <3>3. since[j] \in 0 .. CounterMod
      BY DEF AgeInv
    <3>4. since[j] + 1 < CounterMod /\ since'[j] = since[j] + 1
      BY <1>0, <1>2, <3>2, <3>3 DEF Older
    <3>5. UsedDiff(j) = since[j]
      BY <1>0, <1>2, <3>1, <3>3, <3>4 DEF AgeInv
    <3>6. usedCounter \in 0 .. CounterMod - 1
          /\ entry[j].used \in 0 .. CounterMod - 1
      BY DEF TypeOK
    <3>7. (usedCounter - entry[j].used) % CounterMod = since[j]
      BY <3>5 DEF UsedDiff
    <3>8. (((usedCounter + 1) % CounterMod) - entry[j].used) % CounterMod
             = since[j] + 1
      BY <1>0, <3>4, <3>6, <3>7, NextAge
    <3> QED BY <3>1, <3>4, <3>8 DEF UsedDiff
  <2> QED BY <2>1, <2>2
<1> QED BY <1>1, <1>2 DEF AgeInv

LEMMA AgeStep ==
  ASSUME CacheAssumption, TypeOK, AgeInv, [HistoryNext]_historyVars
  PROVE  AgeInv'
<1>1. ASSUME HistoryNext, NEW sector \in Sectors,
             GetHit(sector) \/ GetMiss(sector)
      PROVE  AgeInv'
  <2>1. PICK i \in Slots : Touch(i, sector)
    BY <1>1 DEF GetHit, GetMiss
  <2>2. since' = [ k \in Slots |-> IF k = slot' THEN 1 ELSE Older(since[k]) ]
    BY <1>1, <2>1, TouchIsUse DEF HistoryNext
  <2> QED BY <2>1, <2>2, AgeTouch
<1>2. ASSUME UNCHANGED << usedCounter, since >>,
             \A j \in Slots : /\ entry'[j].valid => entry[j].valid
                              /\ entry'[j].used = entry[j].used
      PROVE  AgeInv'
  BY <1>2 DEF AgeInv, UsedDiff
<1>3. CASE HistoryNext /\ UNCHANGED << entry, usedCounter >>
  BY <1>2, <1>3 DEF HistoryNext, Used
<1>4. CASE /\ HistoryNext
           /\ \E S \in SUBSET Slots : Drop(S)
           /\ UNCHANGED << usedCounter, slot, color >>
  <2>1. \A j \in Slots : /\ entry'[j].valid => entry[j].valid
                         /\ entry'[j].used = entry[j].used
    BY <1>4 DEF Drop, TypeOK
  <2>2. since' = since
    BY <1>4 DEF HistoryNext, Used
  <2> QED BY <1>2, <1>4, <2>1, <2>2
<1>5. CASE HistoryNext /\ entry' = Cleared
  <2>1. since' = since
    BY <1>5 DEF HistoryNext, Used
  <2>2. \A j \in Slots : ~entry'[j].valid
    BY <1>5 DEF Cleared
  <2> QED BY <2>1, <2>2 DEF AgeInv
<1>6. CASE UNCHANGED historyVars
  BY <1>2, <1>6 DEF historyVars
<1> QED BY <1>1, <1>3, <1>4, <1>5, <1>6, StepKinds, Zenon DEF HistoryNext

\* With the history the cache does nothing that it does not do without.
THEOREM HistoryIsTheCache == HistorySpec => Spec
<1>1. HistoryInit => Init
  BY DEF HistoryInit
<1>2. [HistoryNext]_historyVars => [Next]_cacheVars
  BY DEF HistoryNext, historyVars, cacheVars
<1> QED BY <1>1, <1>2, PTL DEF HistorySpec, Spec

\* Until the counter comes round, a lookup throws out the sector used longest
\* ago, whatever was invalidated between (tfcache.c:53-76).
THEOREM OldestGoes == HistorySpec => EvictsOldest
<1> USE CacheAssumption
<1> DEFINE Right ==
      \A i \in Slots :
          ( /\ entry[i].valid /\ entry'[i].valid
            /\ entry'[i].sector # entry[i].sector
            /\ \A j \in Slots : since[j] < CounterMod )
          => \A j \in Slots : since[j] <= since[i]
<1>1. HistoryInit => AgeInv
  BY DEF HistoryInit, AgeInv, Init, Cleared, CacheAssumption
<1>2. TypeOK /\ AgeInv /\ [HistoryNext]_historyVars => AgeInv'
  BY AgeStep
<1>3. TypeOK /\ AgeInv /\ [HistoryNext]_historyVars => [Right]_historyVars
  <2> SUFFICES ASSUME TypeOK, AgeInv, Next, NEW i \in Slots,
                      entry[i].valid, entry'[i].valid,
                      entry'[i].sector # entry[i].sector,
                      \A j \in Slots : since[j] < CounterMod
               PROVE  \A j \in Slots : since[j] <= since[i]
    BY DEF HistoryNext
  <2>1. PICK sector \in Sectors : GetMiss(sector)
    <3>1. ASSUME NEW sector \in Sectors, GetHit(sector) PROVE FALSE
      BY <3>1 DEF GetHit, First, Hits, Touch, TypeOK
    <3>2. ASSUME NEW S \in SUBSET Slots, Drop(S) PROVE FALSE
      BY <3>2 DEF Drop, TypeOK
    <3>3. entry' # Cleared
      BY DEF Cleared
    <3> QED BY <3>1, <3>2, <3>3, StepKinds
  <2>2. PICK k \in Slots : ToUse(k) /\ Touch(k, sector)
    BY <2>1 DEF GetMiss
  <2>3. k = i
    BY <2>2 DEF Touch, TypeOK
  <2>4. Invalid = { } /\ First(i, Oldest)
    BY <2>2, <2>3 DEF ToUse, Last, Invalid
  <2>5. \A j \in Slots : UsedDiff(j) <= UsedDiff(i)
    BY <2>4 DEF First, Oldest
  <2>6. \A j \in Slots : UsedDiff(j) = since[j]
    BY <2>4 DEF Invalid, AgeInv
  <2> QED BY <2>5, <2>6
<1>4. Spec => []TypeOK
  BY CacheTypeCorrect
<1> QED BY <1>1, <1>2, <1>3, <1>4, HistoryIsTheCache, PTL
        DEF HistorySpec, EvictsOldest

=============================================================================
