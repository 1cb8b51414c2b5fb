----------------------------- MODULE DiskProofs -----------------------------
(***************************************************************************)
(* Proofs about the sector transfers of nilefs (DiskIO), their cache and   *)
(* the time stamps (FatTime): src/storage/diskio.c and tfcache.c.          *)
(*                                                                         *)
(* First what holds of every call, whatever fails (DiskInv), from which    *)
(* the transfers are right and the cache is moved as TfCache moves.  Then  *)
(* when the cache can be relied on (CoherentInv), and from both that the   *)
(* driver is a block device.                                               *)
(***************************************************************************)
EXTENDS DiskIO, FatTime, TLAPS

\* The index of the cache, with what is proved of it.  When the slots were used
\* (since, of TfCacheHistory) matters to none of the facts that are cited.
CacheFacts == INSTANCE TfCacheProofs WITH since <- << >>

\* The points of the two calls.
Reading == { "lookup", "read_cmd", "read_data", "read_stop", "read_end" }
Writing == { "write_cmd", "write_data", "write_stop", "write_end" }

\* The first n blocks of the request, as the card has them.
Blocks(n) == [ k \in 1 .. n |-> Content(req.sector + k - 1) ]

\* The first n blocks of the request have been written.
Written(n) == \A s \in Range(req.sector, n) : card[s] = writes

\* Which call the driver is in, and what has been settled by each of its points.
\* A result is RES_ERROR until a transfer has come to its end, and a block is lost
\* only on the way to that end.
CallInv ==
    /\ pc \in Reading => req.op = "read"
    /\ pc \in Writing => req.op = "write"
    /\ req.op # "none" =>
           req.count > 0 /\ Range(req.sector, req.count) \subseteq Sectors
    /\ pc \in { "lookup", "read_cmd", "read_data", "write_cmd", "write_data" } =>
           result = "ERROR" /\ ~lost
    /\ pc = "write_stop" => result = "ERROR"
    /\ pc \in { "lookup", "read_cmd", "write_cmd" } => left = req.count /\ buff = << >>

\* The buffer holds what has been transferred so far; what is said of its end is
\* said where no block was lost.
ReadInv ==
    /\ pc = "read_data" => left > 0 /\ buff = Blocks(req.count - left)
    /\ pc = "read_stop" /\ ~lost => buff = Blocks(req.count)
    /\ pc = "read_end" /\ result = "OK" =>
           /\ open = "none"
           /\ ~lost => buff = Blocks(req.count)

\* The card holds what has been sent so far, and waits for what is to come: unless
\* a block was lost, it is not in the midst of one when the stop token is sent.
WriteInv ==
    /\ pc = "write_data" => /\ Written(req.count - left)
                            /\ open = IF left > 0 THEN "write" ELSE AfterBlock
    /\ pc = "write_stop" =>
           IF lost THEN left > 0
                   ELSE Written(req.count) /\ open \in { AfterBlock, "none" }
    /\ pc = "write_end" /\ result = "OK" /\ ~lost =>
           open = "none" /\ Written(req.count)

\* The inductive invariant: what is promised, and what makes it so.
DiskInv ==
    /\ TypeOK /\ CallInv /\ ReadInv /\ WriteInv
    /\ OkClosesTransfer /\ UncachedReadRight /\ WriteOkMeansStored

\* What the assumption on the constants says, in the form that arithmetic needs.
LEMMA ConstantsNat ==
    /\ N \in Nat /\ N # 0
    /\ Sectors \subseteq Nat /\ Sectors \cup { 0 } \subseteq Nat
    /\ ReadCounts \cup WriteCounts \cup { 0 } \subseteq Nat
    /\ ReadCounts \subseteq Nat \ { 0 } /\ WriteCounts \subseteq Nat \ { 0 }
    /\ BlockCard \in BOOLEAN /\ MaxCalls \in Nat
BY DiskAssumption, SMT DEF DiskAssumption

\* Within a call, its sectors are sectors of the card.
LEMMA SectorNamed ==
    ASSUME DiskInv, req.op # "none"
    PROVE  /\ req.sector \in Sectors /\ req.sector \in Nat
           /\ req.count \in Nat /\ req.count > 0
           /\ Range(req.sector, req.count) \subseteq Sectors
<1>1. req.count \in Nat /\ req.sector \in Nat
  <2>1. /\ req.sector \in Sectors \cup { 0 }
        /\ req.count \in ReadCounts \cup WriteCounts \cup { 0 }
    BY DEF DiskInv, TypeOK
  <2> QED BY <2>1, ConstantsNat
<1>2. req.count > 0 /\ Range(req.sector, req.count) \subseteq Sectors
  BY DEF DiskInv, CallInv
<1>3. req.sector \in Range(req.sector, req.count)
  BY <1>1, <1>2 DEF Range
<1> QED BY <1>1, <1>2, <1>3

\* No slot holds a sector that is not one of the card's: giving up such a one
\* changes nothing.  A byte address is one (diskio.c:401-402).
LEMMA ElsewhereUnnoticed ==
    ASSUME Cache!TypeOK, NEW a, a \notin Cache!Lba, Cache!Invalidate(a)
    PROVE  UNCHANGED cacheVars
<1> DEFINE S == { i \in Cache!Slots :
                    Cache!First(i, { j \in Cache!Slots : entry[j].sector = a }) }
<1>1. \A j \in Cache!Slots : entry[j].sector # a
  BY DEF Cache!TypeOK
<1>2. S = { }
  BY <1>1 DEF Cache!First
<1>3. UNCHANGED entry \/ Cache!Drop(S)
  BY DEF Cache!Invalidate
<1>4. entry = [ i \in Cache!Slots |-> entry[i] ]
  BY DEF Cache!TypeOK
<1>5. Cache!Drop({ }) => UNCHANGED entry
  BY <1>4 DEF Cache!Drop
<1> HIDE DEF S
<1>6. UNCHANGED entry
  BY <1>2, <1>3, <1>5
<1> QED BY <1>6 DEF Cache!Invalidate, cacheVars

\* So giving up a sector by its address, right or wrong, is something TfCache does
\* or nothing.
LEMMA GivenUp ==
    ASSUME DiskInv, req.op # "none", Cache!Invalidate(Address(req.sector))
    PROVE  Cache!Next \/ UNCHANGED cacheVars
<1>1. CASE Address(req.sector) \in Sectors
  BY <1>1 DEF Cache!Next
<1>2. CASE Address(req.sector) \notin Sectors
  <2>1. req.sector \in Sectors /\ req.sector \in Nat
    BY SectorNamed
  <2>2. Address(req.sector) # 0
    BY <1>2, <2>1 DEF Address
  <2>3. Address(req.sector) \notin Cache!Lba
    BY <1>2, <2>2 DEF Cache!Lba
  <2> QED BY <2>3, ElsewhereUnnoticed DEF DiskInv, TypeOK
<1> QED BY <1>1, <1>2

\* Every step of the driver is one of the cache, or leaves the cache alone.
LEMMA StepOfCache ==
    ASSUME DiskInv, Next
    PROVE  Cache!Next \/ UNCHANGED cacheVars
<1>1. ASSUME NEW s \in Sectors, NEW n \in ReadCounts, NEW window \in BOOLEAN,
             Read(s, n, window)
      PROVE  UNCHANGED cacheVars
  BY <1>1 DEF Read
<1>2. ASSUME NEW s \in Sectors, NEW n \in WriteCounts, Write(s, n)
      PROVE  Cache!Next
  <2>1. CASE n > 1
    <3>1. s + n - 1 \in Sectors /\ s < s + n - 1
      BY <1>2, <2>1, ConstantsNat DEF Write, Enter, Range
    <3> QED BY <1>2, <2>1, <3>1 DEF Write, Cache!Next
  <2>2. CASE ~(n > 1)
    BY <1>2, <2>2 DEF Write, Cache!Next
  <2> QED BY <2>1, <2>2
<1>3. ASSUME LookupHit PROVE Cache!Next
  <2>1. req.sector \in Sectors
    BY <1>3, SectorNamed DEF LookupHit, Cached
  <2> QED BY <1>3, <2>1 DEF LookupHit, Cache!Next, Cache!Get
<1>4. ASSUME LookupMiss PROVE Cache!Next \/ UNCHANGED cacheVars
  <2>1. CASE Cached
    <3>1. req.sector \in Sectors
      BY <2>1, SectorNamed DEF Cached
    <3> QED BY <1>4, <2>1, <3>1 DEF LookupMiss, Cache!Next, Cache!Get
  <2>2. CASE ~Cached
    BY <1>4, <2>2 DEF LookupMiss
  <2> QED BY <2>1, <2>2
<1>5. ASSUME ReadEnd PROVE Cache!Next \/ UNCHANGED cacheVars
  <2>1. req.op # "none"
    BY <1>5 DEF ReadEnd, Goto, DiskInv, CallInv, Reading
  <2> QED BY <1>5, <2>1, GivenUp DEF ReadEnd
<1>6. ASSUME Initialize \/ SwitchMode PROVE Cache!Next
  BY <1>6 DEF Initialize, SwitchMode, Cache!Next
<1>7. ASSUME \/ ReadCommand \/ ReadBlock \/ ReadBlockFails \/ ReadStop
             \/ ReadStopFails \/ WriteCommand \/ WriteBlock \/ WriteBlockFails
             \/ WriteRefused \/ WriteDone \/ WriteStop \/ WriteStopFails \/ WriteEnd
      PROVE  UNCHANGED cacheVars
  BY <1>7 DEF ReadCommand, ReadBlock, ReadBlockFails, ReadStop, ReadStopFails,
     WriteCommand, WriteBlock, WriteBlockFails, WriteRefused, WriteDone, WriteStop,
     WriteStopFails, WriteEnd
<1> QED BY <1>1, <1>2, <1>3, <1>4, <1>5, <1>6, <1>7 DEF Next, Client, DriverStep

\* The cache of DiskIO is the one that TfCacheProofs speaks of.
LEMMA SameCache ==
    /\ CacheFacts!CacheAssumption
    /\ Cache!TypeOK <=> CacheFacts!TypeOK
    /\ Cache!Init <=> CacheFacts!Init
    /\ Cache!Next <=> CacheFacts!Next
    /\ Cache!cacheVars = CacheFacts!cacheVars
    /\ Cache!cacheVars = cacheVars
<1>1. CacheFacts!CacheAssumption
  BY DiskAssumption, SMT DEF DiskAssumption, CacheFacts!CacheAssumption
<1>2. Cache!TypeOK <=> CacheFacts!TypeOK
  BY Zenon DEF Cache!TypeOK, Cache!Slots, Cache!Null, Cache!Lba, CacheFacts!TypeOK,
     CacheFacts!Slots, CacheFacts!Null, CacheFacts!Lba
<1>3. Cache!Next <=> CacheFacts!Next
  BY Zenon DEF Cache!Next, Cache!Get, Cache!GetHit, Cache!GetMiss, Cache!GetNone,
     Cache!Touch, Cache!Hits, Cache!First, Cache!Last, Cache!ToUse, Cache!Invalid,
     Cache!Oldest, Cache!UsedDiff, Cache!Slots, Cache!Null, Cache!Invalidate,
     Cache!InvalidateMany, Cache!InvalidateAll, Cache!Drop, Cache!SwitchMode,
     Cache!Cleared, CacheFacts!Next, CacheFacts!Get, CacheFacts!GetHit,
     CacheFacts!GetMiss, CacheFacts!GetNone, CacheFacts!Touch, CacheFacts!Hits,
     CacheFacts!First, CacheFacts!Last, CacheFacts!ToUse, CacheFacts!Invalid,
     CacheFacts!Oldest, CacheFacts!UsedDiff, CacheFacts!Slots, CacheFacts!Null,
     CacheFacts!Invalidate, CacheFacts!InvalidateMany, CacheFacts!InvalidateAll,
     CacheFacts!Drop, CacheFacts!SwitchMode, CacheFacts!Cleared
<1>4. Cache!Init <=> CacheFacts!Init
  BY Zenon DEF Cache!Init, Cache!Cleared, Cache!Slots, Cache!Null, CacheFacts!Init,
     CacheFacts!Cleared, CacheFacts!Slots, CacheFacts!Null
<1>5. Cache!cacheVars = CacheFacts!cacheVars /\ Cache!cacheVars = cacheVars
  BY DEF Cache!cacheVars, CacheFacts!cacheVars, cacheVars
<1> QED BY <1>1, <1>2, <1>3, <1>4, <1>5

\* Therefore the cache stays what it is, by what is proved in TfCacheProofs.
LEMMA CacheTypeKept ==
    ASSUME DiskInv, [Next]_vars
    PROVE  Cache!TypeOK'
<1>1. Cache!Next \/ UNCHANGED cacheVars
  BY StepOfCache DEF vars
<1>2. CacheFacts!Next \/ UNCHANGED CacheFacts!cacheVars
  BY <1>1, SameCache DEF CacheFacts!cacheVars, cacheVars
<1>3. CacheFacts!TypeOK
  BY SameCache DEF DiskInv, TypeOK
<1>4. CacheFacts!TypeOK'
  BY <1>2, <1>3, SameCache, CacheFacts!TypeStep
<1>5. Cache!TypeOK' <=> CacheFacts!TypeOK'
  BY Zenon DEF Cache!TypeOK, Cache!Slots, Cache!Null, Cache!Lba, CacheFacts!TypeOK,
     CacheFacts!Slots, CacheFacts!Null, CacheFacts!Lba
<1> QED BY <1>4, <1>5

\* The counters of a call are numbers.
LEMMA CountTypes ==
    ASSUME DiskInv
    PROVE  /\ req.sector \in Nat /\ req.count \in Nat /\ left \in Nat
           /\ left <= req.count
<1>1. /\ req.sector \in Sectors \cup { 0 }
      /\ req.count \in ReadCounts \cup WriteCounts \cup { 0 }
  BY DEF DiskInv, TypeOK
<1>2. req.sector \in Nat /\ req.count \in Nat
  BY <1>1, ConstantsNat
<1>3. left \in 0 .. req.count
  BY DEF DiskInv, TypeOK
<1> QED BY <1>2, <1>3

\* The address that advances from block to block, turned into bytes for some cards
\* and back, is the number of the block and stays within the request.
LEMMA CurrentBlock ==
    ASSUME DiskInv, req.op # "none", left > 0
    PROVE  /\ Current = req.sector + req.count - left
           /\ Current \in Range(req.sector, req.count) /\ Current \in Sectors
<1>1. /\ req.sector \in Nat /\ req.count \in Nat
      /\ Range(req.sector, req.count) \subseteq Sectors
  BY SectorNamed
<1>2. left \in 1 .. req.count
  BY <1>1 DEF DiskInv, TypeOK
<1>3. (req.sector * 512) \div 512 = req.sector
  BY <1>1
<1>4. Current = req.sector + req.count - left
  BY <1>1, <1>2, <1>3 DEF Current, Address
<1>5. Current \in Range(req.sector, req.count)
  BY <1>1, <1>2, <1>4 DEF Range
<1> QED BY <1>1, <1>4, <1>5

\* What a sector holds is one of the contents.
LEMMA ContentType ==
    ASSUME DiskInv, NEW s \in Sectors
    PROVE  Content(s) \in Contents
<1>1. card[s] \in 0 .. MaxCalls
  BY DEF DiskInv, TypeOK
<1> QED BY <1>1 DEF Content, Contents

\* A block that arrives leaves a card.
LEMMA StoredType ==
    ASSUME DiskInv, req.op # "none", left > 0
    PROVE  Stored \in [ Sectors -> 0 .. MaxCalls ]
<1>1. writes \in 0 .. MaxCalls
  BY ConstantsNat DEF DiskInv, TypeOK
<1> QED BY <1>1, CurrentBlock DEF DiskInv, TypeOK, Stored

\* The steps of disk_read, one by one (diskio.c:361-451).
LEMMA LookupHitKeeps ==
    ASSUME DiskInv, LookupHit
    PROVE  DiskInv'
<1>1. Cache!TypeOK'
  BY CacheTypeKept DEF Next, DriverStep
<1>6. TypeOK'
  <2>1. slot' \in Slots
    BY ConstantsNat DEF Slots, DiskInv, TypeOK, CallInv
  <2>2. buff' \in Seq(Contents) /\ Len(buff') = 1
    BY <2>1 DEF DiskInv, TypeOK, LookupHit
  <2> QED BY <1>1, <2>2 DEF DiskInv, TypeOK, Goto, callVars, Cached, LookupHit
<1>7. CallInv'
  BY DEF DiskInv, CallInv, Writing, Goto, callVars, Cached, LookupHit
<1>8. ReadInv'
  BY DEF ReadInv, Goto, LookupHit
<1>9. WriteInv'
  BY DEF WriteInv, Goto, LookupHit
<1>10. OkClosesTransfer'
  BY DEF OkClosesTransfer, callVars, Cached, LookupHit
<1>11. UncachedReadRight'
  BY DEF UncachedReadRight, callVars, Cached, LookupHit
<1>12. WriteOkMeansStored'
  BY DEF WriteOkMeansStored, callVars, Cached, LookupHit
<1> QED BY <1>6, <1>7, <1>8, <1>9, <1>10, <1>11, <1>12 DEF DiskInv

LEMMA LookupMissKeeps ==
    ASSUME DiskInv, LookupMiss
    PROVE  DiskInv'
<1>1. Cache!TypeOK'
  BY CacheTypeKept DEF Next, DriverStep
<1>6. TypeOK'
  BY <1>1 DEF DiskInv, TypeOK, Goto, callVars, LookupMiss
<1>7. CallInv'
  BY DEF DiskInv, CallInv, Reading, Writing, Goto, callVars, LookupMiss
<1>8. ReadInv'
  BY DEF ReadInv, Goto, LookupMiss
<1>9. WriteInv'
  BY DEF WriteInv, Goto, LookupMiss
<1>10. OkClosesTransfer'
  BY DEF OkClosesTransfer, Goto, LookupMiss
<1>11. UncachedReadRight'
  BY DEF UncachedReadRight, Goto, LookupMiss
<1>12. WriteOkMeansStored'
  BY DEF WriteOkMeansStored, Goto, LookupMiss
<1> QED BY <1>6, <1>7, <1>8, <1>9, <1>10, <1>11, <1>12 DEF DiskInv

LEMMA ReadCommandKeeps ==
    ASSUME DiskInv, ReadCommand
    PROVE  DiskInv'
<1>1. Cache!TypeOK'
  BY CacheTypeKept DEF Next, DriverStep
<1>6. TypeOK'
  BY <1>1 DEF DiskInv, TypeOK, Goto, callVars, ReadCommand
<1>7. CallInv'
  BY DEF DiskInv, CallInv, Reading, Writing, Goto, callVars, ReadCommand
<1>8. ReadInv'
  BY DEF Blocks, DiskInv, TypeOK, CallInv, ReadInv, Reading, Goto, callVars,
     ReadCommand
<1>9. WriteInv'
  BY DEF WriteInv, Goto, ReadCommand
<1>10. OkClosesTransfer'
  BY DEF OkClosesTransfer, Goto, ReadCommand
<1>11. UncachedReadRight'
  BY DEF UncachedReadRight, Goto, ReadCommand
<1>12. WriteOkMeansStored'
  BY DEF WriteOkMeansStored, Goto, ReadCommand
<1> QED BY <1>6, <1>7, <1>8, <1>9, <1>10, <1>11, <1>12 DEF DiskInv

LEMMA ReadBlockKeeps ==
    ASSUME DiskInv, ReadBlock
    PROVE  DiskInv'
<1>1. Cache!TypeOK'
  BY CacheTypeKept DEF Next, DriverStep
<1>2. /\ Content(Current) = Content(req.sector + req.count - left)
      /\ Content(Current) \in Contents
  BY CurrentBlock, ContentType DEF DiskInv, CallInv, ReadInv, Reading, ReadBlock
<1>3. /\ buff \in Seq(Contents) /\ Len(buff) = req.count - left
      /\ left \in Int /\ req.count \in Int /\ req.sector \in Int
  BY CountTypes DEF Blocks, DiskInv, TypeOK, ReadInv, ReadBlock
<1>6. TypeOK'
  <2>1. buff' \in Seq(Contents) /\ Len(buff') = req.count - left + 1
    BY <1>2, <1>3 DEF ReadBlock
  <2> QED BY <1>1, <1>3, <2>1 DEF DiskInv, TypeOK, ReadInv, callVars, ReadBlock
<1>7. CallInv'
  BY DEF DiskInv, CallInv, Reading, Writing, callVars, ReadBlock
<1>8. ReadInv'
  <2>1. /\ UNCHANGED << card, req, open >> /\ left' = left - 1
        /\ pc = "read_data" /\ left > 0
    BY DEF DiskInv, ReadInv, callVars, ReadBlock
  <2>2. \A n : Blocks(n)' = Blocks(n)
    BY <2>1 DEF Blocks, Content
  <2>3. Append(buff, Content(Current)) = Blocks(req.count - left + 1)
    <3> DEFINE n == req.count - left
    <3>1. buff = Blocks(n) /\ n \in Nat
      BY <1>3 DEF DiskInv, ReadInv, ReadBlock
    <3>2. Content(Current) = Content(req.sector + (n + 1) - 1)
      BY <1>2, <1>3
    <3> HIDE DEF n
    <3>3. Append(Blocks(n), Content(req.sector + (n + 1) - 1)) = Blocks(n + 1)
      BY <3>1 DEF Blocks
    <3> QED BY <3>1, <3>2, <3>3 DEF n
  <2>4. buff' = Blocks(req.count - left')
    BY <2>3, <1>3 DEF ReadBlock
  <2>5. pc' = "read_data" => left' > 0
    BY <2>1, <1>3 DEF ReadBlock
  <2>6. pc' # "read_data" => pc' = "read_stop" /\ left' = 0
    BY DEF ReadBlock
  <2>7. pc' = "read_stop" => buff' = Blocks(req.count)
    BY <2>4, <2>6, <1>3
  <2> QED BY <2>1, <2>2, <2>4, <2>5, <2>6, <2>7 DEF ReadInv
<1>9. WriteInv'
  BY DEF WriteInv, ReadBlock
<1>10. OkClosesTransfer'
  BY DEF OkClosesTransfer, ReadBlock
<1>11. UncachedReadRight'
  BY DEF UncachedReadRight, ReadBlock
<1>12. WriteOkMeansStored'
  BY DEF WriteOkMeansStored, ReadBlock
<1> QED BY <1>6, <1>7, <1>8, <1>9, <1>10, <1>11, <1>12 DEF DiskInv

LEMMA ReadBlockFailsKeeps ==
    ASSUME DiskInv, ReadBlockFails
    PROVE  DiskInv'
<1>1. Cache!TypeOK'
  BY CacheTypeKept DEF Next, DriverStep
<1>6. TypeOK'
  BY <1>1 DEF DiskInv, TypeOK, Goto, ReadBlockFails
<1>7. CallInv'
  BY DEF DiskInv, CallInv, Reading, Writing, Goto, ReadBlockFails
<1>8. ReadInv'
  BY DEF ReadInv, Goto, ReadBlockFails
<1>9. WriteInv'
  BY DEF WriteInv, Goto, ReadBlockFails
<1>10. OkClosesTransfer'
  BY DEF OkClosesTransfer, Goto, ReadBlockFails
<1>11. UncachedReadRight'
  BY DEF UncachedReadRight, ReadBlockFails
<1>12. WriteOkMeansStored'
  BY DEF WriteOkMeansStored, ReadBlockFails
<1> QED BY <1>6, <1>7, <1>8, <1>9, <1>10, <1>11, <1>12 DEF DiskInv

LEMMA ReadStopKeeps ==
    ASSUME DiskInv, ReadStop
    PROVE  DiskInv'
<1>1. Cache!TypeOK'
  BY CacheTypeKept DEF Next, DriverStep
<1>6. TypeOK'
  BY <1>1 DEF DiskInv, TypeOK, Goto, callVars, ReadStop
<1>7. CallInv'
  BY DEF DiskInv, CallInv, Reading, Writing, Goto, callVars, ReadStop
<1>8. ReadInv'
  BY DEF Blocks, Content, DiskInv, ReadInv, Goto, callVars, ReadStop
<1>9. WriteInv'
  BY DEF WriteInv, Goto, ReadStop
<1>10. OkClosesTransfer'
  BY DEF OkClosesTransfer, ReadStop
<1>11. UncachedReadRight'
  BY DEF UncachedReadRight, Goto, ReadStop
<1>12. WriteOkMeansStored'
  BY DEF WriteOkMeansStored, Goto, ReadStop
<1> QED BY <1>6, <1>7, <1>8, <1>9, <1>10, <1>11, <1>12 DEF DiskInv

LEMMA ReadStopFailsKeeps ==
    ASSUME DiskInv, ReadStopFails
    PROVE  DiskInv'
<1>1. Cache!TypeOK'
  BY CacheTypeKept DEF Next, DriverStep
<1>6. TypeOK'
  BY <1>1 DEF DiskInv, TypeOK, Goto, callVars, ReadStopFails
<1>7. CallInv'
  BY DEF DiskInv, CallInv, Reading, Writing, Goto, callVars, ReadStopFails
<1>8. ReadInv'
  BY DEF ReadInv, Goto, ReadStopFails
<1>9. WriteInv'
  BY DEF WriteInv, Goto, ReadStopFails
<1>10. OkClosesTransfer'
  BY DEF OkClosesTransfer, ReadStopFails
<1>11. UncachedReadRight'
  BY DEF UncachedReadRight, ReadStopFails
<1>12. WriteOkMeansStored'
  BY DEF WriteOkMeansStored, ReadStopFails
<1> QED BY <1>6, <1>7, <1>8, <1>9, <1>10, <1>11, <1>12 DEF DiskInv

LEMMA ReadEndKeeps ==
    ASSUME DiskInv, ReadEnd
    PROVE  DiskInv'
<1>1. Cache!TypeOK'
  BY CacheTypeKept DEF Next, DriverStep
<1>6. TypeOK'
  <2>1. Copied(buff) \in Contents
    BY DEF Copied, Contents, DiskInv, TypeOK
  <2>2. data' \in [ Slots -> Contents ]
    BY <2>1 DEF DiskInv, TypeOK, ReadEnd
  <2> QED BY <1>1, <2>2 DEF DiskInv, TypeOK, Goto, callVars, ReadEnd
<1>7. CallInv'
  BY DEF DiskInv, CallInv, Reading, Writing, Goto, callVars, ReadEnd
<1>8. ReadInv'
  BY DEF ReadInv, Goto, ReadEnd
<1>9. WriteInv'
  BY DEF WriteInv, Goto, ReadEnd
<1>10. OkClosesTransfer'
  BY DEF DiskInv, ReadInv, OkClosesTransfer, Goto, ReadEnd
<1>11. UncachedReadRight'
  BY DEF Blocks, Content, DiskInv, ReadInv, UncachedReadRight, Goto, callVars,
     ReadEnd
<1>12. WriteOkMeansStored'
  BY DEF DiskInv, CallInv, WriteOkMeansStored, Reading, Goto, callVars, ReadEnd
<1> QED BY <1>6, <1>7, <1>8, <1>9, <1>10, <1>11, <1>12 DEF DiskInv

\* The steps of disk_write (diskio.c:499-612).
LEMMA WriteCommandKeeps ==
    ASSUME DiskInv, WriteCommand
    PROVE  DiskInv'
<1>1. Cache!TypeOK'
  BY CacheTypeKept DEF Next, DriverStep
<1>6. TypeOK'
  BY <1>1 DEF DiskInv, TypeOK, Goto, callVars, WriteCommand
<1>7. CallInv'
  BY DEF DiskInv, CallInv, Reading, Writing, Goto, callVars, WriteCommand
<1>8. ReadInv'
  BY DEF ReadInv, Goto, WriteCommand
<1>9. WriteInv'
  <2>1. req.sector .. req.sector + 0 - 1 = { }
    BY CountTypes
  <2>2. pc' = "write_data" => left' = req.count' /\ open' = "write" /\ left' > 0
    BY DEF DiskInv, CallInv, Writing, Goto, callVars, WriteCommand
  <2> QED BY <2>1, <2>2 DEF Written, Range, DiskInv, TypeOK, CallInv, WriteInv, Goto,
      callVars, WriteCommand
<1>10. OkClosesTransfer'
  BY DEF OkClosesTransfer, Goto, WriteCommand
<1>11. UncachedReadRight'
  BY DEF UncachedReadRight, Goto, WriteCommand
<1>12. WriteOkMeansStored'
  BY DEF WriteOkMeansStored, Goto, WriteCommand
<1> QED BY <1>6, <1>7, <1>8, <1>9, <1>10, <1>11, <1>12 DEF DiskInv

LEMMA WriteBlockKeeps ==
    ASSUME DiskInv, WriteBlock
    PROVE  DiskInv'
<1>1. Cache!TypeOK'
  BY CacheTypeKept DEF Next, DriverStep
<1>6. TypeOK'
  <2>1. card' \in [ Sectors -> 0 .. MaxCalls ]
    BY StoredType DEF DiskInv, CallInv, Writing, WriteBlock
  <2>2. left' \in 0 .. req.count
    BY CountTypes DEF WriteBlock
  <2> QED BY <1>1, <2>1, <2>2 DEF DiskInv, TypeOK, callVars, WriteBlock, AfterBlock
<1>7. CallInv'
  BY DEF DiskInv, CallInv, callVars, WriteBlock
<1>8. ReadInv'
  BY DEF ReadInv, WriteBlock
<1>9. WriteInv'
  <2>1. pc' = "write_data" /\ UNCHANGED << req, writes >> /\ left' = left - 1
    BY DEF callVars, WriteBlock
  <2>2. req.op # "none" /\ left > 0
    BY DEF DiskInv, CallInv, Writing, WriteBlock
  <2>3. Current = req.sector + req.count - left /\ Current \in Sectors
    BY <2>2, CurrentBlock
  <2>8. /\ req.sector \in Nat /\ req.count \in Nat /\ left \in Nat /\ left <= req.count
    BY CountTypes
  <2>4. Range(req.sector, req.count - left')
          = Range(req.sector, req.count - left) \cup { Current }
    BY <2>1, <2>3, <2>8, ConstantsNat DEF Range
  <2>5. /\ card'[Current] = writes
        /\ \A s \in Sectors : card[s] = writes => card'[s] = writes
    BY <2>3 DEF DiskInv, TypeOK, WriteBlock, Stored
  <2>6. Range(req.sector, req.count - left) \subseteq Sectors
    BY <2>2, SectorNamed DEF Range, DiskInv, TypeOK
  <2>7. \A s \in Range(req.sector, req.count - left') : card'[s] = writes
    BY <2>4, <2>5, <2>6 DEF Written, DiskInv, WriteInv, WriteBlock
  <2>9. left' > 0 => req.count > 1
    BY <2>1, <2>8
  <2>10. open' = AfterBlock' /\ (left' > 0 => open' = "write")
    BY <2>1, <2>9 DEF WriteBlock, AfterBlock
  <2> QED BY <2>1, <2>7, <2>10 DEF Written, WriteInv
<1>10. OkClosesTransfer'
  BY DEF OkClosesTransfer, WriteBlock
<1>11. UncachedReadRight'
  BY DEF UncachedReadRight, WriteBlock
<1>12. WriteOkMeansStored'
  BY DEF WriteOkMeansStored, WriteBlock
<1> QED BY <1>6, <1>7, <1>8, <1>9, <1>10, <1>11, <1>12 DEF DiskInv

LEMMA WriteBlockFailsKeeps ==
    ASSUME DiskInv, WriteBlockFails
    PROVE  DiskInv'
<1>1. Cache!TypeOK'
  BY CacheTypeKept DEF Next, DriverStep
<1>6. TypeOK'
  BY <1>1, ConstantsNat DEF DiskInv, TypeOK, Goto, WriteBlockFails, Stored,
     CutShort, Answered, AfterBlock
<1>7. CallInv'
  BY DEF DiskInv, CallInv, Reading, Writing, Goto, WriteBlockFails
<1>8. ReadInv'
  BY DEF ReadInv, Goto, WriteBlockFails
<1>9. WriteInv'
  BY DEF WriteInv, Goto, WriteBlockFails
<1>10. OkClosesTransfer'
  BY DEF OkClosesTransfer, Goto, WriteBlockFails
<1>11. UncachedReadRight'
  BY DEF UncachedReadRight, WriteBlockFails
<1>12. WriteOkMeansStored'
  BY DEF WriteOkMeansStored, WriteBlockFails
<1> QED BY <1>6, <1>7, <1>8, <1>9, <1>10, <1>11, <1>12 DEF DiskInv

LEMMA WriteRefusedKeeps ==
    ASSUME DiskInv, WriteRefused
    PROVE  DiskInv'
<1>1. Cache!TypeOK'
  BY CacheTypeKept DEF Next, DriverStep
<1>6. TypeOK'
  BY <1>1, ConstantsNat DEF DiskInv, TypeOK, Goto, callVars, WriteRefused,
     Refusal, Stored, CutShort, Answered, AfterBlock
<1>7. CallInv'
  BY DEF DiskInv, CallInv, Reading, Writing, Goto, callVars, WriteRefused
<1>8. ReadInv'
  BY DEF ReadInv, Goto, WriteRefused
<1>9. WriteInv'
  BY DEF DiskInv, CallInv, WriteInv, Goto, WriteRefused
<1>10. OkClosesTransfer'
  BY DEF OkClosesTransfer, Goto, WriteRefused
<1>11. UncachedReadRight'
  BY DEF UncachedReadRight, Goto, WriteRefused
<1>12. WriteOkMeansStored'
  BY DEF WriteOkMeansStored, Goto, WriteRefused
<1> QED BY <1>6, <1>7, <1>8, <1>9, <1>10, <1>11, <1>12 DEF DiskInv

LEMMA WriteDoneKeeps ==
    ASSUME DiskInv, WriteDone
    PROVE  DiskInv'
<1>1. Cache!TypeOK'
  BY CacheTypeKept DEF Next, DriverStep
<1>6. TypeOK'
  BY <1>1 DEF DiskInv, TypeOK, Goto, callVars, WriteDone
<1>7. CallInv'
  BY DEF DiskInv, CallInv, Reading, Writing, Goto, callVars, WriteDone
<1>8. ReadInv'
  BY DEF ReadInv, Goto, WriteDone
<1>9. WriteInv'
  <2>1. /\ left = 0 /\ req.count - 0 = req.count
        /\ UNCHANGED << card, open, req, writes, lost >>
        /\ Written(req.count) /\ open = AfterBlock /\ ~lost
    BY CountTypes DEF DiskInv, CallInv, WriteInv, Goto, callVars, WriteDone
  <2> QED BY <2>1 DEF Written, WriteInv, Goto, WriteDone, AfterBlock
<1>10. OkClosesTransfer'
  BY DEF OkClosesTransfer, Goto, WriteDone
<1>11. UncachedReadRight'
  BY DEF UncachedReadRight, Goto, WriteDone
<1>12. WriteOkMeansStored'
  BY DEF WriteOkMeansStored, Goto, WriteDone
<1> QED BY <1>6, <1>7, <1>8, <1>9, <1>10, <1>11, <1>12 DEF DiskInv

\* The stop token leaves the card as it was, but for a block that it was taking in.
LEMMA TokenKeeps ==
    ASSUME DiskInv, NEW S, S \subseteq { open } \cup AfterToken(open), Token(S)
    PROVE  /\ open' \in { "none", "read", "write", "block", "busy" }
           /\ card' \in [ Sectors -> 0 .. MaxCalls ]
           /\ open # "block" => card' = card
           /\ open \in { "write", "none" } => open' \in { open, "none" }
<1>1. open' \in { open } \cup AfterToken(open)
  BY DEF Token
<1>2. open \in { "none", "read", "write", "block", "busy" }
  BY DEF DiskInv, TypeOK
<1>3. card' \in { card, Stored }
  BY DEF Token
<1>4. card \in [ Sectors -> 0 .. MaxCalls ] /\ writes \in 0 .. MaxCalls
  BY ConstantsNat DEF DiskInv, TypeOK
<1>5. card' \in [ Sectors -> 0 .. MaxCalls ]
  BY <1>3, <1>4 DEF Stored
<1>6. open # "block" => card' = card
  BY DEF Token
<1> QED BY <1>1, <1>2, <1>5, <1>6 DEF AfterToken

LEMMA WriteStopKeeps ==
    ASSUME DiskInv, WriteStop
    PROVE  DiskInv'
<1>1. Cache!TypeOK'
  BY CacheTypeKept DEF Next, DriverStep
<1>2. ASSUME req.count > 1
      PROVE  /\ open' \in { "none", "read", "write", "block", "busy" }
             /\ card' \in [ Sectors -> 0 .. MaxCalls ]
             /\ open # "block" => card' = card
             /\ open \in { "write", "none" } => open' = "none"
  <2> DEFINE S == { state \in AfterToken(open) : state = "busy" => open = "block" }
  <2>1. Token(S) /\ S \subseteq { open } \cup AfterToken(open)
    BY <1>2 DEF WriteStop
  <2>2. open \in { "write", "none" } => S \subseteq { "none" }
    BY DEF AfterToken
  <2>3. open' \in S
    BY <2>1 DEF Token
  <2> HIDE DEF S
  <2> QED BY <2>1, <2>2, <2>3, TokenKeeps
<1>6. TypeOK'
  <2>1. /\ open' \in { "none", "read", "write", "block", "busy" }
        /\ card' \in [ Sectors -> 0 .. MaxCalls ]
    BY <1>2 DEF DiskInv, TypeOK, WriteStop
  <2> QED BY <1>1, <2>1 DEF DiskInv, TypeOK, Goto, callVars, WriteStop
<1>7. CallInv'
  BY DEF DiskInv, CallInv, Reading, Writing, Goto, callVars, WriteStop
<1>8. ReadInv'
  BY DEF ReadInv, Goto, WriteStop
<1>9. WriteInv'
  <2>1. pc = "write_stop" /\ pc' = "write_end" /\ UNCHANGED << req, writes, lost >>
    BY DEF Goto, callVars, WriteStop
  <2>2. ~lost => Written(req.count) /\ open \in { AfterBlock, "none" }
    BY <2>1 DEF DiskInv, WriteInv
  <2>3. ~lost => open' = "none" /\ card' = card
    BY <1>2, <2>2 DEF AfterBlock, WriteStop
  <2> QED BY <2>1, <2>2, <2>3 DEF Written, WriteInv
<1>10. OkClosesTransfer'
  BY DEF OkClosesTransfer, Goto, WriteStop
<1>11. UncachedReadRight'
  BY DEF UncachedReadRight, Goto, WriteStop
<1>12. WriteOkMeansStored'
  BY DEF WriteOkMeansStored, Goto, WriteStop
<1> QED BY <1>6, <1>7, <1>8, <1>9, <1>10, <1>11, <1>12 DEF DiskInv

LEMMA WriteStopFailsKeeps ==
    ASSUME DiskInv, WriteStopFails
    PROVE  DiskInv'
<1>1. Cache!TypeOK'
  BY CacheTypeKept DEF Next, DriverStep
<1>2. /\ open' \in { "none", "read", "write", "block", "busy" }
      /\ card' \in [ Sectors -> 0 .. MaxCalls ]
      /\ open # "block" => card' = card
      /\ open \in { "write", "none" } => open' \in { open, "none" }
  BY TokenKeeps DEF WriteStopFails
<1>6. TypeOK'
  BY <1>1, <1>2 DEF DiskInv, TypeOK, callVars, WriteStopFails
<1>7. CallInv'
  BY DEF DiskInv, CallInv, callVars, WriteStopFails
<1>8. ReadInv'
  BY DEF ReadInv, WriteStopFails
<1>9. WriteInv'
  <2>1. /\ pc = "write_stop" /\ pc' = pc
        /\ UNCHANGED << req, left, writes, lost >>
    BY DEF callVars, WriteStopFails
  <2>2. IF lost THEN left > 0
                ELSE Written(req.count) /\ open \in { AfterBlock, "none" }
    BY <2>1 DEF DiskInv, WriteInv
  <2>3. ~lost => open' \in { AfterBlock, "none" } /\ card' = card
    BY <1>2, <2>2 DEF AfterBlock
  <2> QED BY <2>1, <2>2, <2>3 DEF Written, WriteInv, AfterBlock
<1>10. OkClosesTransfer'
  BY DEF OkClosesTransfer, WriteStopFails
<1>11. UncachedReadRight'
  BY DEF UncachedReadRight, WriteStopFails
<1>12. WriteOkMeansStored'
  BY DEF WriteOkMeansStored, WriteStopFails
<1> QED BY <1>6, <1>7, <1>8, <1>9, <1>10, <1>11, <1>12 DEF DiskInv

LEMMA WriteEndKeeps ==
    ASSUME DiskInv, WriteEnd
    PROVE  DiskInv'
<1>1. Cache!TypeOK'
  BY CacheTypeKept DEF Next, DriverStep
<1>6. TypeOK'
  BY <1>1 DEF DiskInv, TypeOK, Goto, callVars, WriteEnd
<1>7. CallInv'
  BY DEF DiskInv, CallInv, Reading, Writing, Goto, callVars, WriteEnd
<1>8. ReadInv'
  BY DEF ReadInv, Goto, WriteEnd
<1>9. WriteInv'
  BY DEF WriteInv, Goto, WriteEnd
<1>10. OkClosesTransfer'
  BY DEF DiskInv, CallInv, WriteInv, OkClosesTransfer, Writing, Goto, callVars,
     WriteEnd
<1>11. UncachedReadRight'
  BY DEF DiskInv, CallInv, UncachedReadRight, Writing, Goto, callVars, WriteEnd
<1>12. WriteOkMeansStored'
  BY DEF Written, DiskInv, WriteInv, WriteOkMeansStored, Goto, callVars, WriteEnd
<1> QED BY <1>6, <1>7, <1>8, <1>9, <1>10, <1>11, <1>12 DEF DiskInv

\* What comes between two calls: disk_initialize, and a change of the video mode.
LEMMA InitializeKeeps ==
    ASSUME DiskInv, Initialize
    PROVE  DiskInv'
<1>1. Cache!TypeOK'
  BY CacheTypeKept DEF Next, Client
<1>6. TypeOK'
  BY <1>1, ConstantsNat DEF DiskInv, TypeOK, Initialize
<1>7. CallInv'
  BY DEF DiskInv, CallInv, Initialize
<1>8. ReadInv'
  BY DEF ReadInv, Initialize
<1>9. WriteInv'
  BY DEF WriteInv, Initialize
<1>10. OkClosesTransfer'
  BY DEF DiskInv, OkClosesTransfer, Cached, Initialize
<1>11. UncachedReadRight'
  BY DEF Content, DiskInv, UncachedReadRight, Cached, Initialize
<1>12. WriteOkMeansStored'
  BY DEF DiskInv, WriteOkMeansStored, Initialize
<1> QED BY <1>6, <1>7, <1>8, <1>9, <1>10, <1>11, <1>12 DEF DiskInv

LEMMA SwitchModeKeeps ==
    ASSUME DiskInv, SwitchMode
    PROVE  DiskInv'
<1>1. Cache!TypeOK'
  BY CacheTypeKept DEF Next, Client
<1>6. TypeOK'
  BY <1>1, ConstantsNat DEF DiskInv, TypeOK, SwitchMode
<1>7. CallInv'
  BY DEF DiskInv, CallInv, SwitchMode
<1>8. ReadInv'
  BY DEF ReadInv, SwitchMode
<1>9. WriteInv'
  BY DEF WriteInv, SwitchMode
<1>10. OkClosesTransfer'
  BY DEF DiskInv, OkClosesTransfer, Cached, SwitchMode
<1>11. UncachedReadRight'
  BY DEF Content, DiskInv, UncachedReadRight, Cached, SwitchMode
<1>12. WriteOkMeansStored'
  BY DEF DiskInv, WriteOkMeansStored, SwitchMode
<1> QED BY <1>6, <1>7, <1>8, <1>9, <1>10, <1>11, <1>12 DEF DiskInv

\* What every call sets up as it begins.
LEMMA EnterTypes ==
    ASSUME DiskInv, NEW op \in { "read", "write" }, NEW s \in Sectors,
           NEW n \in ReadCounts \cup WriteCounts, NEW window \in BOOLEAN,
           Enter(op, s, n, window)
    PROVE  /\ req' \in [ op : { "none", "read", "write" }, sector : Sectors \cup { 0 },
                         count : ReadCounts \cup WriteCounts \cup { 0 },
                         window : BOOLEAN ]
           /\ req'.op = op /\ req'.sector = s /\ req'.count = n
           /\ left' = n /\ left' \in 0 .. req'.count /\ n > 0
           /\ buff' = << >> /\ buff' \in Seq(Contents) /\ Len(buff') <= req'.count
           /\ result' = "ERROR" /\ lost' = FALSE
           /\ calls' \in 0 .. MaxCalls /\ calls' = calls + 1
           /\ Range(s, n) \subseteq Sectors
           /\ UNCHANGED << data, card, open >>
<1>1. n \in Nat /\ n > 0
  BY ConstantsNat
<1>2. /\ req' = [ op |-> op, sector |-> s, count |-> n, window |-> window ]
      /\ left' = n /\ buff' = << >> /\ result' = "ERROR" /\ lost' = FALSE
      /\ Range(s, n) \subseteq Sectors /\ UNCHANGED << data, card, open >>
  BY DEF Enter
<1>3. calls' \in 0 .. MaxCalls /\ calls' = calls + 1
  BY ConstantsNat DEF Enter, DiskInv, TypeOK
<1> QED BY <1>1, <1>2, <1>3

\* The two calls as they begin.
LEMMA ReadKeeps ==
    ASSUME DiskInv, NEW s \in Sectors, NEW n \in ReadCounts, NEW window \in BOOLEAN,
           Read(s, n, window)
    PROVE  DiskInv'
<1>1. Cache!TypeOK'
  BY CacheTypeKept DEF Next, Client
<1>2. Enter("read", s, n, window) /\ pc' = "lookup" /\ writes' = writes
  BY DEF Read
<1>6. /\ n \in ReadCounts \cup WriteCounts
      /\ "read" \in { "read", "write" } /\ window \in BOOLEAN
  OBVIOUS
<1>7. /\ req' \in [ op : { "none", "read", "write" }, sector : Sectors \cup { 0 },
                     count : ReadCounts \cup WriteCounts \cup { 0 },
                     window : BOOLEAN ]
      /\ req'.op = "read" /\ req'.sector = s /\ req'.count = n
      /\ left' = n /\ left' \in 0 .. req'.count /\ n > 0
      /\ buff' = << >> /\ buff' \in Seq(Contents) /\ Len(buff') <= req'.count
      /\ result' = "ERROR" /\ lost' = FALSE
      /\ calls' \in 0 .. MaxCalls /\ calls' = calls + 1
      /\ Range(s, n) \subseteq Sectors
      /\ UNCHANGED << data, card, open >>
  BY <1>2, EnterTypes
<1>8. writes' \in 0 .. calls'
  BY <1>2, <1>7 DEF DiskInv, TypeOK
<1>3. TypeOK'
  BY <1>1, <1>2, <1>7, <1>8 DEF DiskInv, TypeOK
<1>4. CallInv' /\ ReadInv' /\ WriteInv'
  BY <1>2, <1>7 DEF CallInv, ReadInv, WriteInv, Writing
<1>5. OkClosesTransfer' /\ UncachedReadRight' /\ WriteOkMeansStored'
  BY <1>2 DEF OkClosesTransfer, UncachedReadRight, WriteOkMeansStored
<1> QED BY <1>3, <1>4, <1>5 DEF DiskInv

LEMMA WriteKeeps ==
    ASSUME DiskInv, NEW s \in Sectors, NEW n \in WriteCounts, Write(s, n)
    PROVE  DiskInv'
<1>1. Cache!TypeOK'
  BY CacheTypeKept DEF Next, Client
<1>2. Enter("write", s, n, FALSE) /\ pc' = "write_cmd" /\ writes' = writes + 1
  BY DEF Write
<1>6. /\ n \in ReadCounts \cup WriteCounts
      /\ "write" \in { "read", "write" } /\ FALSE \in BOOLEAN
  OBVIOUS
<1>7. /\ req' \in [ op : { "none", "read", "write" }, sector : Sectors \cup { 0 },
                     count : ReadCounts \cup WriteCounts \cup { 0 },
                     window : BOOLEAN ]
      /\ req'.op = "write" /\ req'.sector = s /\ req'.count = n
      /\ left' = n /\ left' \in 0 .. req'.count /\ n > 0
      /\ buff' = << >> /\ buff' \in Seq(Contents) /\ Len(buff') <= req'.count
      /\ result' = "ERROR" /\ lost' = FALSE
      /\ calls' \in 0 .. MaxCalls /\ calls' = calls + 1
      /\ Range(s, n) \subseteq Sectors
      /\ UNCHANGED << data, card, open >>
  BY <1>2, EnterTypes
<1>8. writes' \in 0 .. calls'
  BY <1>2, <1>7 DEF DiskInv, TypeOK
<1>3. TypeOK'
  BY <1>1, <1>2, <1>7, <1>8 DEF DiskInv, TypeOK
<1>4. CallInv' /\ ReadInv' /\ WriteInv'
  BY <1>2, <1>7 DEF CallInv, ReadInv, WriteInv, Reading
<1>5. OkClosesTransfer' /\ UncachedReadRight' /\ WriteOkMeansStored'
  BY <1>2 DEF OkClosesTransfer, UncachedReadRight, WriteOkMeansStored
<1> QED BY <1>3, <1>4, <1>5 DEF DiskInv

\* Before the first call.
LEMMA DiskInit == Init => DiskInv
<1> SUFFICES ASSUME Init PROVE DiskInv
  OBVIOUS
<1>1. Cache!Init
  BY DEF Init
<1>2. Cache!TypeOK
  <2>1. 0 \in 0 .. CounterMod - 1
    BY SameCache, SMT DEF CacheFacts!CacheAssumption
  <2> QED BY <1>1, <2>1, SMT DEF Cache!Init, Cache!TypeOK, Cache!Cleared,
      Cache!Lba, Cache!Slots, Cache!Null
<1>6. Junk \in Contents /\ << >> \in Seq(Contents) /\ Len(<< >>) <= 0
  BY DEF Contents
<1>7. 0 \in 0 .. MaxCalls
  BY ConstantsNat
<1>8. /\ req \in [ op : { "none", "read", "write" }, sector : Sectors \cup { 0 },
                    count : ReadCounts \cup WriteCounts \cup { 0 },
                    window : BOOLEAN ]
      /\ req.count = 0
  BY DEF Init
<1>9. data \in [ Slots -> Contents ] /\ card \in [ Sectors -> 0 .. MaxCalls ]
  BY <1>6, <1>7 DEF Init
<1>10. /\ left = 0 /\ 0 \in 0 .. 0 /\ buff = << >> /\ calls = 0 /\ writes = 0
       /\ open = "none" /\ pc = "idle" /\ result = "OK" /\ lost = FALSE
  BY DEF Init
<1>3. TypeOK
  BY <1>2, <1>6, <1>7, <1>8, <1>9, <1>10 DEF TypeOK
<1>4. CallInv /\ ReadInv /\ WriteInv
  BY DEF Init, CallInv, ReadInv, WriteInv, Reading, Writing
<1>5. OkClosesTransfer /\ UncachedReadRight /\ WriteOkMeansStored
  BY DEF Init, OkClosesTransfer, UncachedReadRight, WriteOkMeansStored
<1> QED BY <1>3, <1>4, <1>5 DEF DiskInv

\* A step that changes nothing.
LEMMA StutterKeeps == ASSUME DiskInv, UNCHANGED vars PROVE DiskInv'
<1>1. Cache!TypeOK'
  BY CacheTypeKept
<1>2. TypeOK'
  BY <1>1 DEF DiskInv, TypeOK, vars, callVars
<1>3. CallInv' /\ ReadInv' /\ WriteInv'
  BY DEF DiskInv, CallInv, ReadInv, WriteInv, Blocks, Content, Written, AfterBlock,
     vars, callVars
<1>4. OkClosesTransfer' /\ UncachedReadRight' /\ WriteOkMeansStored'
  BY DEF DiskInv, OkClosesTransfer, UncachedReadRight, WriteOkMeansStored, Cached,
     Content, vars, callVars
<1> QED BY <1>2, <1>3, <1>4 DEF DiskInv

\* No step of the driver or of its client breaks the invariant.
LEMMA DiskNext == DiskInv /\ [Next]_vars => DiskInv'
BY LookupHitKeeps, LookupMissKeeps, ReadCommandKeeps, ReadBlockKeeps,
   ReadBlockFailsKeeps, ReadStopKeeps, ReadStopFailsKeeps, ReadEndKeeps,
   WriteCommandKeeps, WriteBlockKeeps, WriteBlockFailsKeeps, WriteRefusedKeeps,
   WriteDoneKeeps, WriteStopKeeps, WriteStopFailsKeeps, WriteEndKeeps,
   InitializeKeeps, SwitchModeKeeps, ReadKeeps, WriteKeeps, StutterKeeps DEF Next,
   Client, DriverStep

\* The invariant of disk_read and disk_write holds throughout, whatever fails on
\* the way and with whatever cache.
THEOREM DiskInvariant == Spec => []DiskInv
BY DiskInit, DiskNext, PTL DEF Spec

\* Every variable of the transfers keeps its type: the counts never leave their
\* range, the buffer never grows beyond what was asked for, and what the cache's
\* index holds are sectors (diskio.c:361-541, tfcache.c).
THEOREM DiskTypeCorrect == Spec => []TypeOK
<1>1. DiskInv => TypeOK
  BY DEF DiskInv
<1> QED BY <1>1, DiskInvariant, PTL

\* A transfer that returns RES_OK, and is not a write that lost a block, leaves the
\* card in the middle of nothing: whatever was refused, timed out or had to be sent
\* again on the way, the stop token met a card that waited for it (diskio.c:411-482,
\* 532-608).
THEOREM OkIsClosed == Spec => []OkClosesTransfer
<1>1. DiskInv => OkClosesTransfer
  BY DEF DiskInv
<1> QED BY <1>1, DiskInvariant, PTL

\* A read past the cache that returns RES_OK and lost no block has put the contents
\* of all its sectors into the caller's buffer in order, on cards that are addressed
\* in bytes too, whatever failed in this call or before it (diskio.c:387-428).
THEOREM UncachedReadsAreRight == Spec => []UncachedReadRight
<1>1. DiskInv => UncachedReadRight
  BY DEF DiskInv
<1> QED BY <1>1, DiskInvariant, PTL

\* A write that returns RES_OK and lost no block has put every one of its blocks on
\* the card, in whichever way it came out of its loop (diskio.c:532-612).
THEOREM WritesAreStored == Spec => []WriteOkMeansStored
<1>1. DiskInv => WriteOkMeansStored
  BY DEF DiskInv
<1> QED BY <1>1, DiskInvariant, PTL

\* Every step of the driver brings the end of its call nearer, but the stop token of a
\* multiple write, which is sent until the card is ready.
LEMMA DriverAdvances ==
    ASSUME DiskInv, pc # "idle", Next
    PROVE  \/ StepsLeft' < StepsLeft
           \/ WriteStopFails /\ StepsLeft' = StepsLeft
<1>1. left \in Nat
  BY CountTypes
<1>2. ~Client
  BY DEF Client, Read, Write, Enter, Initialize, SwitchMode
<1> USE DEF StepsLeft, Goto, callVars
<1>3. CASE LookupHit \/ LookupMiss
  BY <1>1, <1>3 DEF LookupHit, LookupMiss
<1>4. CASE ReadCommand \/ WriteCommand
  BY <1>1, <1>4 DEF ReadCommand, WriteCommand
<1>5. CASE ReadBlock
  <2>1. pc = "read_data" /\ left' = left - 1 /\ pc' \in { "read_data", "read_stop" }
    BY <1>5 DEF ReadBlock
  <2> QED BY <1>1, <2>1
<1>6. CASE ReadBlockFails \/ ReadStop \/ ReadStopFails \/ ReadEnd
  BY <1>1, <1>6 DEF ReadBlockFails, ReadStop, ReadStopFails, ReadEnd
<1>7. CASE WriteBlock
  BY <1>1, <1>7 DEF WriteBlock
<1>8. CASE \/ WriteBlockFails \/ WriteRefused \/ WriteDone \/ WriteStop \/ WriteEnd
  BY <1>1, <1>8 DEF WriteBlockFails, WriteRefused, WriteDone, WriteStop, WriteEnd
<1>9. CASE WriteStopFails
  BY <1>9 DEF WriteStopFails
<1> QED BY <1>2, <1>3, <1>4, <1>5, <1>6, <1>7, <1>8, <1>9 DEF Next, DriverStep

\* Every call of disk_read and disk_write ends at most five steps after its last
\* block, in whichever order commands, blocks and stops fail, not counting the rounds
\* of the loop that sends the stop token of a multiple write until the card is ready:
\* that one has no bound (diskio.c:563-576).
THEOREM DiskCallsEnd == Spec => CallsAdvance /\ [](StepsLeft \in 0 .. req.count + 5)
<1>1. DiskInv /\ [Next]_vars =>
        [ pc # "idle" => \/ StepsLeft' < StepsLeft
                         \/ WriteStopFails /\ StepsLeft' = StepsLeft ]_vars
  BY DriverAdvances
<1>2. DiskInv => StepsLeft \in 0 .. req.count + 5
  <2> SUFFICES ASSUME DiskInv PROVE StepsLeft \in 0 .. req.count + 5
    OBVIOUS
  <2>1. req.count \in Nat /\ left \in 0 .. req.count
    BY CountTypes
  <2>2. pc \in { "idle", "lookup", "read_cmd", "read_data", "read_stop", "read_end",
                "write_cmd", "write_data", "write_stop", "write_end" }
    BY DEF DiskInv, TypeOK
  <2> QED BY <2>1, <2>2 DEF StepsLeft
<1> QED BY <1>1, <1>2, DiskInvariant, PTL DEF Spec, CallsAdvance

\* Whatever fails on the card, disk_read, disk_write and disk_initialize only ever
\* move the cache's index in the ways TfCache has: the index of DiskIO implements
\* TfCache (the calls of nile_tfcache_* in diskio.c, and tfcache.c).
THEOREM IsCache == Spec => ImplementsCache
<1>1. Init => Cache!Init
  BY DEF Init
<1>2. DiskInv /\ [Next]_vars => [Cache!Next]_(Cache!cacheVars)
  <2>1. ASSUME DiskInv, [Next]_vars PROVE Cache!Next \/ UNCHANGED cacheVars
    BY <2>1, StepOfCache DEF vars
  <2>2. UNCHANGED cacheVars => UNCHANGED Cache!cacheVars
    BY DEF cacheVars, Cache!cacheVars
  <2> QED BY <2>1, <2>2
<1> QED BY <1>1, <1>2, DiskInvariant, PTL DEF Spec, Cache!Spec, ImplementsCache

\* What is proved of TfCache is therefore true of the driver's cache: no sector is in
\* two valid slots, and one of the slots can always be handed out (tfcache.c:59-95).
THEOREM DiskNoTwins == Spec => [](Cache!UniqueValid /\ Cache!AlwaysRoom)
<1>1. Cache!Spec => CacheFacts!Spec
  <2>1. Cache!Init => CacheFacts!Init
    BY SameCache
  <2>2. [Cache!Next]_(Cache!cacheVars) => [CacheFacts!Next]_(CacheFacts!cacheVars)
    <3>1. UNCHANGED Cache!cacheVars => UNCHANGED CacheFacts!cacheVars
      BY DEF Cache!cacheVars, CacheFacts!cacheVars
    <3> QED BY SameCache, <3>1
  <2> QED BY <2>1, <2>2, PTL DEF Cache!Spec, CacheFacts!Spec
<1>2. CacheFacts!Spec => []CacheFacts!UniqueValid /\ []CacheFacts!AlwaysRoom
  BY SameCache, CacheFacts!NoTwins, CacheFacts!RoomForever, PTL
<1>3. CacheFacts!UniqueValid /\ CacheFacts!AlwaysRoom
        => Cache!UniqueValid /\ Cache!AlwaysRoom
  BY Zenon DEF CacheFacts!UniqueValid, CacheFacts!AlwaysRoom, Cache!UniqueValid,
     Cache!AlwaysRoom, CacheFacts!Slots, Cache!Slots, CacheFacts!First,
     Cache!First, CacheFacts!Oldest, Cache!Oldest, CacheFacts!UsedDiff,
     Cache!UsedDiff
<1> QED BY IsCache, <1>1, <1>2, <1>3, PTL DEF ImplementsCache

----------------------------------------------------------------------------
\* Where the cache can be relied on.  Outside of these each of its weaknesses shows:
\* a slot is valid before it is filled and is not given up by its sector's number
\* when the read fails ("cmd", "data"); nile_tfcache_invalidate gives up the first
\* slot of that sector, which need not be the valid one (a write of one sector); and
\* nothing is given up while the program is in a mono mode.
Sheltered ==
    /\ "cmd" \notin Faults /\ "data" \notin Faults
    /\ 1 \notin WriteCounts
    /\ ~Switches /\ StartColor \subseteq { TRUE }

\* The slot that the lookup of this call handed out, and that is not filled yet.
Pending(i) == pc \in Reading \ { "lookup" } /\ Cached /\ slot = i

\* A valid slot holds what its sector holds, but for the one that the present read
\* is about to fill; and while sectors are being written, no valid slot is theirs.
CoherentInv ==
    /\ color = TRUE
    /\ pc \in Reading => ~lost
    /\ pc = "read_end" /\ Cached => result = "OK"
    /\ \A i \in Slots : Pending(i) => entry[i].sector = req.sector
    /\ \A i \in Slots : entry[i].valid => entry[i].sector \in Sectors
    /\ \A i \in Slots :
         entry[i].valid /\ ~Pending(i) => data[i] = Content(entry[i].sector)
    /\ pc \in Writing =>
         \A i \in Slots :
           entry[i].valid => entry[i].sector \notin Range(req.sector, req.count)

\* The cache counts its slots the way DiskIO does.
LEMMA Slotted == Cache!Slots = Slots /\ Cache!Null = Null /\ N \in Nat
BY ConstantsNat DEF Cache!Slots, Slots, Cache!Null, Null

\* What giving up a set of slots leaves.
LEMMA Dropped ==
    ASSUME NEW S, Cache!Drop(S), Cache!TypeOK
    PROVE  \A i \in Slots : /\ entry'[i].sector = entry[i].sector
                            /\ entry'[i].valid => entry[i].valid
                            /\ i \in S => ~entry'[i].valid
<1>1. \A i \in Slots : entry[i] \in [ used : 0 .. CounterMod - 1, valid : BOOLEAN,
                                     sector : Cache!Lba ]
  BY Slotted DEF Cache!TypeOK
<1>2. \A i \in Slots : entry'[i] = IF i \in S THEN [ entry[i] EXCEPT !.valid = FALSE ]
                                             ELSE entry[i]
  BY Slotted DEF Cache!Drop
<1> QED BY <1>1, <1>2

\* What handing out a slot leaves.
LEMMA Touched ==
    ASSUME NEW i \in Slots, NEW s, Cache!Touch(i, s), Cache!TypeOK
    PROVE  /\ entry'[i].valid /\ entry'[i].sector = s /\ slot' = i /\ color' = color
           /\ \A j \in Slots \ { i } : entry'[j] = entry[j]
BY Slotted DEF Cache!Touch, Cache!TypeOK

\* What giving up a sector leaves.
LEMMA Invalidated ==
    ASSUME NEW s, Cache!Invalidate(s), Cache!TypeOK
    PROVE  /\ color' = color
           /\ \A i \in Slots : /\ entry'[i].sector = entry[i].sector
                               /\ entry'[i].valid => entry[i].valid
<1> DEFINE S == { i \in Cache!Slots :
                    Cache!First(i, { j \in Cache!Slots : entry[j].sector = s }) }
<1>1. color' = color /\ (UNCHANGED entry \/ Cache!Drop(S))
  BY DEF Cache!Invalidate
<1> HIDE DEF S
<1> QED BY <1>1, Dropped

\* A call begins: a write of several sectors gives up all the slots they are in.
LEMMA CoherentEnter ==
    ASSUME Sheltered, DiskInv, CoherentInv,
           \/ \E s \in Sectors, n \in ReadCounts, window \in BOOLEAN :
                Read(s, n, window)
           \/ \E s \in Sectors, n \in WriteCounts : Write(s, n)
    PROVE  CoherentInv'
<1>1. ASSUME NEW s \in Sectors, NEW n \in ReadCounts, NEW window \in BOOLEAN,
             Read(s, n, window)
      PROVE  CoherentInv'
  <2>1. /\ pc = "idle" /\ pc' = "lookup" /\ lost' = FALSE
        /\ UNCHANGED << entry, slot, color, data, card >>
    BY <1>1 DEF Read, Enter, cacheVars, CoherentInv, Pending
  <2> QED BY <2>1 DEF Reading, Writing, Content, CoherentInv, Pending
<1>2. ASSUME NEW s \in Sectors, NEW n \in WriteCounts, Write(s, n)
      PROVE  CoherentInv'
  <2>1. /\ pc = "idle" /\ pc' = "write_cmd" /\ req'.sector = s /\ req'.count = n
        /\ UNCHANGED << data, card >>
    BY <1>2 DEF Write, Enter, CoherentInv, Pending
  <2>2. n > 1
    BY ConstantsNat DEF Sheltered, CoherentInv, Pending
  <2>3. /\ Cache!Drop({ i \in Cache!Slots : entry[i].sector \in s .. s + n - 1 })
        /\ color' = color
    BY <1>2, <2>2 DEF Write, Cache!InvalidateMany, CoherentInv, Pending
  <2>4. \A i \in Slots : /\ entry'[i].sector = entry[i].sector
                         /\ entry'[i].valid => entry[i].valid
                         /\ entry[i].sector \in s .. s + n - 1 => ~entry'[i].valid
    BY <2>3, Dropped, Slotted DEF DiskInv, TypeOK, CoherentInv, Pending
  <2> QED BY <2>1, <2>3, <2>4 DEF Reading, Writing, Content, Range, CoherentInv,
      Pending
<1> QED BY <1>1, <1>2

\* A read that is answered from a slot is answered with what is on the card.
LEMMA CoherentHit ==
    ASSUME DiskInv, CoherentInv, LookupHit
    PROVE  CoherentInv' /\ buff' = Blocks(1)
<1>1. PICK i \in Slots : /\ Cache!First(i, Cache!Hits(req.sector))
                         /\ Cache!Touch(i, req.sector)
  BY Slotted DEF LookupHit, Cache!GetHit, CoherentInv, Pending
<1>2. entry[i].valid /\ entry[i].sector = req.sector
  BY <1>1 DEF Cache!First, Cache!Hits, CoherentInv, Pending
<1>3. /\ entry'[i].valid /\ entry'[i].sector = req.sector /\ slot' = i /\ color' = color
      /\ \A j \in Slots \ { i } : entry'[j] = entry[j]
  BY <1>1, Touched DEF DiskInv, TypeOK, CoherentInv, Pending
<1>4. /\ pc = "lookup" /\ pc' = "idle" /\ buff' = << data[slot'] >>
      /\ UNCHANGED << data, card, req >>
  BY DEF LookupHit, Goto, callVars, CoherentInv, Pending
<1>5. CoherentInv'
  BY <1>2, <1>3, <1>4 DEF Reading, Writing, Content, CoherentInv, Pending
<1>6. data[i] = Content(req.sector)
  BY <1>2, <1>4 DEF Reading, CoherentInv, Pending
<1>7. Blocks(1) = << Content(req.sector) >>
  <2>1. req.sector \in Nat
    BY CountTypes
  <2>2. req.sector + 1 - 1 = req.sector
    BY <2>1
  <2> QED BY <2>2 DEF Blocks, CoherentInv, Pending
<1> QED BY <1>3, <1>4, <1>5, <1>6, <1>7

\* A slot that is handed out is the pending one, whatever it held.
LEMMA CoherentMiss ==
    ASSUME DiskInv, CoherentInv, LookupMiss
    PROVE  CoherentInv'
<1>1. pc = "lookup" /\ pc' = "read_cmd" /\ UNCHANGED << data, card, req, lost >>
  BY DEF LookupMiss, Goto, callVars, CoherentInv, Pending
<1>2. ASSUME Cached, NEW i \in Slots, Cache!Touch(i, req.sector) PROVE CoherentInv'
  <2>1. /\ entry'[i].valid /\ entry'[i].sector = req.sector /\ slot' = i
        /\ color' = color
        /\ \A j \in Slots \ { i } : entry'[j] = entry[j]
    BY <1>2, Touched DEF DiskInv, TypeOK, CoherentInv, Pending
  <2>2. req.sector \in Sectors
    BY <1>2, SectorNamed DEF Cached, CoherentInv, Pending
  <2> QED BY <1>1, <1>2, <2>1, <2>2 DEF Reading, Writing, Content, Cached,
      CoherentInv, Pending
<1>3. CASE Cached /\ Cache!GetNone(req.sector)
  <2>1. slot' = Null /\ UNCHANGED << entry, color >> /\ \A i \in Slots : slot' # i
    BY <1>3, Slotted DEF Cache!GetNone, Slots, Null, CoherentInv, Pending
  <2> QED BY <1>1, <2>1 DEF Reading, Writing, Content, CoherentInv, Pending
<1>4. CASE ~Cached
  BY <1>1, <1>4 DEF LookupMiss, Reading, Writing, Content, Cached, cacheVars,
     CoherentInv, Pending
<1>5. Cached /\ Cache!GetMiss(req.sector) => \E i \in Slots : Cache!Touch(i, req.sector)
  BY Slotted DEF Cache!GetMiss, CoherentInv, Pending
<1> QED BY <1>2, <1>3, <1>4, <1>5 DEF LookupMiss, CoherentInv, Pending

\* The exchanges of a read leave the cache and the card alone.
LEMMA CoherentRead ==
    ASSUME Sheltered, DiskInv, CoherentInv,
           ReadCommand \/ ReadBlock \/ ReadBlockFails \/ ReadStop \/ ReadStopFails
    PROVE  CoherentInv'
<1>1. UNCHANGED << entry, slot, color, data, card, req, lost >>
  BY DEF ReadCommand, ReadBlock, ReadBlockFails, ReadStop, ReadStopFails,
     cacheVars, callVars, Sheltered, CoherentInv, Pending
<1>2. pc \in Reading \ { "lookup" } /\ pc' \in Reading \ { "lookup" }
  BY DEF ReadCommand, ReadBlock, ReadBlockFails, ReadStop, ReadStopFails, Goto,
     Reading, CoherentInv, Pending
<1>3. pc' = "read_end" /\ Cached' => result' = "OK"
  BY <1>1 DEF ReadCommand, ReadBlock, ReadBlockFails, ReadStop, ReadStopFails,
     Goto, Sheltered, Cached, CoherentInv, Pending
<1> QED BY <1>1, <1>2, <1>3 DEF Reading, Writing, Content, Cached, CoherentInv,
    Pending

\* The pending slot is filled with what came from the card.
LEMMA CoherentReadEnd ==
    ASSUME DiskInv, CoherentInv, ReadEnd
    PROVE  CoherentInv'
<1>1. pc = "read_end" /\ pc' = "idle" /\ UNCHANGED << card, req, slot >>
  BY DEF ReadEnd, Goto, callVars, cacheVars, Cache!Invalidate, CoherentInv, Pending
<1>2. CASE result = "OK" /\ Cached /\ slot # Null
  <2>1. UNCHANGED << entry, color >> /\ data' = [ data EXCEPT ![slot] = Copied(buff) ]
    BY <1>2 DEF ReadEnd, cacheVars, CoherentInv, Pending
  <2>2. slot \in Slots /\ data \in [ Slots -> Contents ]
    BY <1>2, Slotted DEF DiskInv, TypeOK, Cache!TypeOK, CoherentInv, Pending
  <2>3. buff = Blocks(1) /\ req.sector \in Nat
    BY <1>1, <1>2, CountTypes DEF DiskInv, ReadInv, Cached, Reading, CoherentInv,
       Pending
  <2>4. buff # << >> /\ buff[1] = Content(req.sector)
    BY <2>3 DEF Blocks, CoherentInv, Pending
  <2>5. data'[slot] = Content(entry[slot].sector)
    BY <1>1, <1>2, <2>1, <2>2, <2>4 DEF Copied, Reading, CoherentInv, Pending
  <2>6. \A i \in Slots \ { slot } : data'[i] = data[i]
    BY <2>1, <2>2
  <2> QED BY <1>1, <2>1, <2>2, <2>5, <2>6 DEF Reading, Writing, Content,
      CoherentInv, Pending
<1>3. CASE result = "OK" /\ ~(Cached /\ slot # Null)
  <2>1. UNCHANGED << entry, color, data >>
    BY <1>3 DEF ReadEnd, cacheVars, CoherentInv, Pending
  <2>2. \A i \in Slots : ~Pending(i)
    BY <1>3, Slotted DEF Slots, Null, CoherentInv, Pending
  <2> QED BY <1>1, <2>1, <2>2 DEF Reading, Writing, Content, CoherentInv, Pending
<1>4. CASE result # "OK"
  <2>1. ~Cached /\ Cache!Invalidate(Address(req.sector)) /\ UNCHANGED data
    BY <1>1, <1>4 DEF ReadEnd, CoherentInv, Pending
  <2>2. /\ color' = color
        /\ \A i \in Slots : /\ entry'[i].sector = entry[i].sector
                            /\ entry'[i].valid => entry[i].valid
    BY <2>1, Invalidated DEF DiskInv, TypeOK, CoherentInv, Pending
  <2> QED BY <1>1, <2>1, <2>2 DEF Reading, Writing, Content, CoherentInv, Pending
<1> QED BY <1>2, <1>3, <1>4

\* What is written goes to sectors that no valid slot holds.
LEMMA CoherentWrite ==
    ASSUME DiskInv, CoherentInv,
           \/ WriteCommand \/ WriteBlock \/ WriteBlockFails \/ WriteRefused
           \/ WriteDone \/ WriteStop \/ WriteStopFails \/ WriteEnd
    PROVE  CoherentInv'
<1>1. UNCHANGED << entry, slot, color, data, req >>
  BY DEF WriteCommand, WriteBlock, WriteBlockFails, WriteRefused, WriteDone,
     WriteStop, WriteStopFails, WriteEnd, cacheVars, callVars, CoherentInv, Pending
<1>2. pc \in Writing /\ pc' \in Writing \cup { "idle" }
  BY DEF WriteCommand, WriteBlock, WriteBlockFails, WriteRefused, WriteDone,
     WriteStop, WriteStopFails, WriteEnd, Goto, Writing, CoherentInv, Pending
<1>3. UNCHANGED card \/ (left > 0 /\ card' = Stored)
  <2>1. WriteStop \/ WriteStopFails => UNCHANGED card \/ (left > 0 /\ card' = Stored)
    <3>1. pc = "write_stop" /\ open = "block" => left > 0
      BY DEF DiskInv, WriteInv, AfterBlock
    <3> QED BY <3>1 DEF WriteStop, WriteStopFails, Goto, Token
  <2> QED BY <2>1 DEF WriteCommand, WriteBlock, WriteBlockFails, WriteRefused, Refusal,
      CutShort, Answered, WriteDone, WriteEnd
<1>4. req.op # "none"
  BY <1>2 DEF DiskInv, CallInv, CoherentInv, Pending
<1>5. \A s \in Sectors : s \notin Range(req.sector, req.count) => card'[s] = card[s]
  <2>1. left > 0 => Current \in Range(req.sector, req.count)
    BY <1>4, CurrentBlock
  <2>2. card \in [ Sectors -> 0 .. MaxCalls ]
    BY DEF DiskInv, TypeOK, CoherentInv, Pending
  <2> QED BY <1>3, <2>1, <2>2 DEF Stored, CoherentInv, Pending
<1>6. \A i \in Slots : entry[i].valid => card'[entry[i].sector] = card[entry[i].sector]
  BY <1>2, <1>5 DEF CoherentInv
<1> QED BY <1>1, <1>2, <1>6 DEF Reading, Writing, Content, CoherentInv, Pending

\* Between two calls slots are only given up.
LEMMA CoherentIdle ==
    ASSUME Sheltered, DiskInv, CoherentInv, Initialize \/ SwitchMode
    PROVE  CoherentInv'
<1>1. Initialize
  BY DEF SwitchMode, Sheltered
<1>2. \A i \in Slots : ~entry'[i].valid
  BY <1>1, Slotted DEF CoherentInv, Initialize, Cache!InvalidateAll, Cache!Cleared
<1>3. pc' = "idle" /\ color' = color
  BY <1>1 DEF Initialize, Cache!InvalidateAll
<1> QED BY <1>2, <1>3 DEF CoherentInv, Pending, Reading, Writing

\* No step makes a valid slot differ from its sector.
LEMMA CoherentNext ==
    ASSUME Sheltered, DiskInv, CoherentInv, [Next]_vars
    PROVE  CoherentInv'
<1>1. CASE UNCHANGED vars
  BY <1>1 DEF vars, cacheVars, callVars, CoherentInv, Pending, Content, Cached
<1> QED BY <1>1, CoherentEnter, CoherentHit, CoherentMiss, CoherentRead,
    CoherentReadEnd, CoherentWrite, CoherentIdle DEF Next, Client, DriverStep

\* Before the first call no slot is valid.
LEMMA CoherentInit ==
    ASSUME Sheltered, Init
    PROVE  CoherentInv
<1>1. color = TRUE
  BY DEF Init, Sheltered
<1>2. \A i \in Slots : ~entry[i].valid
  BY Slotted DEF Init, Cache!Init, Cache!Cleared
<1>3. pc = "idle"
  BY DEF Init
<1> QED BY <1>1, <1>2, <1>3 DEF CoherentInv, Pending, Reading, Writing

\* In a program that keeps to a color mode, on a card whose reads do not fail, and
\* with a file system that writes several sectors at a time, no valid slot of the
\* cache ever differs from its sector between calls: even when writes fail half way,
\* are refused, or cannot be ended (tfcache.c:48-118, diskio.c:361-541).
THEOREM CacheStaysCoherent == Sheltered => (Spec => []CacheCoherent)
<1> SUFFICES ASSUME Sheltered PROVE Spec => []CacheCoherent
  OBVIOUS
<1>1. Init => CoherentInv
  BY CoherentInit
<1>2. DiskInv /\ CoherentInv /\ [Next]_vars => CoherentInv'
  BY CoherentNext
<1>3. CoherentInv => CacheCoherent
  BY DEF CoherentInv, CacheCoherent, Pending, Reading
<1> QED BY <1>1, <1>2, <1>3, DiskInvariant, PTL DEF Spec

----------------------------------------------------------------------------
\* Where nothing fails, every transfer comes to a good end.
Smooth == ~lost /\ (pc \in { "read_end", "write_end" } => result = "OK")

\* The request and the answer that a caller sees: the mapping to BlockDevice.
Asked == [ op     |-> IF pc = "idle" THEN "none" ELSE req.op,
           sector |-> IF pc = "idle" THEN 0 ELSE req.sector,
           count  |-> IF pc = "idle" THEN 0 ELSE req.count ]

Told == IF pc # "idle" \/ req.op = "none" THEN << "none" >>
            ELSE IF req.op = "read" THEN << "data", buff >> ELSE << "done" >>

\* Nothing fails where nothing can.
LEMMA SmoothNext ==
    ASSUME Faults = { }, Smooth, [Next]_vars
    PROVE  Smooth'
<1>1. ASSUME Client PROVE Smooth'
  BY <1>1 DEF Client, Read, Write, Enter, Initialize, SwitchMode, Smooth
<1>2. ASSUME LookupHit \/ LookupMiss \/ ReadCommand \/ ReadBlock \/ ReadBlockFails
             \/ ReadStop \/ ReadStopFails \/ ReadEnd
      PROVE  Smooth'
  BY <1>2 DEF LookupHit, LookupMiss, ReadCommand, ReadBlock, ReadBlockFails,
     ReadStop, ReadStopFails, ReadEnd, Goto, callVars, Smooth
<1>3. ASSUME WriteCommand \/ WriteBlock \/ WriteBlockFails \/ WriteRefused
             \/ WriteDone \/ WriteStop \/ WriteStopFails \/ WriteEnd
      PROVE  Smooth'
  BY <1>3 DEF WriteCommand, WriteBlock, WriteBlockFails, WriteRefused, Refusal, WriteDone,
     WriteStop, WriteStopFails, WriteEnd, Goto, callVars, Smooth
<1>4. CASE UNCHANGED vars
  BY <1>4 DEF vars, callVars, Smooth
<1> QED BY <1>1, <1>2, <1>3, <1>4 DEF Next, DriverStep

\* A call of the driver begins one of the device.
LEMMA DeviceBegins ==
    ASSUME DiskInv,
           \/ \E s \in Sectors, n \in ReadCounts, window \in BOOLEAN :
                Read(s, n, window)
           \/ \E s \in Sectors, n \in WriteCounts : Write(s, n)
    PROVE  Device!Begin
<1>1. PICK op \in { "read", "write" }, s \in Sectors, n \in ReadCounts \cup WriteCounts,
           window \in BOOLEAN :
         /\ Enter(op, s, n, window) /\ pc' # "idle"
         /\ writes' = IF op = "write" THEN writes + 1 ELSE writes
  BY DEF Read, Write
<1>2. /\ pc = "idle" /\ pc' # "idle" /\ UNCHANGED card
      /\ req' = [ op |-> op, sector |-> s, count |-> n, window |-> window ]
      /\ s .. s + n - 1 \subseteq Sectors
  BY <1>1 DEF Enter, Range
<1>3. Asked = [ op |-> "none", sector |-> 0, count |-> 0 ]
  BY <1>2 DEF Asked
<1>4. Asked' = [ op |-> op, sector |-> s, count |-> n ] /\ Told' = << "none" >>
  BY <1>2 DEF Asked, Told
<1> QED BY <1>1, <1>2, <1>3, <1>4 DEF Device!Begin, Device!NoRequest,
    Device!NoAnswer, Device!Named, Asked, Told

\* Every step of the driver replaces one block of the device, ends a call, or is not
\* to be noticed.
LEMMA DeviceStep ==
    ASSUME Sheltered, Faults = { }, DiskInv, CoherentInv, Smooth, Smooth', DiskInv',
           DriverStep
    PROVE  Device!Next \/ UNCHANGED Device!deviceVars
<1>1. pc # "idle" /\ UNCHANGED << req, writes >>
  BY DEF DriverStep, LookupHit, LookupMiss, ReadCommand, ReadBlock, ReadBlockFails,
     ReadStop, ReadStopFails, ReadEnd, WriteCommand, WriteBlock, WriteBlockFails,
     WriteRefused, WriteDone, WriteStop, WriteStopFails, WriteEnd, Goto, callVars
<1>2. Asked = [ op |-> req.op, sector |-> req.sector, count |-> req.count ]
  BY <1>1 DEF Asked
<1>3. Told = << "none" >>
  BY <1>1 DEF Told
<1>4. CASE pc' # "idle" /\ UNCHANGED card
  <2>1. Asked' = Asked /\ Told' = Told
    BY <1>1, <1>4 DEF Asked, Told
  <2> QED BY <1>1, <1>4, <2>1 DEF Device!deviceVars, Asked, Told
<1>5. ASSUME WriteBlock PROVE Device!Replace
  <2>1. /\ pc = "write_data" /\ pc' = pc /\ left > 0 /\ req.op = "write"
        /\ card' = Stored
    BY <1>5 DEF WriteBlock, DiskInv, CallInv, Writing
  <2>2. Current \in req.sector .. req.sector + req.count - 1
    BY <2>1, CurrentBlock DEF Range
  <2>3. Asked' = Asked /\ Told' = Told
    BY <1>1, <2>1 DEF Asked, Told
  <2> QED BY <1>1, <1>2, <2>1, <2>2, <2>3 DEF Device!Replace, Device!Named, Stored,
      Asked, Told
<1>6. ASSUME pc' = "idle", UNCHANGED card, req.op = "read", buff' = Blocks(req.count)
      PROVE  Device!EndRead
  <2>1. Asked' = [ op |-> "none", sector |-> 0, count |-> 0 ]
    BY <1>6 DEF Asked
  <2>2. Told' = << "data", buff' >>
    BY <1>1, <1>6 DEF Told
  <2>3. buff' = [ k \in 1 .. req.count |->
                    << req.sector + k - 1, card[req.sector + k - 1] >> ]
    BY <1>6 DEF Blocks, Content
  <2> QED BY <1>1, <1>2, <1>6, <2>1, <2>2, <2>3 DEF Device!EndRead,
      Device!NoRequest, Asked, Told
<1>7. ASSUME LookupHit PROVE Device!EndRead
  <2>1. buff' = Blocks(1) /\ req.count = 1 /\ req.op = "read"
    BY <1>7, CoherentHit DEF LookupHit, Cached
  <2>2. pc' = "idle" /\ UNCHANGED card
    BY <1>7 DEF LookupHit, Goto
  <2> QED BY <1>6, <2>1, <2>2
<1>8. ASSUME ReadEnd PROVE Device!EndRead
  <2>1. pc = "read_end" /\ pc' = "idle" /\ UNCHANGED << card, buff >>
    BY <1>8 DEF ReadEnd, Goto
  <2>2. req.op = "read" /\ buff = Blocks(req.count)
    BY <2>1 DEF Smooth, DiskInv, CallInv, ReadInv, Reading
  <2> QED BY <1>6, <2>1, <2>2
<1>9. ASSUME WriteEnd PROVE Device!EndWrite
  <2>1. pc = "write_end" /\ pc' = "idle" /\ UNCHANGED card
    BY <1>9 DEF WriteEnd, Goto
  <2>2. req.op = "write" /\ Written(req.count)
    BY <2>1 DEF Smooth, DiskInv, CallInv, WriteInv, Writing
  <2>3. /\ Asked' = [ op |-> "none", sector |-> 0, count |-> 0 ]
        /\ Told' = << "done" >>
    BY <1>1, <2>1, <2>2 DEF Asked, Told
  <2>4. \A s \in req.sector .. req.sector + req.count - 1 : card[s] = writes
    BY <2>2 DEF Written, Range
  <2> QED BY <1>1, <1>2, <2>1, <2>2, <2>3, <2>4 DEF Device!EndWrite,
      Device!NoRequest, Device!Named, Asked, Told
<1>10. \/ LookupHit \/ WriteBlock \/ ReadEnd \/ WriteEnd
       \/ pc' # "idle" /\ UNCHANGED card
  <2>1. WriteStop \/ WriteStopFails => pc' # "idle" /\ UNCHANGED card
    <3>1. pc = "write_stop" => open # "block"
      BY DEF Smooth, DiskInv, WriteInv, AfterBlock
    <3> QED BY <3>1 DEF WriteStop, WriteStopFails, Goto, Token
  <2> QED BY <2>1 DEF DriverStep, LookupMiss, ReadCommand, ReadBlock, ReadBlockFails,
      ReadStop, ReadStopFails, WriteCommand, WriteBlockFails, WriteRefused, Refusal,
      WriteDone, Goto
<1> QED BY <1>4, <1>5, <1>7, <1>8, <1>9, <1>10 DEF Device!Next

\* Where nothing fails, disk_read and disk_write with their cache are a disk: no
\* caller can tell from what slot, or past which slots, it was answered
\* (diskio.c:361-541 with tfcache.c implement BlockDevice).
THEOREM IsDevice == Sheltered /\ Faults = { } => (Spec => ImplementsDevice)
<1> SUFFICES ASSUME Sheltered, Faults = { } PROVE Spec => ImplementsDevice
  OBVIOUS
<1>1. Init => Device!Init
  BY DEF Init, Device!Init, Device!NoRequest, Device!NoAnswer
<1>2. Init => CoherentInv /\ Smooth
  BY CoherentInit DEF Smooth, Init
<1>3. DiskInv /\ CoherentInv /\ Smooth /\ [Next]_vars => CoherentInv' /\ Smooth'
  BY CoherentNext, SmoothNext
<1>4. DiskInv /\ CoherentInv /\ Smooth /\ [Next]_vars
        => [Device!Next]_(Device!deviceVars)
  <2> SUFFICES ASSUME DiskInv, CoherentInv, Smooth, [Next]_vars
               PROVE  Device!Next \/ UNCHANGED Device!deviceVars
    OBVIOUS
  <2>1. CASE UNCHANGED vars
    BY <2>1 DEF vars, callVars, Device!deviceVars
  <2>2. CASE Initialize \/ SwitchMode
    BY <2>2 DEF Initialize, SwitchMode, Device!deviceVars
  <2>3. CASE DriverStep
    <3>1. DiskInv' /\ Smooth'
      BY <2>3, DiskNext, SmoothNext DEF Next
    <3> QED BY <2>3, <3>1, DeviceStep
  <2> QED BY <2>1, <2>2, <2>3, DeviceBegins DEF Next, Client, Device!Next
<1> QED BY <1>1, <1>2, <1>3, <1>4, DiskInvariant, PTL
    DEF Spec, Device!Spec, ImplementsDevice

\* What a read that has ended left behind.
ReadBackInv ==
    pc = "idle" /\ req.op = "read" =>
        ~lost /\ (result = "OK" => buff = Blocks(req.count))

\* What has been read stays read until the next call.
LEMMA ReadBackNext ==
    ASSUME DiskInv, CoherentInv, ReadBackInv, [Next]_vars
    PROVE  ReadBackInv'
<1>1. CASE UNCHANGED vars \/ Initialize \/ SwitchMode
  BY <1>1 DEF vars, callVars, Initialize, SwitchMode, ReadBackInv, Blocks, Content
<1>2. ASSUME NEW s \in Sectors, NEW n \in ReadCounts \cup WriteCounts,
             NEW window \in BOOLEAN, Read(s, n, window) \/ Write(s, n)
      PROVE  ReadBackInv'
  BY <1>2 DEF Read, Write, ReadBackInv
<1>3. CASE LookupHit
  <2>1. buff' = Blocks(1) /\ req.count = 1 /\ ~lost
    BY <1>3, CoherentHit DEF LookupHit, Cached, CoherentInv, Goto, Reading
  <2>2. UNCHANGED << card, req, lost >>
    BY <1>3 DEF LookupHit, callVars
  <2> QED BY <2>1, <2>2 DEF ReadBackInv, Blocks, Content
<1>4. CASE ReadEnd
  <2>1. pc = "read_end" /\ UNCHANGED << card, req, lost, buff, result >>
    BY <1>4 DEF ReadEnd, Goto, callVars
  <2>2. ~lost /\ (result = "OK" => buff = Blocks(req.count))
    BY <2>1 DEF CoherentInv, DiskInv, ReadInv, Reading
  <2> QED BY <2>1, <2>2 DEF ReadBackInv, Blocks, Content
<1>5. ASSUME WriteEnd PROVE ReadBackInv'
  BY <1>5 DEF WriteEnd, Goto, callVars, DiskInv, CallInv, Writing, ReadBackInv
<1>6. ASSUME DriverStep PROVE LookupHit \/ ReadEnd \/ WriteEnd \/ pc' # "idle"
  BY <1>6 DEF DriverStep, LookupMiss, ReadCommand, ReadBlock, ReadBlockFails,
     ReadStop, ReadStopFails, WriteCommand, WriteBlock, WriteBlockFails,
     WriteRefused, WriteDone, WriteStop, WriteStopFails, Goto
<1>7. pc' # "idle" => ReadBackInv'
  BY DEF ReadBackInv
<1> QED BY <1>1, <1>2, <1>3, <1>4, <1>5, <1>6, <1>7 DEF Next, Client

\* In the same circumstances disk_read returning RES_OK has put what is on the card
\* into the caller's buffer, from the cache as well as past it, and whatever became
\* of the writes before it (diskio.c:361-451).
THEOREM ReadsAreRight == Sheltered => (Spec => []ReadOkMeansData)
<1> SUFFICES ASSUME Sheltered PROVE Spec => []ReadOkMeansData
  OBVIOUS
<1>1. Init => CoherentInv /\ ReadBackInv
  <2>1. Init => req.op = "none"
    BY DEF Init
  <2> QED BY <2>1, CoherentInit DEF ReadBackInv
<1>2. DiskInv /\ CoherentInv /\ ReadBackInv /\ [Next]_vars
        => CoherentInv' /\ ReadBackInv'
  BY CoherentNext, ReadBackNext
<1>3. ReadBackInv => ReadOkMeansData
  BY DEF ReadBackInv, ReadOkMeansData, Blocks
<1> QED BY <1>1, <1>2, <1>3, DiskInvariant, PTL DEF Spec

----------------------------------------------------------------------------
(***************************************************************************)
(* The time stamps of files (FatTime; diskio.c:704-737).                   *)
(***************************************************************************)
\* Shifting a field in, and reading it back.
LEMMA Split16 == ASSUME NEW q \in Nat, NEW r \in 0 .. 15
                 PROVE  (q * 16 + r) \div 16 = q /\ (q * 16 + r) % 16 = r
BY SMT
LEMMA Split32 == ASSUME NEW q \in Nat, NEW r \in 0 .. 31
                 PROVE  (q * 32 + r) \div 32 = q /\ (q * 32 + r) % 32 = r
BY SMT
LEMMA Split64 == ASSUME NEW q \in Nat, NEW r \in 0 .. 63
                 PROVE  (q * 64 + r) \div 64 = q /\ (q * 64 + r) % 64 = r
BY SMT

\* Fields of their width do not run into each other.
LEMMA FieldsApart ==
    ASSUME NEW y, NEW m, NEW d, NEW h, NEW i, NEW s,
           y \in Nat, m \in 0 .. 15, d \in 0 .. 31, h \in 0 .. 31, i \in 0 .. 63,
           s \in 0 .. 31
    PROVE  /\ StampYear(Pack(y, m, d, h, i, s)) = y
           /\ StampMonth(Pack(y, m, d, h, i, s)) = m
           /\ StampDay(Pack(y, m, d, h, i, s)) = d
           /\ StampHour(Pack(y, m, d, h, i, s)) = h
           /\ StampMinute(Pack(y, m, d, h, i, s)) = i
           /\ StampSecond(Pack(y, m, d, h, i, s)) = s
<1> DEFINE a == y * 16 + m
           b == a * 32 + d
           c == b * 32 + h
           e == c * 64 + i
           f == e * 32 + s
<1>1. a \in Nat OBVIOUS
<1>2. b \in Nat BY <1>1
<1>3. c \in Nat BY <1>2
<1>4. e \in Nat BY <1>3
<1>5. a \div 16 = y /\ a % 16 = m
  BY Split16
<1> HIDE DEF a
<1>6. b \div 32 = a /\ b % 32 = d
  BY <1>1, Split32
<1> HIDE DEF b
<1>7. c \div 32 = b /\ c % 32 = h
  BY <1>2, Split32
<1> HIDE DEF c
<1>8. e \div 64 = c /\ e % 64 = i
  BY <1>3, Split64
<1> HIDE DEF e
<1>9. f \div 32 = e /\ f % 32 = s
  BY <1>4, Split32
<1> HIDE DEF f
<1>10. Pack(y, m, d, h, i, s) = f
  BY DEF Pack, a, b, c, e, f
<1> QED
  BY <1>5, <1>6, <1>7, <1>8, <1>9, <1>10
     DEF StampYear, StampMonth, StampDay, StampHour, StampMinute, StampSecond

LEMMA FromBcdRange == ASSUME NEW bcd \in 0 .. 255 PROVE FromBcd(bcd) \in 0 .. 165
BY DEF FromBcd

\* What the stamp of a valid time is made of.
LEMMA StampIsPack ==
    ASSUME NEW t, Valid(t)
    PROVE  /\ FromBcd(t.year) \in 0 .. 99
           /\ FromBcd(t.month) \in 1 .. 12
           /\ FromBcd(t.day) \in 1 .. 31
           /\ FromBcd(t.second) \div 2 \in 0 .. 29
           /\ Stamp(t) = Pack(FromBcd(t.year) + 20, FromBcd(t.month), FromBcd(t.day),
                              FromBcd(t.month), FromBcd(t.month),
                              FromBcd(t.second) \div 2)
<1>1. t.year \in 0 .. 255 /\ t.second \in 0 .. 255
  BY DEF Valid, DateTime
<1>2. FromBcd(t.year) \in 0 .. 165 /\ FromBcd(t.second) \in 0 .. 165
  BY <1>1, FromBcdRange
<1>3. /\ FromBcd(t.year) \in 0 .. 99 /\ FromBcd(t.month) \in 1 .. 12
      /\ FromBcd(t.day) \in 1 .. 31 /\ FromBcd(t.second) \in 0 .. 59
  BY <1>2 DEF Valid
<1>4. FromBcd(t.second) \div 2 \in 0 .. 29
  BY <1>3
<1>5. Stamp(t) = Pack(FromBcd(t.year) + 20, FromBcd(t.month), FromBcd(t.day),
                      FromBcd(t.month), FromBcd(t.month), FromBcd(t.second) \div 2)
  BY <1>3 DEF Stamp, Valid
<1> QED BY <1>3, <1>4, <1>5

\* The date of every valid time, and its seconds, arrive in their fields of the
\* stamp (diskio.c:714-716 and 719), and no field runs into another.
THEOREM DateRight ==
    ASSUME NEW t, Valid(t)
    PROVE  /\ StampYear(Stamp(t)) + 1980 = FromBcd(t.year) + 2000
           /\ StampMonth(Stamp(t)) = FromBcd(t.month)
           /\ StampDay(Stamp(t)) = FromBcd(t.day)
           /\ StampSecond(Stamp(t)) = FromBcd(t.second) \div 2
<1> DEFINE y == FromBcd(t.year) + 20
           m == FromBcd(t.month)
           d == FromBcd(t.day)
           s == FromBcd(t.second) \div 2
<1>1. /\ y \in Nat /\ m \in 0 .. 15 /\ m \in 0 .. 31 /\ m \in 0 .. 63
      /\ d \in 0 .. 31 /\ s \in 0 .. 31
  BY StampIsPack
<1>2. Stamp(t) = Pack(y, m, d, m, m, s)
  BY StampIsPack
<1> HIDE DEF y, m, d, s
<1>5. /\ StampYear(Pack(y, m, d, m, m, s)) = y
      /\ StampMonth(Pack(y, m, d, m, m, s)) = m
      /\ StampDay(Pack(y, m, d, m, m, s)) = d /\ StampSecond(Pack(y, m, d, m, m, s)) = s
  BY <1>1, FieldsApart, SMT
<1>3. /\ StampYear(Stamp(t)) = y /\ StampMonth(Stamp(t)) = m
      /\ StampDay(Stamp(t)) = d /\ StampSecond(Stamp(t)) = s
  BY <1>2, <1>5
<1>4. FromBcd(t.year) \in Int
  BY StampIsPack
<1> QED BY <1>3, <1>4 DEF y, m, d, s

\* Where the hour and the minute should be there is the month: the code does not
\* put the time of day into the stamp (diskio.c:717, 718), although
\* src/include/nilefs.h:65 calls it the conversion of a timestamp.
THEOREM TimeIsMonth ==
    ASSUME NEW t, Valid(t)
    PROVE  /\ StampHour(Stamp(t)) = FromBcd(t.month)
           /\ StampMinute(Stamp(t)) = FromBcd(t.month)
<1> DEFINE y == FromBcd(t.year) + 20
           m == FromBcd(t.month)
           d == FromBcd(t.day)
           s == FromBcd(t.second) \div 2
<1>1. /\ y \in Nat /\ m \in 0 .. 15 /\ m \in 0 .. 31 /\ m \in 0 .. 63
      /\ d \in 0 .. 31 /\ s \in 0 .. 31
  BY StampIsPack
<1>2. Stamp(t) = Pack(y, m, d, m, m, s)
  BY StampIsPack
<1> HIDE DEF y, m, d, s
<1>4. StampHour(Pack(y, m, d, m, m, s)) = m /\ StampMinute(Pack(y, m, d, m, m, s)) = m
  BY <1>1, FieldsApart, SMT
<1>3. StampHour(Stamp(t)) = m /\ StampMinute(Stamp(t)) = m
  BY <1>2, <1>4
<1> QED BY <1>3 DEF m

=============================================================================
