------------------------------- MODULE DiskIO -------------------------------
(***************************************************************************)
(* The sector transfers of nilefs (src/storage/diskio.c): disk_read,       *)
(* disk_write and the invalidation of disk_initialize, over the sector     *)
(* cache of TfCache and a removable card that may fail at every exchange.  *)
(*                                                                         *)
(* One step is one exchange with the card, or the code between two of      *)
(* them.  What a block holds is a pair: the sector it belongs to and the   *)
(* number of the write that put it there, 0 before any.                    *)
(***************************************************************************)
EXTENDS Integers, Sequences

CONSTANTS
    N, CounterMod, Sectors,     \* as in TfCache
    ReadCounts,     \* sector counts the file system reads
    WriteCounts,    \* and writes
    BlockCard,      \* card_state & NILE_IPC_TF_BLOCK
    Faults,         \* the exchanges that may fail
    StartColor,     \* video modes the program may start in
    Switches,       \* whether it changes them
    MaxCalls        \* bound: calls in a behaviour

AllFaults == { "cmd",       \* nile_tf_command
               "data",      \* nile_disk_read_inner
               "stop",      \* the end of a multiple transfer
               "block",     \* sending a block, or reading the response to it
               "reject",    \* the response: block not accepted
               "busy" }     \* nile_tf_wait_ready after a block

ASSUME DiskAssumption ==
    /\ N \in Nat \ { 0 }
    /\ CounterMod \in Nat \ { 0, 1 }
    /\ Sectors \subseteq Nat
    /\ ReadCounts \subseteq Nat \ { 0 }
    /\ WriteCounts \subseteq Nat \ { 0 }
    /\ BlockCard \in BOOLEAN
    /\ BlockCard \/ \A s \in Sectors : s < 8388608   \* the address has 32 bits
    /\ Faults \subseteq AllFaults
    /\ StartColor \subseteq BOOLEAN
    /\ Switches \in BOOLEAN
    /\ MaxCalls \in Nat

VARIABLES
    entry, usedCounter, slot, color,    \* the cache's index: see TfCache
    data,       \* nile_tfcache.data
    card,       \* the write that each sector of the card holds
    open,       \* what the card is in the middle of: sending blocks ("read"),
                \* waiting for the token of a block or of the end ("write"),
                \* taking a block in ("block") or storing one ("busy")
    pc,         \* what the CPU does next
    req,        \* the arguments of the call
    left,       \* count: the blocks still to transfer
    buff,       \* the blocks that reached the caller's buffer
    result,     \* RES_OK or RES_ERROR
    calls,      \* number of calls made
    writes,     \* number of writes among them
    lost        \* history: a block of this call was lost on its way

cacheVars == << entry, usedCounter, slot, color >>
callVars  == << req, calls, writes, lost >>
vars == << cacheVars, data, card, open, pc, left, buff, result, callVars >>

Cache == INSTANCE TfCache

Slots  == 0 .. N - 1
Null   == N
Junk   == << 0 - 1, 0 >>            \* what no sector ever held
Content(s) == << s, card[s] >>
Contents == { Junk } \cup Sectors \X (0 .. MaxCalls)

Range(s, n) == s .. s + n - 1

\* What the local variable sector becomes once the cache has been asked: a
\* standard-capacity card is addressed in bytes.
Address(s) == IF BlockCard THEN s ELSE s * 512

\* Mutant: every block of a transfer goes to the first sector.
CurrentFirst ==
    IF BlockCard THEN Address(req.sector) ELSE Address(req.sector) \div 512

\* The block an exchange is about, as the card understands the address.
Current ==
    (IF BlockCard THEN Address(req.sector) ELSE Address(req.sector) \div 512)
        + req.count - left

\* pdrv == 0x80, a near buffer and a single sector: a read of the file system's
\* own window.
Cached == req.op = "read" /\ req.window /\ req.count = 1

TypeOK ==
    /\ Cache!TypeOK
    /\ data \in [ Slots -> Contents ]
    /\ card \in [ Sectors -> 0 .. MaxCalls ]
    /\ open \in { "none", "read", "write", "block", "busy" }
    /\ pc \in { "idle", "lookup", "read_cmd", "read_data", "read_stop",
                "read_end", "write_cmd", "write_data", "write_stop",
                "write_end" }
    /\ req \in [ op : { "none", "read", "write" }, sector : Sectors \cup { 0 },
                 count : ReadCounts \cup WriteCounts \cup { 0 },
                 window : BOOLEAN ]
    /\ left \in 0 .. req.count
    /\ buff \in Seq(Contents) /\ Len(buff) <= req.count
    /\ result \in { "OK", "ERROR" }
    /\ calls \in 0 .. MaxCalls /\ writes \in 0 .. calls
    /\ lost \in BOOLEAN

Init ==
    /\ Cache!Init
    /\ color \in StartColor
    /\ data = [ i \in Slots |-> Junk ]
    /\ card = [ s \in Sectors |-> 0 ]
    /\ open = "none"
    /\ pc = "idle"
    /\ req = [ op |-> "none", sector |-> 0, count |-> 0, window |-> FALSE ]
    /\ left = 0
    /\ buff = << >>
    /\ result = "OK"
    /\ calls = 0
    /\ writes = 0
    /\ lost = FALSE

Goto(from, to) ==
    /\ pc = from
    /\ pc' = to

----------------------------------------------------------------------------
(***************************************************************************)
(* disk_read.                                                              *)
(***************************************************************************)
Enter(op, s, n, window) ==
    /\ pc = "idle"
    /\ calls < MaxCalls
    /\ Range(s, n) \subseteq Sectors
    /\ calls' = calls + 1
    /\ req' = [ op |-> op, sector |-> s, count |-> n, window |-> window ]
    /\ left' = n
    /\ buff' = << >>
    /\ result' = "ERROR"
    /\ lost' = FALSE
    /\ UNCHANGED << data, card, open >>

Read(s, n, window) ==
    /\ Enter("read", s, n, window)
    /\ pc' = "lookup"
    /\ UNCHANGED << cacheVars, writes >>

LookupHit ==
    /\ Goto("lookup", "idle")
    /\ Cached
    /\ Cache!GetHit(req.sector)
    /\ buff' = << data[slot'] >>
    /\ left' = 0
    /\ result' = "OK"
    /\ UNCHANGED << data, card, open, callVars >>

\* On a miss the slot is valid from here on.
LookupMiss ==
    /\ Goto("lookup", "read_cmd")
    /\ IF Cached
       THEN Cache!GetMiss(req.sector) \/ Cache!GetNone(req.sector)
       ELSE UNCHANGED cacheVars
    /\ UNCHANGED << data, card, open, left, buff, result, callVars >>

\* A command that fails may have reached the card all the same.  A card left in
\* the middle of something, and deselected since, fails the next command or has
\* given it up by then.
ReadCommand ==
    /\ \/ /\ Goto("read_cmd", "read_data")
          /\ open' = IF req.count > 1 THEN "read" ELSE "none"
       \/ /\ Goto("read_cmd", "read_end")
          /\ "cmd" \in Faults
          /\ open' \in { open, IF req.count > 1 THEN "read" ELSE "none" }
    /\ UNCHANGED << cacheVars, data, card, left, buff, result, callVars >>

\* nile_disk_read_inner, one block of it.
ReadBlock ==
    /\ pc = "read_data"
    /\ buff' = Append(buff, Content(Current))
    /\ left' = left - 1
    /\ IF left' = 0 THEN pc' = "read_stop" /\ result' = "OK"
                    ELSE UNCHANGED << pc, result >>
    /\ UNCHANGED << cacheVars, data, card, open, callVars >>

\* Mutant: a read that breaks off is started over.
ReadStartedOver ==
    /\ pc = "read_data"
    /\ "data" \in Faults
    /\ left' = req.count
    /\ buff' = << >>
    /\ UNCHANGED << cacheVars, data, card, open, pc, result, callVars >>

\* No data token, or a timeout: the blocks that are left never come.
ReadBlockFails ==
    /\ Goto("read_data", "read_stop")
    /\ "data" \in Faults
    /\ lost' = TRUE
    /\ UNCHANGED << cacheVars, data, card, open, left, buff, result, req, calls,
                    writes >>

\* STOP_TRANSMISSION for a multiple read; then the result is RES_OK, however
\* the label disk_read_stop was reached.
ReadStop ==
    /\ Goto("read_stop", "read_end")
    /\ open' = "none"
    /\ result' = "OK"
    /\ UNCHANGED << cacheVars, data, card, left, buff, callVars >>

ReadStopFails ==
    /\ Goto("read_stop", "read_end")
    /\ req.count > 1
    /\ "stop" \in Faults
    /\ open' \in { open, "none" }
    /\ result' = "ERROR"
    /\ UNCHANGED << cacheVars, data, card, left, buff, callVars >>

\* nile_tfcache_copy takes whole sectors, also from a buffer nothing has reached.
Copied(from) == IF from = << >> THEN Junk ELSE from[1]

\* Mutant: the slot that was made valid is not filled.
ReadEndUnfilled ==
    /\ Goto("read_end", "idle")
    /\ IF result = "OK" THEN UNCHANGED cacheVars
                        ELSE Cache!Invalidate(Address(req.sector))
    /\ UNCHANGED << data, card, open, left, buff, result, callVars >>

\* The slot is filled from the caller's buffer, or given up: by the address,
\* which is the sector's number only on some cards.
ReadEnd ==
    /\ Goto("read_end", "idle")
    /\ IF result = "OK"
       THEN /\ data' = IF Cached /\ slot # Null
                       THEN [ data EXCEPT ![slot] = Copied(buff) ]
                       ELSE data
            /\ UNCHANGED cacheVars
       ELSE /\ Cache!Invalidate(Address(req.sector))
            /\ UNCHANGED data
    /\ UNCHANGED << card, open, left, buff, result, callVars >>

----------------------------------------------------------------------------
(***************************************************************************)
(* disk_write.                                                             *)
(***************************************************************************)
Write(s, n) ==
    /\ Enter("write", s, n, FALSE)
    /\ pc' = "write_cmd"
    /\ writes' = writes + 1
    /\ IF n > 1 THEN Cache!InvalidateMany(s, s + n - 1)
                ELSE Cache!Invalidate(s)

\* The commands before the data: both, or the second alone, may fail.
WriteCommand ==
    /\ \/ /\ Goto("write_cmd", "write_data")
          /\ open' = "write"
       \/ /\ Goto("write_cmd", "write_end")
          /\ "cmd" \in Faults
          /\ open' \in { open, "write" }
    /\ UNCHANGED << cacheVars, data, card, left, buff, result, callVars >>

Stored == [ card EXCEPT ![Current] = writes ]

\* After a block the card waits for the next token, of as many as it was told.
AfterBlock == IF req.count > 1 THEN "write" ELSE "none"

\* Mutant: the loop sends a block before it looks at the count.
WriteBlockFirst ==
    /\ pc = "write_data"
    /\ card' = [ s \in Sectors |-> IF s = Current THEN writes ELSE card[s] ]
    /\ left' = left - 1
    /\ open' = AfterBlock
    /\ UNCHANGED << cacheVars, data, pc, buff, result, callVars >>

WriteBlock ==
    /\ pc = "write_data"
    /\ left > 0
    /\ card' = Stored
    /\ left' = left - 1
    /\ open' = AfterBlock
    /\ UNCHANGED << cacheVars, data, pc, buff, result, callVars >>

\* The token has reached the card, but not the whole block.
CutShort == UNCHANGED card /\ open' = "block"

\* The block has, and the card has taken it or not, and may still be at it.
Answered == card' \in { card, Stored } /\ open' \in { "busy", AfterBlock }

\* The token, the block, or the response to it, is lost on the way: the loop is
\* left for the end of the transfer.
WriteBlockFails ==
    /\ Goto("write_data", "write_stop")
    /\ left > 0
    /\ "block" \in Faults
    /\ UNCHANGED << card, open >> \/ CutShort \/ Answered
    /\ lost' = TRUE
    /\ UNCHANGED << cacheVars, data, left, buff, result, req, calls, writes >>

\* The response is not the one to a block taken, or the card stays busy.
Refusal ==
    \/ "reject" \in Faults /\ (CutShort \/ Answered)
    \/ "busy" \in Faults /\ Answered

\* Mutant: a refused block is handled like one lost on the way.
RefusalStops ==
    /\ Goto("write_data", "write_stop")
    /\ left > 0
    /\ Refusal
    /\ UNCHANGED << cacheVars, data, left, buff, result, callVars >>

\* The call gives up without ending the transfer.
WriteRefused ==
    /\ Goto("write_data", "write_end")
    /\ left > 0
    /\ Refusal
    /\ UNCHANGED << cacheVars, data, left, buff, result, callVars >>

WriteDone ==
    /\ Goto("write_data", "write_stop")
    /\ left = 0
    /\ UNCHANGED << cacheVars, data, card, open, left, buff, result, callVars >>

\* What the stop token finds, and leaves: a card that waits for a token takes it,
\* one that is storing a block may not see it, and one that is still taking a
\* block in takes the token for data, which may be what the block lacked.
AfterToken(state) ==
    CASE state = "write" -> { "none" }
      [] state = "busy"  -> { "busy", "write", "none" }
      [] state = "block" -> { "block", "busy", "write" }
      [] OTHER           -> { state }

Token(states) ==
    /\ open' \in states
    /\ card' \in IF open = "block" /\ open' # "block" THEN { card, Stored }
                                                      ELSE { card }

\* The loop around the stop token is left at the first 0xFF from the card, which
\* it sends whenever it is not storing a block: also in the midst of taking one in.
WriteStop ==
    /\ Goto("write_stop", "write_end")
    /\ IF req.count > 1
       THEN Token({ state \in AfterToken(open) : state = "busy" => open = "block" })
       ELSE UNCHANGED << card, open >>
    /\ result' = "OK"
    /\ UNCHANGED << cacheVars, data, left, buff, callVars >>

\* The stop token does not go out, or the card does not get ready: it is sent again.
WriteStopFails ==
    /\ pc = "write_stop"
    /\ req.count > 1
    /\ "stop" \in Faults
    /\ Token({ open } \cup AfterToken(open))
    /\ UNCHANGED << cacheVars, data, pc, left, buff, result, callVars >>

WriteEnd ==
    /\ Goto("write_end", "idle")
    /\ UNCHANGED << cacheVars, data, card, open, left, buff, result, callVars >>

----------------------------------------------------------------------------
\* Mutant: the counter is reset, the entries are kept.
InitializeCounter ==
    /\ pc = "idle"
    /\ calls < MaxCalls
    /\ calls' = calls + 1
    /\ usedCounter' = 0
    /\ UNCHANGED << entry, slot, color, data, card, open, pc, req, left, buff,
                    result, writes, lost >>

\* disk_initialize on a card that is initialised already.
Initialize ==
    /\ pc = "idle"
    /\ calls < MaxCalls
    /\ calls' = calls + 1
    /\ Cache!InvalidateAll
    /\ UNCHANGED << data, card, open, pc, req, left, buff, result, writes,
                    lost >>

\* The program changes the video mode between two calls.
SwitchMode ==
    /\ pc = "idle"
    /\ Switches
    /\ calls < MaxCalls
    /\ calls' = calls + 1
    /\ Cache!SwitchMode
    /\ UNCHANGED << data, card, open, pc, req, left, buff, result, writes,
                    lost >>

Client ==
    \/ \E s \in Sectors, n \in ReadCounts, window \in BOOLEAN : Read(s, n, window)
    \/ \E s \in Sectors, n \in WriteCounts : Write(s, n)
    \/ Initialize
    \/ SwitchMode

DriverStep ==
    \/ LookupHit \/ LookupMiss \/ ReadCommand \/ ReadBlock \/ ReadBlockFails
    \/ ReadStop \/ ReadStopFails \/ ReadEnd
    \/ WriteCommand \/ WriteBlock \/ WriteBlockFails \/ WriteRefused
    \/ WriteDone \/ WriteStop \/ WriteStopFails \/ WriteEnd

Next == Client \/ DriverStep

Spec == Init /\ [][Next]_vars

\* The CPU keeps executing.  Nothing is assumed of the card: it may never get
\* ready after the stop token.
FairSpec == Spec /\ WF_vars(DriverStep)

----------------------------------------------------------------------------
(***************************************************************************)
(* What the file system relies on.                                         *)
(***************************************************************************)
\* disk_read returning RES_OK has put the present contents of all the sectors
\* it was asked for into the caller's buffer, cached or not.
ReadOkMeansData ==
    (pc = "idle" /\ req.op = "read" /\ result = "OK") =>
        buff = [ k \in 1 .. req.count |-> Content(req.sector + k - 1) ]

\* With the cache out of the way, and no block lost on its way (which the code
\* reports as RES_OK too, diskio.c:417), a read that returns RES_OK is right,
\* whatever failed before it, and although the address is turned into bytes for
\* some cards and advances by itself.
UncachedReadRight ==
    (pc = "idle" /\ req.op = "read" /\ result = "OK" /\ ~Cached /\ ~lost) =>
        buff = [ k \in 1 .. req.count |-> Content(req.sector + k - 1) ]

\* disk_write returning RES_OK has put all its blocks on the card, unless one was
\* lost on the way: the code reports that as RES_OK too (diskio.c:537).
WriteOkMeansStored ==
    (pc = "idle" /\ req.op = "write" /\ result = "OK" /\ ~lost) =>
        \A s \in Range(req.sector, req.count) : card[s] = writes

\* Between calls a valid slot holds what its sector holds on the card.
CacheCoherent ==
    pc = "idle" =>
        \A i \in Slots : entry[i].valid => data[i] = Content(entry[i].sector)

\* A transfer that returns RES_OK leaves the card in the middle of nothing, in
\* whichever order its commands, blocks and stops failed.  But for a write that
\* lost a block on its way: the card may then take the stop token for data, and
\* the code returns RES_OK all the same (diskio.c:537-547, 563-572).
OkClosesTransfer ==
    (/\ pc = "idle" /\ req.op # "none" /\ result = "OK" /\ ~Cached
     /\ req.op = "read" \/ ~lost)
        => open = "none"

\* Whatever fails, the cache's index only ever moves the way TfCache allows.
ImplementsCache == Cache!Spec

\* Where nothing fails, disk_read and disk_write with their cache are a disk: the
\* cache is not to be noticed, from whichever slot a read is answered.
Device == INSTANCE BlockDevice WITH
    Blocks  <- Sectors,
    store   <- card,
    stamp   <- writes,
    request <- [ op     |-> IF pc = "idle" THEN "none" ELSE req.op,
                 sector |-> IF pc = "idle" THEN 0 ELSE req.sector,
                 count  |-> IF pc = "idle" THEN 0 ELSE req.count ],
    answer  <- IF pc # "idle" \/ req.op = "none" THEN << "none" >>
               ELSE IF req.op = "read" THEN << "data", buff >> ELSE << "done" >>

ImplementsDevice == Device!Spec

\* The loop that sends the stop token until the card is ready, which the code does
\* not bound (diskio.c:563-576).
InStopLoop == pc = "write_stop" /\ req.count > 1

\* Every call returns, or sends the stop token for ever: there is no other place
\* in which it can be held up, whatever fails.
CallReturns == pc # "idle" ~> (pc = "idle" \/ []InStopLoop)

\* The steps that the call has before it at most, each round of the stop loop
\* apart.
StepsLeft ==
    CASE pc = "lookup" -> left + 5
      [] pc \in { "read_cmd", "write_cmd" } -> left + 4
      [] pc \in { "read_data", "write_data" } -> left + 3
      [] pc \in { "read_stop", "write_stop" } -> 2
      [] pc \in { "read_end", "write_end" } -> 1
      [] pc = "idle" -> 0

\* Whatever fails, a call only goes towards its end; the one thing it does over
\* again is to send the stop token.
CallsAdvance ==
    [][ pc # "idle" => \/ StepsLeft' < StepsLeft
                       \/ WriteStopFails /\ StepsLeft' = StepsLeft ]_vars

=============================================================================
