----------------------------- MODULE BlockDevice -----------------------------
(***************************************************************************)
(* What a file system expects of a disk that does not fail: one request at *)
(* a time; a write replaces the blocks it names, one by one in any order,  *)
(* and is over when all of them are; a read returns what the blocks hold.  *)
(* A block is known by the number of the write that put it there.          *)
(***************************************************************************)
EXTENDS Integers

CONSTANT Blocks         \* the numbers of the blocks

VARIABLES
    store,      \* the write that each block holds, 0 before any
    request,    \* the request in progress
    stamp,      \* the number of writes requested
    answer      \* what the last request returned

deviceVars == << store, request, stamp, answer >>

NoRequest == [ op |-> "none", sector |-> 0, count |-> 0 ]
NoAnswer  == << "none" >>

Named(r) == r.sector .. r.sector + r.count - 1

Init ==
    /\ store = [ s \in Blocks |-> 0 ]
    /\ request = NoRequest
    /\ stamp = 0
    /\ answer = NoAnswer

Begin ==
    /\ request = NoRequest
    /\ request'.op \in { "read", "write" }
    /\ Named(request') \subseteq Blocks
    /\ stamp' = IF request'.op = "write" THEN stamp + 1 ELSE stamp
    /\ answer' = NoAnswer
    /\ UNCHANGED store

Replace ==
    /\ request.op = "write"
    /\ \E s \in Named(request) : store' = [ store EXCEPT ![s] = stamp ]
    /\ UNCHANGED << request, stamp, answer >>

EndRead ==
    /\ request.op = "read"
    /\ answer' = << "data", [ k \in 1 .. request.count |->
                                << request.sector + k - 1,
                                   store[request.sector + k - 1] >> ] >>
    /\ request' = NoRequest
    /\ UNCHANGED << store, stamp >>

EndWrite ==
    /\ request.op = "write"
    /\ \A s \in Named(request) : store[s] = stamp
    /\ answer' = << "done" >>
    /\ request' = NoRequest
    /\ UNCHANGED << store, stamp >>

Next == Begin \/ Replace \/ EndRead \/ EndWrite

Spec == Init /\ [][Next]_deviceVars

=============================================================================
