------------------------------ MODULE McuProofs ------------------------------
(***************************************************************************)
(* Proofs about the MCU and the routines that talk to it (Mcu, McuNative   *)
(* and McuBoot): src/core/mcu.                                             *)
(*                                                                         *)
(* First what every variable of the composition is (TypeInv): which calls  *)
(* are in progress at which of the two programs, that the units that come  *)
(* in are what they are taken for, and that a script of the boot loader    *)
(* asks for what its sizes announce.  Then what a reset has said so far    *)
(* and what the boot loader has heard of it (SyncInv), from which a reset  *)
(* that returns true leaves the two sides at the same place.  Last where   *)
(* the firmware is at each point of a native call (NativeInv), from which  *)
(* an answer that is returned is that of its own command.  The same for    *)
(* the boot loader is in McuBootProofs.  At the end, what every step takes *)
(* off the number of steps that a call has left.                           *)
(***************************************************************************)
EXTENDS Mcu, SequenceTheorems, TLAPS

\* The points of a call of the boot loader, and of a native one.
BootPCs == { "boot", "boot_wait", "boot_abort" }

\* A word of the native protocol names a call and what it is.
WordOK(word) ==
    word[1] = "cmd" => word[2] \in Nat /\ word[3] \in Native!Calls

\* What a unit that was received says, where somebody acts on it.
UnitOK(unit) ==
    /\ unit[1] = "header" =>
          unit[2] \in BOOLEAN /\ unit[3] \in Lengths /\ unit[4] \in Flags
    /\ unit[1] = "size" => unit[2] \in Nat

\* What can be in flight.
Flights == [ mode : Modes, dev : Devices, buf : { 0, 1 }, n : 0 .. Window,
             stop : BOOLEAN ]

\* The SPI link.  What is in flight uses the buffer that is not the current one; it
\* is told to stop only where the two sides may disagree from then on; and as long as
\* they do not, what came in is what it will be taken for.
LinkInv ==
    /\ idx \in { 0, 1 } /\ device \in Devices /\ flight \in Flights
    /\ ~Busy => flight = NoFlight
    /\ Busy => flight.n > 0 /\ flight.buf = 1 - idx
    /\ flight.stop => ~intact
    /\ DOMAIN tx = { 0, 1 } /\ \A b \in { 0, 1 } : WordOK(tx[b])
    /\ DOMAIN rx = { 0, 1 }
    /\ intact => \A b \in { 0, 1 } : UnitOK(rx[b][1])

\* What the firmware can have said.
Said == { << "header", err, n, f >> : err \in BOOLEAN, n \in Lengths, f \in Flags }
            \cup { << "data", k, i >> : k \in Nat, i \in Nat }

\* What the firmware can be.
Firms == [ awake : BOOLEAN, cmd : Nat, how : { "sync", "start", "mode", "fat" },
           need : Seq({ "argument", "block" }), own : BOOLEAN, work : BOOLEAN,
           len : Nat, flags : Int, most : Nat, out : Seq(Said) ]

\* The native protocol.  An answer that was asked for in advance is waited for only
\* while nothing was cut off, and between two calls, or while it is fetched.
NativeTypes ==
    /\ calls \in 0 .. MaxCalls /\ call \in Native!Calls
    /\ room \in Nat /\ left \in Nat /\ Len(buffer) \in Nat
    /\ answer.phase \in { "none", "sent", "started" } /\ answer.room \in Nat
    /\ saved[1] \in { 0, 1 } /\ saved[2] \in Devices
    /\ intact \in BOOLEAN
    /\ answer.phase # "none" =>
          intact /\ pc \in { "idle", "reset", "reset_low", "request", "finish" }
    /\ pc = "finish" => answer.phase = "started"
    /\ pc \in { "control", "command", "argument", "block", "request", "header",
                "header_wait" } => intact
    /\ firm \in Firms

\* What the words of the boot loader protocol are made of.
Names == { "zero", "ack", "start", "frame", "version", "id", "read", "write",
           "erase", "jump", "addr", "length", "size", "data", "count", "page" }
\* A number or a name.
Atoms == Nat \cup Names
\* A word is some of these, or a checksum of other words.
Words == Seq(Atoms) \cup ({ "sum" } \X BOOLEAN \X Seq(Seq(Atoms)))
\* What a step of a script can do.
Whats == { "skip", "poll", "echo", "refused", "frame", "send", "exchange", "size",
           "value", "receive" }
\* The steps a script can have.
Steps == [ what : Whats, v : Nat \cup Words ]

\* A size is followed by what it is the size of, and that is received last.
ScriptOK(s) ==
    \A i \in 1 .. Len(s) :
        /\ s[i].what = "receive" => s[i].v \in Nat
        /\ s[i].what # "receive" => s[i].v[1] # "cmd"
        /\ s[i].what = "size" =>
              /\ i < Len(s) /\ s[i + 1].what = "receive"
              /\ \A j \in 1 .. Len(s) : s[j].what = "receive" => j = i + 1

\* The fields of the boot loader's state.
LoaderFields == { "expect", "kind", "cmd", "part", "got", "did", "wrong", "lost" }

\* The boot loader protocol: a call is in progress exactly while its script has steps
\* left, and no size is waited for once something was cut off.
BootTypes ==
    /\ todo \in Seq(Steps) /\ ScriptOK(todo)
    /\ pc \in BootPCs <=> todo # << >>
    /\ (\E i \in 1 .. Len(todo) : todo[i].what = "size") => intact
    /\ retries \in 0 .. RetryMod - 1
    /\ DOMAIN loader = LoaderFields

\* The points of a native call: all but that between two calls.
NativePCs == { "control", "command", "argument", "block", "restore", "header",
               "request", "header_wait", "data", "data_wait", "skip",
               "header_abort", "data_abort", "finish" }

\* The reset, and which program the MCU runs: the one that is spoken to, whose calls
\* alone can be in progress.
ResetTypes ==
    /\ want \in BOOLEAN /\ boot0 \in BOOLEAN
    /\ runs \in { "firmware", "loader" } /\ speaks = runs
    /\ pc \in { "idle", "reset", "reset_low" }
                  \cup (IF runs = "loader" THEN BootPCs ELSE NativePCs)
    /\ runs = "loader" => answer.phase = "none"
    /\ pc = "reset_low" => boot0 = want /\ ~Busy

\* The inductive invariant of all types.
TypeInv == LinkInv /\ NativeTypes /\ BootTypes /\ ResetTypes

----------------------------------------------------------------------------
(***************************************************************************)
(* The calls of the native protocol.                                       *)
(***************************************************************************)
\* What describes a call: a block comes only behind an argument, and the call that
\* may change the firmware's mode has neither.
CallShapes == [ how : { "sync", "start", "mode", "fat" }, arg : BOOLEAN,
                block : BOOLEAN, room : Nat,
                gives : { "zero", "raw", "stamp", "value", "count" } ]

CallOK(c) ==
    /\ c \in CallShapes
    /\ c.block => c.arg
    /\ c.how = "mode" => ~c.arg
    /\ c.gives \in { "raw", "stamp" } => c.room = 2
    /\ c.gives = "value" => c.room \in { 1, 2 }

\* Every call that Sync describes is one of those shapes.
LEMMA SyncOK ==
    ASSUME NEW arg \in BOOLEAN, NEW block \in BOOLEAN, NEW n \in Nat,
           NEW gives \in { "zero", "raw", "stamp", "value", "count" },
           block => arg,
           gives \in { "raw", "stamp" } => n = 2,
           gives = "value" => n \in { 1, 2 }
    PROVE  LET c == Native!Sync(arg, block, n, gives) IN
           /\ CallOK(c)
           /\ CallOK([ c EXCEPT !.how = "start" ])
           /\ CallOK([ c EXCEPT !.how = "fat" ])
           /\ ~arg => CallOK([ c EXCEPT !.how = "mode" ])
BY DEF Native!Sync, CallOK, CallShapes

\* So is every call of mcu/system.h, eeprom.h, rtc.h, cdc.h and get_fattime.
LEMMA CallsOK ==
    /\ \A c \in Native!Calls : CallOK(c)
    /\ Native!NoCall \in Native!Calls
<1> USE NativeAssumption
<1>1. ASSUME NEW c \in Native!SystemCalls PROVE CallOK(c)
  <2>1. CASE c = [ Native!Sync(FALSE, FALSE, 0, "zero") EXCEPT !.how = "mode" ]
    BY <2>1, SyncOK
  <2>2. CASE c \in { Native!Sync(FALSE, FALSE, n, "count") : n \in Rooms }
    BY <2>2, SyncOK
  <2>3. ASSUME c \in { Native!Sync(FALSE, FALSE, 1, "value"),
                       Native!Sync(FALSE, FALSE, 2, "raw"),
                       Native!Sync(TRUE, FALSE, 0, "zero"),
                       Native!Sync(TRUE, FALSE, 1, "value"),
                       Native!Sync(FALSE, FALSE, 2, "zero") }
        PROVE  CallOK(c)
    BY <2>3, SyncOK
  <2> QED BY <2>1, <2>2, <2>3 DEF Native!SystemCalls
<1>2. ASSUME NEW c \in Native!EepromCalls PROVE CallOK(c)
  <2>1. CASE c = Native!Start(TRUE, TRUE, 0)
    BY <2>1, SyncOK DEF Native!Start
  <2>2. CASE c \in { Native!Sync(TRUE, FALSE, n, "count") : n \in Rooms }
    BY <2>2, SyncOK
  <2>3. CASE c \in { Native!Sync(FALSE, FALSE, 1, "value"),
                     Native!Sync(FALSE, FALSE, 0, "count"),
                     Native!Sync(TRUE, TRUE, 0, "zero") }
    BY <2>3, SyncOK
  <2> QED BY <2>1, <2>2, <2>3 DEF Native!EepromCalls
<1>3. ASSUME NEW c \in Native!RtcCalls PROVE CallOK(c)
  BY SyncOK DEF Native!RtcCalls
<1>4. ASSUME NEW c \in Native!CdcCalls PROVE CallOK(c)
  <2>1. CASE c = Native!Start(TRUE, FALSE, 2)
    BY <2>1, SyncOK DEF Native!Start
  <2>4. CASE c = Native!Start(FALSE, FALSE, 2)
    BY <2>4, SyncOK DEF Native!Start
  <2>2. CASE c \in { Native!Sync(FALSE, FALSE, n, "count") : n \in Rooms }
    BY <2>2, SyncOK
  <2>3. CASE c \in { Native!Sync(TRUE, FALSE, 2, "value"),
                     Native!Sync(FALSE, FALSE, 2, "value"),
                     Native!Sync(FALSE, FALSE, 0, "count") }
    BY <2>3, SyncOK
  <2> QED BY <2>1, <2>2, <2>3, <2>4 DEF Native!CdcCalls
<1>5. CallOK(Native!FatTime)
  BY SyncOK DEF Native!FatTime
<1>6. Native!NoCall \in Native!EepromCalls
  BY DEF Native!EepromCalls, Native!NoCall
<1> QED BY <1>1, <1>2, <1>3, <1>4, <1>5, <1>6 DEF Native!Calls

----------------------------------------------------------------------------
(***************************************************************************)
(* The scripts of the boot loader's calls.                                 *)
(***************************************************************************)
\* Steps that ask for nothing to come.
Plain(s) ==
    /\ s \in Seq(Steps)
    /\ \A i \in 1 .. Len(s) :
         s[i].what \notin { "size", "receive" } /\ s[i].v[1] # "cmd"

\* Such scripts can be put one behind the other.
LEMMA PlainConcat ==
    ASSUME NEW s, NEW t, Plain(s), Plain(t)
    PROVE  Plain(s \o t)
<1>1. /\ s \in Seq(Steps) /\ t \in Seq(Steps)
      /\ Len(s) \in Nat /\ Len(t) \in Nat
  BY LenProperties DEF Plain
<1>2. /\ s \o t \in Seq(Steps) /\ Len(s \o t) = Len(s) + Len(t)
      /\ \A i \in 1 .. Len(s) + Len(t) :
            (s \o t)[i] = IF i <= Len(s) THEN s[i] ELSE t[i - Len(s)]
  BY <1>1, ConcatProperties
<1> QED BY <1>1, <1>2 DEF Plain

\* A script keeps what it announces when such a script comes in front of it.
LEMMA PlainBefore ==
    ASSUME NEW s, NEW t, Plain(s), t \in Seq(Steps), ScriptOK(t)
    PROVE  s \o t \in Seq(Steps) /\ ScriptOK(s \o t)
<1>1. /\ s \in Seq(Steps) /\ t \in Seq(Steps)
      /\ Len(s) \in Nat /\ Len(t) \in Nat
  BY LenProperties DEF Plain
<1>2. /\ s \o t \in Seq(Steps) /\ Len(s \o t) = Len(s) + Len(t)
      /\ \A i \in 1 .. Len(s) + Len(t) :
            (s \o t)[i] = IF i <= Len(s) THEN s[i] ELSE t[i - Len(s)]
  BY <1>1, ConcatProperties
<1> DEFINE u == s \o t
<1>3. ASSUME NEW i \in 1 .. Len(u)
      PROVE  \/ u[i] = s[i] /\ i \in 1 .. Len(s)
             \/ u[i] = t[i - Len(s)] /\ i - Len(s) \in 1 .. Len(t) /\ i > Len(s)
  BY <1>1, <1>2
<1> HIDE DEF u
<1>4. ASSUME NEW i \in 1 .. Len(u)
      PROVE  /\ u[i].what = "receive" => u[i].v \in Nat
             /\ u[i].what # "receive" => u[i].v[1] # "cmd"
  BY <1>3, <1>4 DEF Plain, ScriptOK
<1>5. ASSUME NEW i \in 1 .. Len(u), u[i].what = "size"
      PROVE  /\ i < Len(u) /\ u[i + 1].what = "receive"
             /\ \A j \in 1 .. Len(u) : u[j].what = "receive" => j = i + 1
  <2> DEFINE k == i - Len(s)
  <2>1. u[i] = t[k] /\ k \in 1 .. Len(t) /\ i > Len(s)
    BY <1>3, <1>5 DEF Plain
  <2>2. /\ k < Len(t) /\ t[k + 1].what = "receive"
        /\ \A j \in 1 .. Len(t) : t[j].what = "receive" => j = k + 1
    BY <2>1, <1>5 DEF ScriptOK
  <2>3. i < Len(u) /\ u[i + 1] = t[k + 1]
    BY <2>1, <2>2, <1>1, <1>2 DEF u
  <2>4. ASSUME NEW j \in 1 .. Len(u), u[j].what = "receive" PROVE j = i + 1
    <3>1. u[j] = t[j - Len(s)] /\ j - Len(s) \in 1 .. Len(t)
      BY <1>3, <2>4 DEF Plain
    <3> QED BY <3>1, <2>2, <2>4, <1>1
  <2> QED BY <2>2, <2>3, <2>4
<1> QED BY <1>2, <1>4, <1>5 DEF ScriptOK, u

\* Such a script asks for what its sizes announce: it has none.
LEMMA PlainIsScript == ASSUME NEW s, Plain(s) PROVE s \in Seq(Steps) /\ ScriptOK(s)
BY DEF Plain, ScriptOK

\* What a checksum covers.
Covered == Seq(Seq(Atoms))

\* A few numbers and names are a word.
LEMMA Words1 ==
    /\ \A a \in Names : << a >> \in Words
    /\ \A a \in Names, b \in Atoms : << a, b >> \in Words
    /\ \A a \in Names, b \in Atoms, c \in Atoms : << a, b, c >> \in Words
    /\ \A a \in Names : a \in Atoms
    /\ \A n \in Nat : n \in Atoms
BY DEF Words, Atoms

\* A checksum is a word.
LEMMA SumWord ==
    ASSUME NEW inverted \in BOOLEAN, NEW covered \in Covered
    PROVE  /\ Boot!Sum(inverted, covered) \in Words
           /\ Boot!Sum(inverted, covered)[1] # "cmd"
BY DEF Boot!Sum, Words, Covered

\* A script of one step.
LEMMA OneStep ==
    ASSUME NEW what \in Whats, what \notin { "size", "receive" },
           NEW word \in Words, word[1] # "cmd"
    PROVE  Plain(<< Boot!Step(what, word) >>)
BY DEF Plain, Boot!Step, Steps

\* The words that are sent while an answer is awaited.
LEMMA ShortWords ==
    /\ Boot!Zero \in Words /\ Boot!Zero[1] # "cmd"
    /\ Boot!Ack \in Words /\ Boot!Ack[1] # "cmd"
<1>1. Boot!Zero = << "zero" >> /\ Boot!Ack = << "ack" >>
  BY DEF Boot!Zero, Boot!Ack
<1>2. << "zero" >> \in Words /\ << "ack" >> \in Words
  BY Words1 DEF Names
<1> QED BY <1>1, <1>2

\* Waiting for an acknowledgement.
LEMMA WaitAckPlain == Plain(Boot!WaitAck)
<1> DEFINE a == Boot!Step("skip", Boot!Zero)
           b == Boot!Step("poll", Boot!Zero)
           c == Boot!Step("echo", Boot!Ack)
<1>1. a \in Steps /\ b \in Steps /\ c \in Steps
  BY ShortWords DEF Boot!Step, Steps, Whats
<1>3. /\ a.what = "skip" /\ a.v[1] # "cmd"
      /\ b.what = "poll" /\ b.v[1] # "cmd"
      /\ c.what = "echo" /\ c.v[1] # "cmd"
  BY ShortWords DEF Boot!Step
<1>2. Boot!WaitAck = << a, b, c >>
  BY DEF Boot!WaitAck
<1> HIDE DEF a, b, c
<1> QED BY <1>1, <1>2, <1>3 DEF Plain

\* The checksum of what is covered, in its two forms.
LEMMA SumStep ==
    ASSUME NEW what \in { "exchange", "send" }, NEW inverted \in BOOLEAN,
           NEW covered \in Covered
    PROVE  Plain(<< Boot!Step(what, Boot!Sum(inverted, covered)) >>)
BY SumWord, OneStep DEF Whats

\* The bytes that data frames are made of.
Bytes == Names \X Nat \X Nat

\* Bytes are a word.
LEMMA BytesWord ==
    ASSUME NEW bytes \in Bytes
    PROVE  /\ bytes \in Words /\ bytes[1] # "cmd" /\ bytes \in Seq(Atoms)
           /\ bytes[3] \in Nat
<1>1. /\ bytes = << bytes[1], bytes[2], bytes[3] >>
      /\ bytes[1] \in Names /\ bytes[2] \in Nat /\ bytes[3] \in Nat
  BY DEF Bytes
<1>2. bytes \in Seq(Atoms)
  <2>1. << bytes[1], bytes[2], bytes[3] >> \in Seq(Atoms)
    BY <1>1 DEF Atoms
  <2> QED BY <1>1, <2>1
<1>3. bytes[1] # "cmd"
  BY <1>1 DEF Names
<1> QED BY <1>1, <1>2, <1>3 DEF Words

\* A script of two steps.
LEMMA PlainPair ==
    ASSUME NEW a, NEW b, Plain(<< a >>), Plain(<< b >>)
    PROVE  Plain(<< a, b >>)
<1>1. ASSUME NEW c, Plain(<< c >>)
      PROVE  c \in Steps /\ c.what \notin { "size", "receive" } /\ c.v[1] # "cmd"
  <2>1. Len(<< c >>) = 1 /\ << c >>[1] = c
    OBVIOUS
  <2>2. << c >> \in Seq(Steps) /\ 1 \in 1 .. Len(<< c >>)
    BY <1>1, <2>1 DEF Plain
  <2> QED BY <1>1, <2>1, <2>2, ElementOfSeq DEF Plain
<1>2. Len(<< a, b >>) = 2 /\ << a, b >>[1] = a /\ << a, b >>[2] = b
  OBVIOUS
<1>3. a \in Steps /\ b \in Steps
  BY <1>1
<1>4. << a, b >> \in Seq(Steps)
  BY <1>3
<1>5. \A i \in 1 .. 2 : << a, b >>[i] = a \/ << a, b >>[i] = b
  BY <1>2
<1> QED BY <1>1, <1>2, <1>4, <1>5 DEF Plain

\* Sending data.
LEMMA SendDataPlain ==
    ASSUME NEW sized \in BOOLEAN, NEW bytes \in Bytes
    PROVE  Plain(Boot!SendData(sized, bytes))
<1> DEFINE size == << "size", bytes[3] >>
           covered == IF sized THEN << size, bytes >> ELSE << bytes >>
           first == IF sized THEN << Boot!Step("exchange", size) >> ELSE << >>
           second == << Boot!Step("send", bytes) >>
           sum == Boot!Sum(~sized /\ bytes[3] = 1, covered)
           third == << Boot!Step("exchange", sum) >>
           both == << Boot!Step("send", bytes), Boot!Step("exchange", sum) >>
<1>1. size \in Words /\ size[1] # "cmd" /\ size \in Seq(Atoms)
  BY BytesWord DEF Words, Atoms, Names
<1>2. covered \in Covered
  BY <1>1, BytesWord DEF Covered
<1>3. Plain(first)
  <2>1. CASE sized
    BY <2>1, <1>1, OneStep DEF Whats
  <2>2. CASE ~sized
    BY <2>2 DEF Plain
  <2> QED BY <2>1, <2>2
<1>4. Plain(both)
  <2> DEFINE a == Boot!Step("send", bytes)
             b == Boot!Step("exchange", Boot!Sum(~sized /\ bytes[3] = 1, covered))
  <2>1. Plain(<< a >>)
    BY BytesWord, OneStep DEF Whats
  <2>2. Plain(<< b >>)
    <3>1. (~sized /\ bytes[3] = 1) \in BOOLEAN
      OBVIOUS
    <3> QED BY <3>1, <1>2, SumStep
  <2> QED BY <2>1, <2>2, PlainPair
<1>5. Boot!SendData(sized, bytes) = first \o both \o Boot!WaitAck
  BY DEF Boot!SendData
<1> HIDE DEF first, both
<1> QED BY <1>3, <1>4, <1>5, PlainConcat, WaitAckPlain

\* Scripts one behind the other, the last of which may receive.
LEMMA Joined ==
    ASSUME NEW S, NEW s \in Seq(S), NEW t \in Seq(S)
    PROVE  /\ s \o t \in Seq(S) /\ Len(s \o t) = Len(s) + Len(t)
           /\ Len(s) \in Nat /\ Len(t) \in Nat
           /\ \A i \in 1 .. Len(s) : (s \o t)[i] = s[i]
           /\ \A i \in 1 .. Len(t) : (s \o t)[Len(s) + i] = t[i]
<1>1. Len(s) \in Nat /\ Len(t) \in Nat
  BY LenProperties
<1>2. /\ s \o t \in Seq(S) /\ Len(s \o t) = Len(s) + Len(t)
      /\ \A i \in 1 .. Len(s) + Len(t) :
            (s \o t)[i] = IF i <= Len(s) THEN s[i] ELSE t[i - Len(s)]
  BY ConcatProperties
<1> HIDE DEF Steps
<1> QED BY <1>1, <1>2

\* Receiving data of a length that is known.
LEMMA RecvDataOK ==
    ASSUME NEW n \in Nat
    PROVE  /\ Boot!RecvData(FALSE, n) \in Seq(Steps)
           /\ ScriptOK(Boot!RecvData(FALSE, n))
<1> DEFINE a == Boot!Step("exchange", Boot!Zero)
           b == Boot!Step("receive", n)
<1>1. b \in Steps /\ b.what = "receive" /\ b.v = n
  BY DEF Boot!Step, Steps, Whats
<1>2. Plain(<< a >> \o << >>)
  <2>1. Plain(<< >>)
    BY DEF Plain
  <2>2. Plain(<< a >>)
    BY ShortWords, OneStep DEF Whats
  <2> QED BY <2>1, <2>2, PlainConcat
<1>3. Boot!RecvData(FALSE, n) = << a >> \o << >> \o << b >>
  BY DEF Boot!RecvData
<1> HIDE DEF a, b
<1>4. << b >> \in Seq(Steps) /\ Len(<< b >>) = 1 /\ << b >>[1] = b
  BY <1>1
<1>5. ScriptOK(<< b >>)
  BY <1>1, <1>4 DEF ScriptOK
<1> QED BY <1>2, <1>3, <1>4, <1>5, PlainBefore

\* Receiving data behind their length, which is the one size there is.
LEMMA GetIdOK ==
    Boot!GetId \in Seq(Steps) /\ ScriptOK(Boot!GetId) /\ Boot!GetId # << >>
<1> DEFINE a == Boot!Step("exchange", Boot!Zero)
           b == Boot!Step("size", Boot!Zero)
           c == Boot!Step("receive", 2)
           d == Boot!WaitAck
           s == << a >> \o << b >> \o << c >> \o d
<1>1. a \in Steps /\ b \in Steps /\ c \in Steps
  BY ShortWords DEF Boot!Step, Steps, Whats
<1>2. /\ a.what = "exchange" /\ a.v[1] # "cmd" /\ b.what = "size" /\ b.v[1] # "cmd"
      /\ c.what = "receive" /\ c.v = 2
  BY ShortWords DEF Boot!Step
<1>3. Plain(d) /\ d \in Seq(Steps) /\ Len(d) = 3
  BY WaitAckPlain DEF Plain, Boot!WaitAck
<1>4. Boot!GetId = s
  BY DEF Boot!GetId, Boot!RecvData
<1> HIDE DEF a, b, c, d
<1> DEFINE ab == << a >> \o << b >>
           abc == ab \o << c >>
<1>5. /\ << a >> \in Seq(Steps) /\ << b >> \in Seq(Steps) /\ << c >> \in Seq(Steps)
      /\ Len(<< a >>) = 1 /\ Len(<< b >>) = 1 /\ Len(<< c >>) = 1
      /\ << a >>[1] = a /\ << b >>[1] = b /\ << c >>[1] = c
  BY <1>1
<1>6. ab \in Seq(Steps) /\ Len(ab) = 2 /\ ab[1] = a /\ ab[2] = b
  BY <1>5, Joined
<1> HIDE DEF ab
<1>7. abc \in Seq(Steps) /\ Len(abc) = 3 /\ abc[1] = a /\ abc[2] = b /\ abc[3] = c
  BY <1>5, <1>6, Joined
<1> HIDE DEF abc
<1>8. /\ s \in Seq(Steps) /\ Len(s) = 6
      /\ s[1] = a /\ s[2] = b /\ s[3] = c /\ s[4] = d[1] /\ s[5] = d[2] /\ s[6] = d[3]
  BY <1>3, <1>7, Joined DEF ab, abc
<1>9. /\ d[1].what \notin { "size", "receive" } /\ d[1].v[1] # "cmd"
      /\ d[2].what \notin { "size", "receive" } /\ d[2].v[1] # "cmd"
      /\ d[3].what \notin { "size", "receive" } /\ d[3].v[1] # "cmd"
  BY <1>3 DEF Plain
<1> HIDE DEF s
<1>10. \A i \in 1 .. 6 : i = 1 \/ i = 2 \/ i = 3 \/ i = 4 \/ i = 5 \/ i = 6
  OBVIOUS
<1>11. \A i \in 1 .. 6 : /\ s[i].what = "receive" => i = 3
                         /\ s[i].what = "size" => i = 2
  BY <1>2, <1>8, <1>9, <1>10
<1>12. \A i \in 1 .. 6 : s[i].what # "receive" => s[i].v[1] # "cmd"
  BY <1>2, <1>8, <1>9, <1>10
<1>13. ScriptOK(s)
  BY <1>2, <1>8, <1>11, <1>12 DEF ScriptOK
<1>14. s # << >>
  BY <1>8
<1> QED BY <1>4, <1>8, <1>13, <1>14

\* Erasing.
LEMMA EraseMemoryPlain ==
    ASSUME NEW o, o.n \in 1 .. CountMod - 1, o.s \in Nat
    PROVE  Plain(Boot!EraseMemory(o))
<1>1. CountMod \in Nat /\ CountMod > 0 /\ AllCounts \in Nat
  BY BootAssumption
<1>2. Boot!SentCount(o.n) \in Nat
  BY <1>1 DEF Boot!SentCount
<1> DEFINE count == Boot!SendData(FALSE, << "count", Boot!SentCount(o.n), 2 >>)
           pages == Boot!Pages(o)
           sends == [ i \in 1 .. Len(pages) |-> Boot!Step("send", pages[i]) ]
           sum   == << Boot!Step("send", Boot!Sum(FALSE, pages)) >>
           middle == IF o.n < AllCounts THEN sends \o sum ELSE << >>
<1>3. Plain(count)
  <2>1. << "count", Boot!SentCount(o.n), 2 >> \in Bytes
    BY <1>2 DEF Bytes, Names
  <2> QED BY <2>1, SendDataPlain
<1>4. pages \in Seq(Bytes) /\ Len(pages) = o.n
  <2>1. ASSUME NEW i \in 1 .. o.n
        PROVE  << "page", (o.s + i - 1) % CountMod, 2 >> \in Bytes
    <3>1. o.s + i - 1 \in Nat
      OBVIOUS
    <3>2. (o.s + i - 1) % CountMod \in Nat
      BY <3>1, <1>1
    <3> QED BY <3>2 DEF Bytes, Names
  <2>2. [ i \in 1 .. o.n |-> << "page", (o.s + i - 1) % CountMod, 2 >> ] \in Seq(Bytes)
    BY <2>1
  <2> QED BY <2>2 DEF Boot!Pages
<1>5. pages \in Covered
  <2>1. \A i \in 1 .. Len(pages) : pages[i] \in Seq(Atoms)
    BY <1>4, ElementOfSeq, BytesWord
  <2>2. pages = [ i \in 1 .. Len(pages) |-> pages[i] ]
    BY <1>4
  <2>3. [ i \in 1 .. Len(pages) |-> pages[i] ] \in Seq(Seq(Atoms))
    BY <1>4, <2>1
  <2> QED BY <2>2, <2>3 DEF Covered
<1> HIDE DEF pages
<1>6. Plain(sends)
  <2>1. ASSUME NEW i \in 1 .. Len(pages)
        PROVE  /\ Boot!Step("send", pages[i]) \in Steps
               /\ Boot!Step("send", pages[i]).what = "send"
               /\ Boot!Step("send", pages[i]).v[1] # "cmd"
    <3>1. pages[i] \in Words /\ pages[i][1] # "cmd"
      BY <1>4, ElementOfSeq, BytesWord
    <3> QED BY <3>1 DEF Boot!Step, Steps, Whats
  <2>2. sends \in Seq(Steps) /\ Len(sends) = Len(pages)
    BY <2>1, <1>4
  <2> QED BY <2>1, <2>2 DEF Plain
<1>7. Plain(sum)
  BY <1>5, SumStep
<1> HIDE DEF sends, sum
<1>8. Plain(middle)
  <2>1. Plain(<< >>)
    BY DEF Plain
  <2> QED BY <2>1, <1>6, <1>7, PlainConcat
<1>9. Boot!EraseMemory(o) = count \o middle \o Boot!WaitAck
  BY DEF Boot!EraseMemory, sends, sum, pages
<1> HIDE DEF count, middle
<1> QED BY <1>3, <1>8, <1>9, PlainConcat, WaitAckPlain

\* The operations of mcu/boot.h.
OpKinds == { "version", "id", "read", "write", "erase", "jump" }

\* What an operation is called with.
LEMMA OperationsOK ==
    ASSUME NEW o \in Boot!Operations
    PROVE  /\ o.kind \in OpKinds
           /\ o.kind \in { "read", "write" } => o.n \in Nat \ { 0 }
           /\ o.kind = "erase" => o.n \in 1 .. CountMod - 1 /\ o.s \in Nat
<1>1. CASE o \in { [ kind |-> k, n |-> 0, s |-> 0 ] :
                       k \in { "version", "id", "jump" } }
  BY <1>1 DEF OpKinds
<1>2. CASE \E k \in { "read", "write" }, n \in Sizes :
             o = [ [ kind |-> k, n |-> 0, s |-> 0 ] EXCEPT !.n = n ]
  BY <1>2, BootAssumption DEF OpKinds
<1>3. CASE o \in { [ kind |-> "erase", n |-> n, s |-> s ] :
                       n \in Counts, s \in Sectors }
  BY <1>3, BootAssumption DEF OpKinds
<1> QED BY <1>1, <1>2, <1>3 DEF Boot!Operations

\* The script of every operation asks for what its sizes announce.
LEMMA ScriptRight ==
    ASSUME NEW o \in Boot!Operations, NEW k \in Nat
    PROVE  LET s == Boot!Script(o, k) IN s \in Seq(Steps) /\ ScriptOK(s) /\ s # << >>
<1> DEFINE first == Boot!SendCmd(o, k)
<1>1. Plain(first) /\ Len(first) > 0
  <2>1. << "frame", o.kind, k >> \in Words /\ << "frame", o.kind, k >>[1] # "cmd"
    BY OperationsOK, Words1 DEF OpKinds, Names
  <2>2. Plain(<< Boot!Step("frame", << "frame", o.kind, k >>) >>)
    BY <2>1, OneStep DEF Whats
  <2>3. Plain(first)
    BY <2>2, PlainConcat, WaitAckPlain DEF Boot!SendCmd
  <2>4. Len(<< Boot!Step("frame", << "frame", o.kind, k >>) >>) = 1
    OBVIOUS
  <2>5. Len(first) = 1 + Len(Boot!WaitAck) /\ Len(Boot!WaitAck) \in Nat
    BY <2>2, <2>4, WaitAckPlain, Joined DEF Plain, Boot!SendCmd
  <2> QED BY <2>3, <2>5
<1>2. ASSUME NEW s, s \in Seq(Steps), ScriptOK(s)
      PROVE  first \o s \in Seq(Steps) /\ ScriptOK(first \o s) /\ first \o s # << >>
  <2>1. first \o s \in Seq(Steps) /\ ScriptOK(first \o s)
    BY <1>1, <1>2, PlainBefore
  <2>2. Len(first \o s) = Len(first) + Len(s) /\ Len(s) \in Nat /\ Len(first) \in Nat
    BY <1>1, <1>2, Joined DEF Plain
  <2>3. Len(first \o s) > 0
    BY <2>2, <1>1
  <2> QED BY <2>1, <2>3
<1>3. Plain(Boot!SendData(FALSE, Boot!Address(k)))
  <2>1. Boot!Address(k) \in Bytes
    BY DEF Boot!Address, Bytes, Names
  <2> QED BY <2>1, SendDataPlain
<1> HIDE DEF first
<1>4. CASE o.kind = "version"
  <2>1. Plain(Boot!GetVersion)
    <3>1. /\ Plain(<< Boot!Step("exchange", Boot!Zero) >>)
          /\ Plain(<< Boot!Step("value", Boot!Zero) >>)
      BY ShortWords, OneStep DEF Whats
    <3> QED BY <3>1, PlainPair, PlainConcat, WaitAckPlain DEF Boot!GetVersion
  <2>2. Boot!Script(o, k) = first \o Boot!GetVersion
    BY <1>4 DEF Boot!Script, first
  <2> QED BY <2>1, <2>2, <1>2, PlainIsScript
<1>5. CASE o.kind = "id"
  <2>1. Boot!Script(o, k) = first \o Boot!GetId
    BY <1>5 DEF Boot!Script, first
  <2> QED BY <2>1, <1>2, GetIdOK
<1>6. CASE o.kind = "read"
  <2>1. o.n \in Nat \ { 0 }
    BY <1>6, OperationsOK
  <2>2. << "length", o.n - 1, 1 >> \in Bytes
    BY <2>1 DEF Bytes, Names
  <2>3. Plain(Boot!SendData(FALSE, << "length", o.n - 1, 1 >>))
    BY <2>2, SendDataPlain
  <2>4. Boot!ReadMemory(o, k) \in Seq(Steps) /\ ScriptOK(Boot!ReadMemory(o, k))
    BY <1>3, <2>1, <2>3, PlainConcat, RecvDataOK, PlainBefore DEF Boot!ReadMemory
  <2>5. Boot!Script(o, k) = first \o Boot!ReadMemory(o, k)
    BY <1>6 DEF Boot!Script, first
  <2> QED BY <2>4, <2>5, <1>2
<1>7. CASE o.kind = "write"
  <2>1. o.n \in Nat \ { 0 }
    BY <1>7, OperationsOK
  <2>2. << "data", k, o.n >> \in Bytes
    BY <2>1 DEF Bytes, Names
  <2>3. Plain(Boot!WriteMemory(o, k))
    BY <2>2, <1>3, SendDataPlain, PlainConcat DEF Boot!WriteMemory
  <2>4. Boot!Script(o, k) = first \o Boot!WriteMemory(o, k)
    BY <1>7 DEF Boot!Script, first
  <2> QED BY <2>3, <2>4, <1>2, PlainIsScript
<1>8. CASE o.kind = "erase"
  <2>1. Plain(Boot!EraseMemory(o))
    BY <1>8, OperationsOK, EraseMemoryPlain
  <2>2. Boot!Script(o, k) = first \o Boot!EraseMemory(o)
    BY <1>8 DEF Boot!Script, first
  <2> QED BY <2>1, <2>2, <1>2, PlainIsScript
<1>9. CASE o.kind = "jump"
  <2>1. Boot!Script(o, k) = first \o Boot!Jump(k)
    BY <1>9 DEF Boot!Script, first
  <2> QED BY <2>1, <1>2, <1>3, PlainIsScript DEF Boot!Jump
<1> QED BY <1>4, <1>5, <1>6, <1>7, <1>8, <1>9, OperationsOK DEF OpKinds

----------------------------------------------------------------------------
(***************************************************************************)
(* The link.                                                               *)
(***************************************************************************)
\* The constants, without what else is assumed of them.
LEMMA ConstantsNat ==
    /\ Window \in Nat /\ Window > 0 /\ MaxCalls \in Nat /\ Lengths \subseteq Nat
    /\ Flags \subseteq Int
    /\ RetryMod \in Nat /\ RetryMod > 0
BY WindowAssumption, NativeAssumption, BootAssumption, McuAssumption

\* The two protocols use the same operators of the same link.
LEMMA SameLink ==
    /\ Native!Busy = Busy /\ Boot!Busy = Busy
    /\ Native!Filler = Filler /\ Boot!Filler = Filler
    /\ Native!NoFlight = NoFlight /\ Boot!NoFlight = NoFlight
    /\ Native!Flip = Flip /\ Boot!Flip = Flip
    /\ Native!Stopping = Stopping /\ Boot!Stopping = Stopping
    /\ Native!link = link /\ Boot!link = link
    /\ \A s, n : Native!Units(s, n) = Units(s, n) /\ Boot!Units(s, n) = Units(s, n)
    /\ \A s, n : Native!After(s, n) = After(s, n)
    /\ \A d : Native!SetControl(d) = SetControl(d)
    /\ \A m, d : Native!StartSending(m, d) = StartSending(m, d)
    /\ \A m, d : Boot!StartSending(m, d) = StartSending(m, d)
    /\ \A m, n : Native!StartReading(m, n) = StartReading(m, n)
    /\ \A m, n : Boot!StartReading(m, n) = StartReading(m, n)
    /\ \A r : Native!Ends(r) = Ends(r) /\ Boot!Ends(r) = Ends(r)
    /\ \A b, j : Native!Forgotten(b, j) = Forgotten(b, j)
    /\ \A b, j : Boot!Forgotten(b, j) = Forgotten(b, j)
<1> USE DEF Busy, Native!Busy, Boot!Busy, Filler, Native!Filler, Boot!Filler, NoFlight,
            Native!NoFlight, Boot!NoFlight
<1>1. /\ Native!Busy = Busy /\ Boot!Busy = Busy
      /\ Native!Filler = Filler /\ Boot!Filler = Filler
      /\ Native!NoFlight = NoFlight /\ Boot!NoFlight = NoFlight
  BY Zenon
<1>2. Native!Flip = Flip /\ Boot!Flip = Flip
  BY Zenon DEF Native!Flip, Boot!Flip, Flip
<1>3. Native!Stopping = Stopping /\ Boot!Stopping = Stopping
  BY Zenon DEF Native!Stopping, Boot!Stopping, Stopping
<1>4. Native!link = link /\ Boot!link = link
  BY Zenon DEF Native!link, Boot!link, link
<1>5. \A s, n : Native!Units(s, n) = Units(s, n) /\ Boot!Units(s, n) = Units(s, n)
  BY Zenon DEF Native!Units, Boot!Units, Units
<1>6. \A s, n : Native!After(s, n) = After(s, n)
  BY Zenon DEF Native!After, After
<1>7. \A d : Native!SetControl(d) = SetControl(d)
  BY Zenon DEF Native!SetControl, SetControl
<1>8. /\ \A m, d : Native!StartSending(m, d) = StartSending(m, d)
      /\ \A m, d : Boot!StartSending(m, d) = StartSending(m, d)
  BY Zenon DEF Native!StartSending, Boot!StartSending, StartSending
<1>9. /\ \A m, n : Native!StartReading(m, n) = StartReading(m, n)
      /\ \A m, n : Boot!StartReading(m, n) = StartReading(m, n)
  BY Zenon DEF Native!StartReading, Boot!StartReading, StartReading, Native!Length,
               Boot!Length, Length
<1>10. \A r : Native!Ends(r) = Ends(r) /\ Boot!Ends(r) = Ends(r)
  BY Zenon DEF Native!Ends, Boot!Ends, Ends
<1>11. /\ \A b, j : Native!Forgotten(b, j) = Forgotten(b, j)
       /\ \A b, j : Boot!Forgotten(b, j) = Forgotten(b, j)
  BY Zenon DEF Native!Forgotten, Boot!Forgotten, Forgotten
<1> QED BY <1>1, <1>2, <1>3, <1>4, <1>5, <1>6, <1>7, <1>8, <1>9, <1>10, <1>11

\* The length of what came in.
LEMMA LengthIs ==
    ASSUME NEW n \in Int
    PROVE  Length(n) \in 1 .. Window /\ (n \in 1 .. Window => Length(n) = n)
<1>1. Window \in Nat /\ Window > 0
  BY ConstantsNat
<1> QED BY <1>1 DEF Length

\* Nothing happens on the link.
LEMMA LinkAside ==
    ASSUME LinkInv, UNCHANGED link, intact' => intact
    PROVE  LinkInv'
BY DEF LinkInv, link, Busy

\* A word is put where it will be sent from.
Writes(word) ==
    \/ tx' = tx
    \/ WordOK(word) /\ \E b \in { 0, 1 } : tx' = [ tx EXCEPT ![b] = word ]

\* Something is sent, and a word may be written for what comes next.
LEMMA LinkSends ==
    ASSUME LinkInv, NEW mode \in Modes \ { "none" }, NEW dev \in Devices,
           StartSending(mode, dev), NEW word, Writes(word),
           rx' = rx, intact' = intact
    PROVE  LinkInv' /\ Busy'
<1>1. idx' \in { 0, 1 } /\ device' \in Devices /\ intact' = intact /\ rx' = rx
  BY DEF LinkInv, StartSending
<1>2. 1 \in 0 .. Window
  BY ConstantsNat
<1>3. flight' \in Flights /\ flight'.n = 1 /\ ~flight'.stop /\ flight'.buf = 1 - idx'
  BY <1>2 DEF LinkInv, StartSending, Flights
<1>4. Busy'
  BY DEF StartSending, Busy
<1>5. DOMAIN tx' = { 0, 1 } /\ \A b \in { 0, 1 } : WordOK(tx'[b])
  BY DEF LinkInv, WordOK, Writes
<1> QED BY <1>1, <1>3, <1>4, <1>5 DEF LinkInv, UnitOK, WordOK

\* Something is asked for.
LEMMA LinkReads ==
    ASSUME LinkInv, NEW mode \in Modes \ { "none" }, NEW n \in Int,
           StartReading(mode, n), UNCHANGED << idx, device, tx, rx, intact >>
    PROVE  LinkInv' /\ Busy'
<1>1. Length(n) \in 1 .. Window /\ Window \in Nat
  BY LengthIs, ConstantsNat
<1>2. flight' \in Flights /\ flight'.n > 0 /\ ~flight'.stop /\ flight'.buf = 1 - idx'
  BY <1>1 DEF LinkInv, StartReading, Flights
<1>3. Busy'
  BY DEF StartReading, Busy
<1> QED BY <1>2, <1>3 DEF LinkInv, UnitOK, WordOK

\* What has come in becomes the current buffer.
LEMMA LinkFlips ==
    ASSUME LinkInv, ~Busy, idx' \in { 0, 1 }, device' \in Devices,
           UNCHANGED << tx, rx, flight >>, intact' => intact
    PROVE  LinkInv'
BY DEF LinkInv, Busy, UnitOK, WordOK

\* What was in flight has left, and something came in for it.
LEMMA LinkEnds ==
    ASSUME LinkInv, NEW received, Ends(received), Busy,
           intact' = intact, intact => UnitOK(received[1])
    PROVE  LinkInv' /\ ~Busy'
<1>1. 0 \in 0 .. Window
  BY ConstantsNat
<1>2. flight' \in Flights /\ ~Busy' /\ flight' = NoFlight /\ ~flight'.stop
  BY <1>1 DEF Ends, NoFlight, Flights, Modes, Devices, Busy
<1>3. flight.buf \in { 0, 1 }
  BY DEF LinkInv, Flights
<1>4. rx' = [ rx EXCEPT ![flight.buf] = received ] /\ DOMAIN rx = { 0, 1 }
  BY DEF LinkInv, Ends
<1>5. DOMAIN rx' = { 0, 1 } /\ \A b \in { 0, 1 } : rx'[b] \in { rx[b], received }
  BY <1>3, <1>4
<1>6. intact => \A b \in { 0, 1 } : UnitOK(rx'[b][1])
  <2> HIDE DEF UnitOK
  <2> QED BY <1>5 DEF LinkInv
<1> QED BY <1>2, <1>5, <1>6 DEF LinkInv, Ends, UnitOK, WordOK

\* What is in the buffers has been forgotten, and at most one word written.
LEMMA LinkForgets ==
    ASSUME LinkInv, NEW word, WordOK(word),
           \/ tx' = Forgotten(tx, Filler)
           \/ tx' = [ Forgotten(tx, Filler) EXCEPT ![idx] = word ],
           rx' = Forgotten(rx, << Filler >>),
           UNCHANGED << idx, device, flight, intact >>
    PROVE  LinkInv'
<1>1. WordOK(Filler) /\ UnitOK(<< Filler >>[1])
  BY DEF WordOK, UnitOK, Filler
<1>2. DOMAIN tx' = { 0, 1 } /\ \A b \in { 0, 1 } : WordOK(tx'[b])
  <2> HIDE DEF WordOK
  <2>1. idx \in { 0, 1 }
    BY DEF LinkInv
  <2>2. \A b \in { 0, 1 } : Forgotten(tx, Filler)[b] \in { tx[b], Filler }
    BY DEF Forgotten
  <2>3. DOMAIN Forgotten(tx, Filler) = { 0, 1 }
    BY DEF Forgotten
  <2>4. \A b \in { 0, 1 } : tx'[b] \in { tx[b], Filler, word }
    BY <2>1, <2>2, <2>3
  <2> QED BY <1>1, <2>3, <2>4 DEF LinkInv
<1>3. DOMAIN rx' = { 0, 1 } /\ \A b \in { 0, 1 } : rx'[b] \in { rx[b], << Filler >> }
  BY DEF Forgotten
<1>4. intact => \A b \in { 0, 1 } : UnitOK(rx'[b][1])
  <2> HIDE DEF UnitOK
  <2> QED BY <1>1, <1>3 DEF LinkInv
<1> QED BY <1>2, <1>3, <1>4 DEF LinkInv, Busy, WordOK, UnitOK

----------------------------------------------------------------------------
(***************************************************************************)
(* Types.                                                                  *)
(***************************************************************************)
\* A native call leaves alone what belongs to the boot loader's, and to the reset.
LEMMA BootAside ==
    ASSUME TypeInv, UNCHANGED << bootOnly, resetOnly >>,
           pc \in NativePCs \cup { "idle" }, pc' \in NativePCs \cup { "idle" },
           runs = "firmware" \/ (pc' = "idle" /\ answer' = answer)
    PROVE  BootTypes' /\ ResetTypes'
<1>1. pc \notin BootPCs /\ pc' \notin BootPCs /\ pc # "reset_low" /\ pc' # "reset_low"
  BY DEF BootPCs, NativePCs
<1>2. BootTypes'
  BY <1>1 DEF TypeInv, BootTypes, bootOnly, ScriptOK
<1>3. ResetTypes'
  BY <1>1 DEF TypeInv, ResetTypes, resetOnly
<1> QED BY <1>2, <1>3

\* The steps of a native call, one by one (src/core/mcu/nile_mcu_native_*.c).
LEMMA NativeCallTypes ==
    ASSUME TypeInv, NEW c \in Native!Calls, Native!Call(c), speaks = "firmware",
           UNCHANGED << bootOnly, resetOnly >>
    PROVE  TypeInv'
<1>1. calls' \in 0 .. MaxCalls /\ calls' \in Nat
  BY ConstantsNat DEF TypeInv, NativeTypes, Native!Call
<1>2. WordOK(Native!Command(c, calls')) /\ WordOK(Filler)
  BY <1>1 DEF WordOK, Native!Command, Filler
<1>3. \/ tx' = Native!Forgotten(tx, Native!Filler)
      \/ tx' = [ Native!Forgotten(tx, Native!Filler) EXCEPT
                    ![idx] = Native!Command(c, calls') ]
  BY DEF Native!Call
<1>4. \/ tx' = Forgotten(tx, Filler)
      \/ tx' = [ Forgotten(tx, Filler) EXCEPT ![idx] = Native!Command(c, calls') ]
  BY <1>3, SameLink
<1>5. rx' = Forgotten(rx, << Filler >>)
  BY SameLink DEF Native!Call
<1>6. LinkInv'
  BY <1>2, <1>4, <1>5, LinkForgets DEF TypeInv, Native!Call
<1>7. NativeTypes'
  <2>1. c.room \in Nat
    BY CallsOK DEF CallOK, CallShapes
  <2>2. saved'[1] \in { 0, 1 } /\ saved'[2] \in Devices
    BY DEF Native!Call, TypeInv, NativeTypes, LinkInv
  <2>3. Len(buffer') \in Nat
    BY DEF Native!Call
  <2>4. pc' \in { "control", "command" } /\ intact' /\ intact' \in BOOLEAN
    BY DEF Native!Call, TypeInv, NativeTypes
  <2> QED BY <1>1, <2>1, <2>2, <2>3, <2>4 DEF Native!Call, TypeInv, NativeTypes
<1>8. BootTypes' /\ ResetTypes'
  <2>1. pc \in NativePCs \cup { "idle" } /\ pc' \in NativePCs
    BY DEF Native!Call, NativePCs
  <2>2. runs = "firmware"
    BY DEF TypeInv, ResetTypes
  <2> QED BY <2>1, <2>2, BootAside
<1> QED BY <1>6, <1>7, <1>8 DEF TypeInv

\* The answer is asked for again.
LEMMA RequestAgainTypes ==
    ASSUME TypeInv, Native!RequestAgain, speaks = "firmware",
           UNCHANGED << bootOnly, resetOnly >>
    PROVE  TypeInv'
<1>1. UNCHANGED link
  BY DEF Native!RequestAgain, Native!Goto, Native!link, link
<1>2. intact' => intact
  BY DEF Native!RequestAgain, Native!Goto
<1>7. LinkInv'
  BY <1>1, <1>2, LinkAside DEF TypeInv
<1>8. NativeTypes'
  BY DEF Native!RequestAgain, Native!Goto, TypeInv, NativeTypes, LinkInv
<1>9. BootTypes' /\ ResetTypes'
  <2>1. pc \in NativePCs \cup { "idle" } /\ pc' \in NativePCs \cup { "idle" }
    BY DEF Native!RequestAgain, Native!Goto, NativePCs
  <2>2. runs = "firmware" \/ (pc' = "idle" /\ answer' = answer)
    BY DEF TypeInv, ResetTypes, Native!RequestAgain, Native!Goto, NativePCs, BootPCs
  <2> QED BY <2>1, <2>2, BootAside
<1> QED BY <1>7, <1>8, <1>9 DEF TypeInv

\* The answer is waited for.
LEMMA FinishTypes ==
    ASSUME TypeInv, Native!Finish, speaks = "firmware",
           UNCHANGED << bootOnly, resetOnly >>
    PROVE  TypeInv'
<1>1. UNCHANGED link
  BY DEF Native!Finish, Native!Goto, Native!link, link
<1>2. intact' => intact
  BY DEF Native!Finish, Native!Goto
<1>7. LinkInv'
  BY <1>1, <1>2, LinkAside DEF TypeInv
<1>8. NativeTypes'
  BY DEF Native!Finish, Native!Goto, TypeInv, NativeTypes, LinkInv
<1>9. BootTypes' /\ ResetTypes'
  <2>1. pc \in NativePCs \cup { "idle" } /\ pc' \in NativePCs \cup { "idle" }
    BY DEF Native!Finish, Native!Goto, NativePCs
  <2>2. runs = "firmware" \/ (pc' = "idle" /\ answer' = answer)
    BY DEF TypeInv, ResetTypes, Native!Finish, Native!Goto, NativePCs, BootPCs
  <2> QED BY <2>1, <2>2, BootAside
<1> QED BY <1>7, <1>8, <1>9 DEF TypeInv

\* nile_mcu_native_send_cmd.
LEMMA CommandStartTypes ==
    ASSUME TypeInv, Native!CommandStart, UNCHANGED << bootOnly, resetOnly >>
    PROVE  TypeInv'
<1>1. StartSending("write", "MCU")
  BY SameLink DEF Native!CommandStart, Native!Put, Native!Return, Native!Receive
<1>2. WordOK(<< "argument", calls >>)
  BY DEF WordOK, TypeInv, NativeTypes
<1>3. /\ \/ tx' = tx
         \/ \E b \in { 0, 1 } : tx' = [ tx EXCEPT ![b] = << "argument", calls >> ]
      /\ rx' = rx /\ intact' = intact
  <2>1. idx' \in { 0, 1 }
    BY <1>1 DEF StartSending, TypeInv, LinkInv
  <2> QED BY <2>1 DEF Native!CommandStart, Native!Put, Native!Return, Native!Receive
<1>4. "MCU" \in Devices
  BY DEF Devices, TypeInv, LinkInv
<1>5. LinkInv /\ "write" \in Modes \ { "none" }
  BY DEF TypeInv, Modes
<1>6. Writes(<< "argument", calls >>)
  BY <1>2, <1>3 DEF Writes
<1>7. LinkInv'
  BY <1>1, <1>3, <1>4, <1>5, <1>6, LinkSends
<1>8. NativeTypes'
  BY DEF Native!CommandStart, Native!Put, Native!Return, Native!Receive, TypeInv,
      NativeTypes, LinkInv
<1>9. BootTypes' /\ ResetTypes'
  <2>1. pc \in NativePCs \cup { "idle" } /\ pc' \in NativePCs \cup { "idle" }
    BY DEF Native!CommandStart, Native!Put, Native!Return, Native!Receive, NativePCs
  <2>2. runs = "firmware" \/ (pc' = "idle" /\ answer' = answer)
    BY DEF TypeInv, ResetTypes, Native!CommandStart, Native!Put, Native!Return,
        Native!Receive, NativePCs, BootPCs
  <2> QED BY <2>1, <2>2, BootAside
<1> QED BY <1>7, <1>8, <1>9 DEF TypeInv

\* The argument leaves.
LEMMA ArgumentStartTypes ==
    ASSUME TypeInv, Native!ArgumentStart, UNCHANGED << bootOnly, resetOnly >>
    PROVE  TypeInv'
<1>1. StartSending("write", "MCU")
  BY SameLink DEF Native!ArgumentStart, Native!Put, Native!Receive
<1>2. WordOK(<< "block", calls >>)
  BY DEF WordOK, TypeInv, NativeTypes
<1>3. /\ \/ tx' = tx
         \/ \E b \in { 0, 1 } : tx' = [ tx EXCEPT ![b] = << "block", calls >> ]
      /\ rx' = rx /\ intact' = intact
  <2>1. idx' \in { 0, 1 }
    BY <1>1 DEF StartSending, TypeInv, LinkInv
  <2> QED BY <2>1 DEF Native!ArgumentStart, Native!Put, Native!Receive
<1>4. "MCU" \in Devices
  BY DEF Devices, TypeInv, LinkInv
<1>5. LinkInv /\ "write" \in Modes \ { "none" }
  BY DEF TypeInv, Modes
<1>6. Writes(<< "block", calls >>)
  BY <1>2, <1>3 DEF Writes
<1>7. LinkInv'
  BY <1>1, <1>3, <1>4, <1>5, <1>6, LinkSends
<1>8. NativeTypes'
  BY DEF Native!ArgumentStart, Native!Put, Native!Receive, TypeInv, NativeTypes, LinkInv
<1>9. BootTypes' /\ ResetTypes'
  <2>1. pc \in NativePCs \cup { "idle" } /\ pc' \in NativePCs \cup { "idle" }
    BY DEF Native!ArgumentStart, Native!Put, Native!Receive, NativePCs
  <2>2. runs = "firmware" \/ (pc' = "idle" /\ answer' = answer)
    BY DEF TypeInv, ResetTypes, Native!ArgumentStart, Native!Put, Native!Receive,
        NativePCs, BootPCs
  <2> QED BY <2>1, <2>2, BootAside
<1> QED BY <1>7, <1>8, <1>9 DEF TypeInv

\* The block leaves.
LEMMA BlockStartTypes ==
    ASSUME TypeInv, Native!BlockStart, UNCHANGED << bootOnly, resetOnly >>
    PROVE  TypeInv'
<1>1. StartSending("write", device)
  BY SameLink DEF Native!BlockStart, Native!Receive, Native!Goto
<1>2. WordOK(<< "block", calls >>)
  BY DEF WordOK, TypeInv, NativeTypes
<1>3. /\ \/ tx' = tx
         \/ \E b \in { 0, 1 } : tx' = [ tx EXCEPT ![b] = << "block", calls >> ]
      /\ rx' = rx /\ intact' = intact
  <2>1. idx' \in { 0, 1 }
    BY <1>1 DEF StartSending, TypeInv, LinkInv
  <2> QED BY <2>1 DEF Native!BlockStart, Native!Receive, Native!Goto
<1>4. device \in Devices
  BY DEF Devices, TypeInv, LinkInv
<1>5. LinkInv /\ "write" \in Modes \ { "none" }
  BY DEF TypeInv, Modes
<1>6. Writes(<< "block", calls >>)
  BY <1>2, <1>3 DEF Writes
<1>7. LinkInv'
  BY <1>1, <1>3, <1>4, <1>5, <1>6, LinkSends
<1>8. NativeTypes'
  BY DEF Native!BlockStart, Native!Receive, Native!Goto, TypeInv, NativeTypes, LinkInv
<1>9. BootTypes' /\ ResetTypes'
  <2>1. pc \in NativePCs \cup { "idle" } /\ pc' \in NativePCs \cup { "idle" }
    BY DEF Native!BlockStart, Native!Receive, Native!Goto, NativePCs
  <2>2. runs = "firmware" \/ (pc' = "idle" /\ answer' = answer)
    BY DEF TypeInv, ResetTypes, Native!BlockStart, Native!Receive, Native!Goto,
        NativePCs, BootPCs
  <2> QED BY <2>1, <2>2, BootAside
<1> QED BY <1>7, <1>8, <1>9 DEF TypeInv

\* A part of a command could not be sent.
LEMMA SendTimesOutTypes ==
    ASSUME TypeInv, Native!SendTimesOut, UNCHANGED << bootOnly, resetOnly >>
    PROVE  TypeInv'
<1>1. UNCHANGED link
  BY DEF Native!SendTimesOut, Native!Return, Native!link, link
<1>2. intact' => intact
  BY DEF Native!SendTimesOut, Native!Return
<1>7. LinkInv'
  BY <1>1, <1>2, LinkAside DEF TypeInv
<1>8. NativeTypes'
  BY DEF Native!SendTimesOut, Native!Return, TypeInv, NativeTypes, LinkInv
<1>9. BootTypes' /\ ResetTypes'
  <2>1. pc \in NativePCs \cup { "idle" } /\ pc' \in NativePCs \cup { "idle" }
    BY DEF Native!SendTimesOut, Native!Return, NativePCs
  <2>2. runs = "firmware" \/ (pc' = "idle" /\ answer' = answer)
    BY DEF TypeInv, ResetTypes, Native!SendTimesOut, Native!Return, NativePCs, BootPCs
  <2> QED BY <2>1, <2>2, BootAside
<1> QED BY <1>7, <1>8, <1>9 DEF TypeInv

\* nile_mcu_native_recv_cmd.
LEMMA HeaderStartTypes ==
    ASSUME TypeInv, Native!HeaderStart, UNCHANGED << bootOnly, resetOnly >>
    PROVE  TypeInv'
<1>1. StartReading("wait_read", 1)
  BY SameLink DEF Native!HeaderStart, Native!Goto
<1>2. 1 \in Int
  BY DEF TypeInv, NativeTypes, CallOK, CallShapes
<1>3. UNCHANGED << idx, device, tx, rx, intact >>
  BY DEF Native!HeaderStart, Native!Goto
<1>7. LinkInv'
  BY <1>1, <1>2, <1>3, LinkReads DEF TypeInv, Modes
<1>8. NativeTypes'
  BY DEF Native!HeaderStart, Native!Goto, TypeInv, NativeTypes, LinkInv
<1>9. BootTypes' /\ ResetTypes'
  <2>1. pc \in NativePCs \cup { "idle" } /\ pc' \in NativePCs \cup { "idle" }
    BY DEF Native!HeaderStart, Native!Goto, NativePCs
  <2>2. runs = "firmware" \/ (pc' = "idle" /\ answer' = answer)
    BY DEF TypeInv, ResetTypes, Native!HeaderStart, Native!Goto, NativePCs, BootPCs
  <2> QED BY <2>1, <2>2, BootAside
<1> QED BY <1>7, <1>8, <1>9 DEF TypeInv

\* The data of an answer are asked for.
LEMMA DataStartTypes ==
    ASSUME TypeInv, Native!DataStart, UNCHANGED << bootOnly, resetOnly >>
    PROVE  TypeInv'
<1>1. StartReading("read", room)
  BY SameLink DEF Native!DataStart, Native!Goto
<1>2. room \in Int
  BY DEF TypeInv, NativeTypes, CallOK, CallShapes
<1>3. UNCHANGED << idx, device, tx, rx, intact >>
  BY DEF Native!DataStart, Native!Goto
<1>7. LinkInv'
  BY <1>1, <1>2, <1>3, LinkReads DEF TypeInv, Modes
<1>8. NativeTypes'
  BY DEF Native!DataStart, Native!Goto, TypeInv, NativeTypes, LinkInv
<1>9. BootTypes' /\ ResetTypes'
  <2>1. pc \in NativePCs \cup { "idle" } /\ pc' \in NativePCs \cup { "idle" }
    BY DEF Native!DataStart, Native!Goto, NativePCs
  <2>2. runs = "firmware" \/ (pc' = "idle" /\ answer' = answer)
    BY DEF TypeInv, ResetTypes, Native!DataStart, Native!Goto, NativePCs, BootPCs
  <2> QED BY <2>1, <2>2, BootAside
<1> QED BY <1>7, <1>8, <1>9 DEF TypeInv

\* nile_mcu_native_recv_cmd_start.
LEMMA RequestStartTypes ==
    ASSUME TypeInv, Native!RequestStart, UNCHANGED << bootOnly, resetOnly >>
    PROVE  TypeInv'
<1>1. StartReading("wait_read", 1 + call.room)
  BY SameLink DEF Native!RequestStart, Native!Goto
<1>2. 1 + call.room \in Int
  BY CallsOK DEF TypeInv, NativeTypes, CallOK, CallShapes
<1>3. UNCHANGED << idx, device, tx, rx, intact >>
  BY DEF Native!RequestStart, Native!Goto
<1>7. LinkInv'
  BY <1>1, <1>2, <1>3, LinkReads DEF TypeInv, Modes
<1>8. NativeTypes'
  BY CallsOK DEF Native!RequestStart, Native!Goto, TypeInv, NativeTypes, LinkInv,
      CallOK, CallShapes
<1>9. BootTypes' /\ ResetTypes'
  <2>1. pc \in NativePCs \cup { "idle" } /\ pc' \in NativePCs \cup { "idle" }
    BY DEF Native!RequestStart, Native!Goto, NativePCs
  <2>2. runs = "firmware" \/ (pc' = "idle" /\ answer' = answer)
    BY DEF TypeInv, ResetTypes, Native!RequestStart, Native!Goto, NativePCs, BootPCs
  <2> QED BY <2>1, <2>2, BootAside
<1> QED BY <1>7, <1>8, <1>9 DEF TypeInv

\* Nothing could be asked for, and may be asked for again.
LEMMA RequestTimesOutTypes ==
    ASSUME TypeInv, Native!RequestTimesOut, UNCHANGED << bootOnly, resetOnly >>
    PROVE  TypeInv'
<1>1. UNCHANGED link
  BY DEF Native!RequestTimesOut, Native!Goto, Native!link, link
<1>2. intact' => intact
  BY DEF Native!RequestTimesOut, Native!Goto
<1>7. LinkInv'
  BY <1>1, <1>2, LinkAside DEF TypeInv
<1>8. NativeTypes'
  BY CallsOK DEF Native!RequestTimesOut, Native!Goto, TypeInv, NativeTypes, LinkInv,
      CallOK, CallShapes
<1>9. BootTypes' /\ ResetTypes'
  <2>1. pc \in NativePCs \cup { "idle" } /\ pc' \in NativePCs \cup { "idle" }
    BY DEF Native!RequestTimesOut, Native!Goto, NativePCs
  <2>2. runs = "firmware" \/ (pc' = "idle" /\ answer' = answer)
    BY DEF TypeInv, ResetTypes, Native!RequestTimesOut, Native!Goto, NativePCs, BootPCs
  <2> QED BY <2>1, <2>2, BootAside
<1> QED BY <1>7, <1>8, <1>9 DEF TypeInv

\* The answer has not come, and may be waited for again.
LEMMA FinishTimesOutTypes ==
    ASSUME TypeInv, Native!FinishTimesOut, UNCHANGED << bootOnly, resetOnly >>
    PROVE  TypeInv'
<1>1. UNCHANGED link
  BY DEF Native!FinishTimesOut, Native!Goto, Native!link, link
<1>2. intact' => intact
  BY DEF Native!FinishTimesOut, Native!Goto
<1>7. LinkInv'
  BY <1>1, <1>2, LinkAside DEF TypeInv
<1>8. NativeTypes'
  BY DEF Native!FinishTimesOut, Native!Goto, TypeInv, NativeTypes, LinkInv
<1>9. BootTypes' /\ ResetTypes'
  <2>1. pc \in NativePCs \cup { "idle" } /\ pc' \in NativePCs \cup { "idle" }
    BY DEF Native!FinishTimesOut, Native!Goto, NativePCs
  <2>2. runs = "firmware" \/ (pc' = "idle" /\ answer' = answer)
    BY DEF TypeInv, ResetTypes, Native!FinishTimesOut, Native!Goto, NativePCs, BootPCs
  <2> QED BY <2>1, <2>2, BootAside
<1> QED BY <1>7, <1>8, <1>9 DEF TypeInv

----------------------------------------------------------------------------
\* The smaller of two.
LEMMA MinIs ==
    ASSUME NEW a \in Nat, NEW b \in Nat
    PROVE  Native!Min({ a, b }) = IF a < b THEN a ELSE b
<1> DEFINE m == IF a < b THEN a ELSE b
<1>1. m \in { a, b } /\ \A y \in { a, b } : m <= y
  OBVIOUS
<1>2. \A x \in { a, b } : (\A y \in { a, b } : x <= y) => x = m
  OBVIOUS
<1> HIDE DEF m
<1>3. Native!Min({ a, b }) = m
  BY <1>1, <1>2 DEF Native!Min
<1> QED BY <1>3 DEF m

\* What is taken for a header is one.
LEMMA HeadersAre ==
    ASSUME NEW unit, UnitOK(unit), NEW h \in Native!Headers(unit)
    PROVE  /\ h[1] = "header" /\ h[2] \in BOOLEAN /\ h[3] \in Lengths /\ h[3] \in Nat
           /\ h[4] \in Flags /\ h[4] \in Int
<1>1. /\ h[1] = "header" /\ h[2] \in BOOLEAN /\ h[3] \in Lengths
      /\ h[4] \in Flags
  <2>1. CASE unit[1] = "header"
    <3>1. h = unit
      BY <2>1 DEF Native!Headers
    <3> QED BY <2>1, <3>1 DEF UnitOK
  <2>2. CASE unit[1] # "header"
    <3>1. PICK err \in BOOLEAN, n \in Lengths, f \in Flags :
             h = << "header", err, n, f >>
      BY <2>2 DEF Native!Headers
    <3> QED BY <3>1
  <2> QED BY <2>1, <2>2
<1> QED BY <1>1, ConstantsNat

\* What becomes of a header.
LEMMA HeaderTypes ==
    ASSUME NativeTypes, NEW h, h[2] \in BOOLEAN, h[3] \in Nat, Native!Header(h)
    PROVE  /\ room' \in Nat /\ left' \in Nat
           /\ pc' \in { "restore", "idle", "data", "skip" }
           /\ intact' \in BOOLEAN /\ (intact' => intact)
<1>1. call.room \in Nat
  BY CallsOK DEF NativeTypes, CallOK, CallShapes
<1> DEFINE n == IF h[3] < call.room THEN h[3] ELSE call.room
<1>2. Native!Min({ h[3], call.room }) = n
  BY <1>1, MinIs
<1>3. n \in Nat /\ h[3] - n \in Nat
  BY <1>1
<1> HIDE DEF n
<1>4. CASE h[2]
  BY <1>4 DEF Native!Header, Native!HeaderError, Native!Return, NativeTypes
<1>5. CASE ~h[2]
  <2>1. room' = n /\ left' = h[3] - n
    BY <1>2, <1>5 DEF Native!Header
  <2>2. pc' \in { "restore", "idle", "data", "skip" }
    BY <1>2, <1>5 DEF Native!Header, Native!Return
  <2>3. intact' = intact
    BY <1>5 DEF Native!Header
  <2> QED BY <1>3, <2>1, <2>2, <2>3 DEF NativeTypes
<1> QED BY <1>4, <1>5

\* get_fattime turns to the MCU, whatever was going on.
LEMMA ControlTypes ==
    ASSUME TypeInv, Native!Control, UNCHANGED << bootOnly, resetOnly >>
    PROVE  TypeInv'
<1>1. \/ ~Busy /\ idx' = 0 /\ device' = "MCU"
      \/ UNCHANGED << idx, device >>
  BY SameLink DEF Native!Control, Native!Put, Native!Goto, SetControl
<1>2. idx' \in { 0, 1 } /\ device' \in Devices /\ (Busy => idx' = idx)
  BY <1>1 DEF TypeInv, LinkInv, Devices
<1>3. WordOK(Native!Command(call, calls))
  BY DEF WordOK, Native!Command, TypeInv, NativeTypes
<1>4. tx' = [ tx EXCEPT ![idx'] = Native!Command(call, calls) ]
  BY DEF Native!Control, Native!Put, Native!Goto
<1>5. DOMAIN tx' = { 0, 1 } /\ \A b \in { 0, 1 } : WordOK(tx'[b])
  <2> HIDE DEF WordOK
  <2> QED BY <1>2, <1>3, <1>4 DEF TypeInv, LinkInv
<1>6. UNCHANGED << rx, flight, intact >>
  BY DEF Native!Control, Native!Put, Native!Goto
<1>7. LinkInv'
  BY <1>2, <1>5, <1>6 DEF TypeInv, LinkInv, Busy, WordOK, UnitOK
<1>8. NativeTypes'
  BY DEF Native!Control, Native!Put, Native!Goto, TypeInv, NativeTypes, LinkInv
<1>9. BootTypes' /\ ResetTypes'
  <2>1. pc \in NativePCs \cup { "idle" } /\ pc' \in NativePCs \cup { "idle" }
    BY DEF Native!Control, Native!Put, Native!Goto, NativePCs
  <2>2. runs = "firmware" \/ (pc' = "idle" /\ answer' = answer)
    BY DEF TypeInv, ResetTypes, Native!Control, Native!Put, Native!Goto, NativePCs,
        BootPCs
  <2> QED BY <2>1, <2>2, BootAside
<1> QED BY <1>7, <1>8, <1>9 DEF TypeInv

\* And restores what it found.
LEMMA RestoreTypes ==
    ASSUME TypeInv, Native!Restore, UNCHANGED << bootOnly, resetOnly >>
    PROVE  TypeInv'
<1>1. \/ ~Busy /\ idx' = saved[1] /\ device' = saved[2]
      \/ UNCHANGED << idx, device >>
  BY SameLink DEF Native!Restore, Native!Goto
<1>2. idx' \in { 0, 1 } /\ device' \in Devices /\ (Busy => idx' = idx)
  BY <1>1 DEF TypeInv, LinkInv, NativeTypes
<1>3. UNCHANGED << tx, rx, flight, intact >>
  BY DEF Native!Restore, Native!Goto
<1>7. LinkInv'
  BY <1>2, <1>3 DEF TypeInv, LinkInv, Busy, WordOK, UnitOK
<1>8. NativeTypes'
  <2>1. saved'[1] \in { 0, 1 } /\ saved'[2] \in Devices
    BY DEF Native!Restore, Native!Goto, Devices
  <2> QED BY <2>1 DEF Native!Restore, Native!Goto, TypeInv, NativeTypes
<1>9. BootTypes' /\ ResetTypes'
  <2>1. pc \in NativePCs \cup { "idle" } /\ pc' \in NativePCs \cup { "idle" }
    BY DEF Native!Restore, Native!Goto, NativePCs
  <2>2. runs = "firmware" \/ (pc' = "idle" /\ answer' = answer)
    BY DEF TypeInv, ResetTypes, Native!Restore, Native!Goto, NativePCs, BootPCs
  <2> QED BY <2>1, <2>2, BootAside
<1> QED BY <1>7, <1>8, <1>9 DEF TypeInv

\* The header has come.
LEMMA HeaderArrivesTypes ==
    ASSUME TypeInv, Native!HeaderArrives, UNCHANGED << bootOnly, resetOnly >>
    PROVE  TypeInv'
<1>1. ~Busy /\ idx' = 1 - idx
  BY SameLink DEF Native!HeaderArrives, Flip
<1>2. idx' \in { 0, 1 } /\ device' \in Devices
  BY <1>1 DEF TypeInv, LinkInv, Native!HeaderArrives
<1>3. UNCHANGED << tx, rx, flight >>
  BY DEF Native!HeaderArrives
<1>4. intact /\ UnitOK(rx[idx'][1])
  BY <1>2 DEF Native!HeaderArrives, TypeInv, LinkInv, NativeTypes
<1>5. PICK h \in Native!Headers(rx[idx'][1]) : Native!Header(h)
  BY DEF Native!HeaderArrives
<1>6. /\ room' \in Nat /\ left' \in Nat
      /\ pc' \in { "restore", "idle", "data", "skip" }
      /\ intact' \in BOOLEAN /\ (intact' => intact)
  <2>1. h[2] \in BOOLEAN /\ h[3] \in Nat
    BY <1>4, HeadersAre
  <2> QED BY <1>5, <2>1, HeaderTypes DEF TypeInv
<1>7. LinkInv'
  BY <1>1, <1>2, <1>3, <1>6, LinkFlips DEF TypeInv
<1>8. NativeTypes'
  <2>1. UNCHANGED << calls, call, buffer, answer, saved, firm >>
    BY DEF Native!HeaderArrives
  <2>2. pc = "header_wait"
    BY DEF Native!HeaderArrives
  <2>3. answer.phase = "none"
    BY <2>2 DEF TypeInv, NativeTypes
  <2> QED BY <1>6, <2>1, <2>2, <2>3 DEF TypeInv, NativeTypes
<1>9. BootTypes' /\ ResetTypes'
  <2>1. pc \in NativePCs \cup { "idle" } /\ pc' \in NativePCs \cup { "idle" }
    BY <1>6 DEF Native!HeaderArrives, NativePCs
  <2>2. runs = "firmware" \/ (pc' = "idle" /\ answer' = answer)
    BY DEF TypeInv, ResetTypes, Native!HeaderArrives, NativePCs, BootPCs
  <2> QED BY <2>1, <2>2, BootAside
<1> QED BY <1>7, <1>8, <1>9 DEF TypeInv

\* The data have come.
LEMMA DataArrivesTypes ==
    ASSUME TypeInv, Native!DataArrives, UNCHANGED << bootOnly, resetOnly >>
    PROVE  TypeInv'
<1>1. ~Busy /\ idx' = 1 - idx
  BY SameLink DEF Native!DataArrives, Native!Arrived, Native!Return, Native!Units, Flip
<1>2. idx' \in { 0, 1 } /\ device' \in Devices
  BY <1>1 DEF TypeInv, LinkInv, Native!DataArrives, Native!Arrived, Native!Return,
      Native!Units
<1>3. UNCHANGED << tx, rx, flight >> /\ (intact' => intact)
  BY DEF Native!DataArrives, Native!Arrived, Native!Return, Native!Units
<1>7. LinkInv'
  BY <1>1, <1>2, <1>3, LinkFlips DEF TypeInv
<1>8. NativeTypes'
  BY DEF Native!DataArrives, Native!Arrived, Native!Return, Native!Units, TypeInv,
      NativeTypes, LinkInv
<1>9. BootTypes' /\ ResetTypes'
  <2>1. pc \in NativePCs \cup { "idle" } /\ pc' \in NativePCs \cup { "idle" }
    BY DEF Native!DataArrives, Native!Arrived, Native!Return, Native!Units, NativePCs
  <2>2. runs = "firmware" \/ (pc' = "idle" /\ answer' = answer)
    BY DEF TypeInv, ResetTypes, Native!DataArrives, Native!Arrived, Native!Return,
        Native!Units, NativePCs, BootPCs
  <2> QED BY <2>1, <2>2, BootAside
<1> QED BY <1>7, <1>8, <1>9 DEF TypeInv

\* What the caller has no room for is skipped.
LEMMA SkipTypes ==
    ASSUME TypeInv, Native!Skip, UNCHANGED << bootOnly, resetOnly >>
    PROVE  TypeInv'
<1>1. StartReading("read", left) \/ flight' = flight
  BY SameLink DEF Native!Skip, Native!Return
<1>2. left \in Int
  BY DEF TypeInv, NativeTypes
<1>3. UNCHANGED << idx, device, tx, rx >>
  BY DEF Native!Skip, Native!Return
<1>4. (intact' => intact) /\ intact' \in BOOLEAN
  <2>1. Native!Busy = Busy
    BY SameLink
  <2> QED BY <2>1, Zenon DEF Native!Skip, Native!Return
<1>5. ASSUME flight' = flight PROVE LinkInv'
  <2>1. UNCHANGED link
    BY <1>3, <1>5 DEF link
  <2> QED BY <2>1, <1>4, LinkAside DEF TypeInv
<1>6. ASSUME StartReading("read", left) PROVE LinkInv'
  <2>1. Length(left) \in 1 .. Window /\ Window \in Nat
    BY <1>2, LengthIs, ConstantsNat
  <2>2. flight' \in Flights /\ flight'.n > 0 /\ ~flight'.stop /\ flight'.buf = 1 - idx'
    BY <1>3, <1>6, <2>1 DEF TypeInv, LinkInv, StartReading, Flights, Modes
  <2>3. Busy'
    BY <1>6 DEF StartReading, Busy
  <2> QED BY <1>3, <1>4, <2>2, <2>3 DEF TypeInv, LinkInv, UnitOK, WordOK
<1>7. LinkInv'
  BY <1>1, <1>5, <1>6
<1>8. NativeTypes'
  <2>1. pc = "skip" /\ pc' \in { "restore", "idle" }
    BY DEF Native!Skip, Native!Return
  <2>2. answer.phase = "none"
    BY <2>1 DEF TypeInv, NativeTypes
  <2>3. UNCHANGED << calls, call, room, left, buffer, answer, saved, firm >>
    BY DEF Native!Skip
  <2> QED BY <1>4, <2>1, <2>2, <2>3 DEF TypeInv, NativeTypes
<1>9. BootTypes' /\ ResetTypes'
  <2>1. pc \in NativePCs \cup { "idle" } /\ pc' \in NativePCs \cup { "idle" }
    BY DEF Native!Skip, Native!Return, NativePCs
  <2>2. runs = "firmware" \/ (pc' = "idle" /\ answer' = answer)
    BY DEF TypeInv, ResetTypes, Native!Skip, Native!Return, NativePCs, BootPCs
  <2> QED BY <2>1, <2>2, BootAside
<1> QED BY <1>7, <1>8, <1>9 DEF TypeInv

\* A wait has come to its end before what it was for.
LEMMA ReceiveTimesOutTypes ==
    ASSUME TypeInv, Native!ReceiveTimesOut, UNCHANGED << bootOnly, resetOnly >>
    PROVE  TypeInv'
<1>1. Busy /\ Stopping /\ UNCHANGED << idx, device, tx, rx >> /\ ~intact'
  BY SameLink DEF Native!ReceiveTimesOut
<1>2. flight' \in Flights /\ flight'.mode = flight.mode /\ flight'.n = flight.n
      /\ flight'.buf = flight.buf
  BY <1>1 DEF Stopping, TypeInv, LinkInv, Flights
<1>7. LinkInv'
  BY <1>1, <1>2 DEF TypeInv, LinkInv, Busy, WordOK
<1>8. NativeTypes'
  <2>1. answer.phase = "none"
    BY DEF Native!ReceiveTimesOut, TypeInv, NativeTypes
  <2>2. pc' \in { "header_abort", "data_abort" } /\ intact' = FALSE
    BY DEF Native!ReceiveTimesOut
  <2>3. UNCHANGED << calls, call, room, left, buffer, answer, saved, firm >>
    BY DEF Native!ReceiveTimesOut
  <2> QED BY <2>1, <2>2, <2>3 DEF TypeInv, NativeTypes
<1>9. BootTypes' /\ ResetTypes'
  <2>1. pc \in NativePCs \cup { "idle" } /\ pc' \in NativePCs \cup { "idle" }
    BY DEF Native!ReceiveTimesOut, NativePCs
  <2>2. runs = "firmware" \/ (pc' = "idle" /\ answer' = answer)
    BY DEF TypeInv, ResetTypes, Native!ReceiveTimesOut, NativePCs, BootPCs
  <2> QED BY <2>1, <2>2, BootAside
<1> QED BY <1>7, <1>8, <1>9 DEF TypeInv

\* What was in flight is cut off, or was over in time.
LEMMA ReceiveAbortedTypes ==
    ASSUME TypeInv, Native!ReceiveAborted, UNCHANGED << bootOnly, resetOnly >>
    PROVE  TypeInv'
<1>1. UNCHANGED link
  BY DEF Native!ReceiveAborted, Native!link, link
<1>3. UnitOK(Native!Filler)
  BY DEF UnitOK, Native!Filler
<1>4. /\ room' \in Nat /\ left' \in Nat /\ Len(buffer') \in Nat
      /\ pc' \in { "restore", "idle", "data", "skip" }
      /\ intact' \in BOOLEAN /\ (intact' => intact)
  <2>1. CASE /\ Native!Busy /\ Native!Return(<< "spi" >>)
             /\ UNCHANGED << room, left, buffer, intact >>
    BY <2>1 DEF Native!Return, TypeInv, NativeTypes
  <2>2. CASE /\ \E h \in Native!Headers(Native!Filler) : Native!Header(h)
             /\ UNCHANGED buffer
    <3>1. PICK h \in Native!Headers(Native!Filler) : Native!Header(h)
      BY <2>2
    <3>2. h[2] \in BOOLEAN /\ h[3] \in Nat
      BY <1>3, HeadersAre
    <3>3. /\ room' \in Nat /\ left' \in Nat
          /\ pc' \in { "restore", "idle", "data", "skip" }
          /\ intact' \in BOOLEAN /\ (intact' => intact)
      BY <3>1, <3>2, HeaderTypes DEF TypeInv
    <3> QED BY <2>2, <3>3 DEF TypeInv, NativeTypes
  <2>3. CASE /\ Native!Arrived(Native!Units(<< >>, room))
             /\ UNCHANGED << room, left, intact >>
    BY <2>3 DEF Native!Arrived, Native!Return, Native!Units, TypeInv, NativeTypes
  <2> QED BY <2>1, <2>2, <2>3 DEF Native!ReceiveAborted
<1>2. LinkInv'
  BY <1>1, <1>4, LinkAside DEF TypeInv
<1>5. pc \in { "header_abort", "data_abort" } /\ answer.phase = "none"
  BY DEF Native!ReceiveAborted, TypeInv, NativeTypes
<1>6. UNCHANGED << calls, call, answer, saved, firm >>
  BY DEF Native!ReceiveAborted
<1>7. NativeTypes'
  BY <1>4, <1>5, <1>6 DEF TypeInv, NativeTypes
<1>8. BootTypes' /\ ResetTypes'
  <2>1. pc \in NativePCs /\ pc' \in NativePCs \cup { "idle" }
    BY <1>4, <1>5 DEF NativePCs
  <2>2. runs = "firmware"
    BY <1>5 DEF TypeInv, ResetTypes, BootPCs
  <2> QED BY <2>1, <2>2, BootAside
<1> QED BY <1>2, <1>7, <1>8 DEF TypeInv

\* nile_mcu_native_recv_cmd_finish.
LEMMA FinishArrivesTypes ==
    ASSUME TypeInv, Native!FinishArrives, UNCHANGED << bootOnly, resetOnly >>
    PROVE  TypeInv'
<1>1. ~Busy /\ idx' = 1 - idx /\ UNCHANGED << device, tx, rx, flight, intact >>
  BY SameLink DEF Native!FinishArrives, Flip
<1>2. idx' \in { 0, 1 } /\ device' \in Devices
  BY <1>1 DEF TypeInv, LinkInv
<1>3. LinkInv'
  BY <1>1, <1>2, LinkFlips DEF TypeInv
<1>4. pc = "finish" /\ pc' = "idle"
  BY DEF Native!FinishArrives, Native!Goto
<1>5. intact /\ UnitOK(rx[idx'][1])
  BY <1>2, <1>4 DEF TypeInv, LinkInv, NativeTypes
<1>6. room' \in Nat /\ Len(buffer') \in Nat
  <2>1. PICK h \in Native!Headers(rx[idx'][1]) :
          LET n == Native!Min({ h[3], answer.room }) IN
          IF h[2] THEN UNCHANGED << room, buffer >>
          ELSE room' = n /\ buffer' = Native!Units(Native!After(rx[idx'], 1), n)
    BY DEF Native!FinishArrives
  <2>2. h[3] \in Nat /\ answer.room \in Nat
    BY <1>5, HeadersAre DEF TypeInv, NativeTypes
  <2>3. Native!Min({ h[3], answer.room }) \in Nat
    BY <2>2, MinIs
  <2> QED BY <2>1, <2>3 DEF Native!Units, TypeInv, NativeTypes
<1>7. NativeTypes'
  BY <1>4, <1>6 DEF Native!FinishArrives, Native!NoAnswer, TypeInv, NativeTypes
<1>8. BootTypes' /\ ResetTypes'
  <2>1. pc \in NativePCs /\ pc' \in NativePCs \cup { "idle" }
    BY <1>4 DEF NativePCs
  <2>2. runs = "firmware"
    BY <1>4 DEF TypeInv, ResetTypes, BootPCs
  <2> QED BY <2>1, <2>2, BootAside
<1> QED BY <1>3, <1>7, <1>8 DEF TypeInv

\* What the hardware does leaves the driver where it is.
LEMMA HardwareAside ==
    ASSUME TypeInv, UNCHANGED << bootOnly, resetOnly, pc, intact, answer >>,
           Busy' => Busy
    PROVE  BootTypes' /\ ResetTypes'
BY DEF TypeInv, BootTypes, ResetTypes, bootOnly, resetOnly, ScriptOK

\* The program turns to the TF card.
LEMMA OthersTypes ==
    ASSUME TypeInv, Native!Others, UNCHANGED << bootOnly, resetOnly >>
    PROVE  TypeInv'
<1>1. /\ ~Busy /\ pc = "idle" /\ device' = "TF"
      /\ UNCHANGED << idx, tx, rx, pc, calls, call, room, left, buffer, result, answer,
                      saved, intact, firm >>
  BY SameLink DEF Native!Others, Native!nativeVars
<1>2. flight' = flight \/
        flight' = [ mode |-> "read", dev |-> "TF", buf |-> 1 - idx, n |-> 1,
                    stop |-> FALSE ]
  BY DEF Native!Others, Native!NoFlight
<1>3. flight' \in Flights /\ ~flight'.stop
  <2>1. CASE flight' = flight
    BY <2>1, <1>1 DEF TypeInv, LinkInv, NoFlight
  <2>2. CASE flight' = [ mode |-> "read", dev |-> "TF", buf |-> 1 - idx, n |-> 1,
                         stop |-> FALSE ]
    <3>1. 1 \in 0 .. Window /\ 1 - idx \in { 0, 1 }
      BY ConstantsNat DEF TypeInv, LinkInv
    <3> QED BY <2>2, <3>1 DEF Flights, Modes, Devices
  <2> QED BY <1>2, <2>1, <2>2
<1>4. /\ Busy' => flight'.n > 0 /\ flight'.buf = 1 - idx
      /\ ~Busy' => flight' = NoFlight
  <2>1. CASE flight' = flight
    BY <2>1, <1>1 DEF TypeInv, LinkInv, Busy
  <2>2. CASE flight' = [ mode |-> "read", dev |-> "TF", buf |-> 1 - idx, n |-> 1,
                         stop |-> FALSE ]
    BY <2>2 DEF Busy
  <2> QED BY <1>2, <2>1, <2>2
<1>5. LinkInv'
  BY <1>1, <1>3, <1>4 DEF TypeInv, LinkInv, Devices, WordOK, UnitOK
<1>6. NativeTypes'
  BY <1>1 DEF TypeInv, NativeTypes
<1>7. BootTypes' /\ ResetTypes'
  BY <1>1, BootAside
<1> QED BY <1>5, <1>6, <1>7 DEF TypeInv

\* The TF card's transfer is over.
LEMMA OtherTransferEndsTypes ==
    ASSUME TypeInv, Native!OtherTransferEnds, UNCHANGED << bootOnly, resetOnly >>
    PROVE  TypeInv'
<1>1. /\ Busy /\ Ends(<< Filler >>)
      /\ UNCHANGED << pc, calls, call, room, left, buffer, result, answer, saved,
                      intact, firm >>
  BY SameLink DEF Native!OtherTransferEnds, Native!nativeVars
<1>2. UnitOK(<< Filler >>[1])
  BY DEF UnitOK, Filler
<1>3. LinkInv' /\ ~Busy'
  BY <1>1, <1>2, LinkEnds DEF TypeInv
<1>4. NativeTypes'
  BY <1>1 DEF TypeInv, NativeTypes
<1>5. BootTypes' /\ ResetTypes'
  BY <1>1, <1>3, HardwareAside
<1> QED BY <1>3, <1>4, <1>5 DEF TypeInv

\* An answer is something the firmware can say.
LEMMA AnswerSaid ==
    ASSUME NEW k \in Nat, NEW err \in BOOLEAN, NEW n \in Lengths,
           NEW f \in Flags
    PROVE  /\ Native!Answer(k, err, n, f) \in Seq(Said)
           /\ Native!Own(k, n) \in Seq(Said)
           /\ Len(Native!Own(k, n)) = n /\ Len(Native!Answer(k, err, n, f)) = n + 1
           /\ Native!Answer(k, err, n, f)[1] = << "header", err, n, f >>
           /\ \A i \in 1 .. n : /\ Native!Own(k, n)[i] = << "data", k, i >>
                                /\ Native!Answer(k, err, n, f)[i + 1] = << "data", k, i >>
<1>1. n \in Nat
  BY ConstantsNat
<1>2. \A i \in 1 .. n : << "data", k, i >> \in Said
  BY DEF Said
<1>3. /\ Native!Own(k, n) \in Seq(Said) /\ Len(Native!Own(k, n)) = n
      /\ \A i \in 1 .. n : Native!Own(k, n)[i] = << "data", k, i >>
  BY <1>1, <1>2 DEF Native!Own
<1>4. << "header", err, n, f >> \in Said
  BY DEF Said
<1> DEFINE h == << << "header", err, n, f >> >>
<1>5. h \in Seq(Said) /\ Len(h) = 1 /\ h[1] = << "header", err, n, f >>
  BY <1>4
<1> HIDE DEF h
<1>6. Native!Answer(k, err, n, f) = h \o Native!Own(k, n)
  BY DEF Native!Answer, h
<1>7. /\ h \o Native!Own(k, n) \in Seq(Said) /\ Len(h \o Native!Own(k, n)) = 1 + n
      /\ \A i \in 1 .. 1 : (h \o Native!Own(k, n))[i] = h[i]
      /\ \A i \in 1 .. n : (h \o Native!Own(k, n))[1 + i] = Native!Own(k, n)[i]
  <2> DEFINE t == Native!Own(k, n)
  <2>1. h \in Seq(Said) /\ t \in Seq(Said) /\ Len(h) = 1 /\ Len(t) = n
    BY <1>3, <1>5
  <2> HIDE DEF t
  <2>2. /\ h \o t \in Seq(Said) /\ Len(h \o t) = 1 + n
        /\ \A i \in 1 .. 1 + n : (h \o t)[i] = IF i <= 1 THEN h[i] ELSE t[i - 1]
    <3> HIDE DEF Said
    <3>1. /\ h \o t \in Seq(Said) /\ Len(h \o t) = Len(h) + Len(t)
          /\ \A i \in 1 .. Len(h) + Len(t) :
                (h \o t)[i] = IF i <= Len(h) THEN h[i] ELSE t[i - Len(h)]
      BY <2>1, ConcatProperties
    <3> QED BY <2>1, <3>1
  <2>3. /\ h \o t \in Seq(Said) /\ Len(h \o t) = 1 + n
        /\ \A i \in 1 .. 1 : (h \o t)[i] = h[i]
        /\ \A i \in 1 .. n : (h \o t)[1 + i] = t[i]
    BY <1>1, <2>1, <2>2
  <2> QED BY <2>3 DEF t
<1> HIDE DEF Said
<1> QED BY <1>1, <1>3, <1>5, <1>6, <1>7

\* So is what is left of it.
LEMMA AfterSaid ==
    ASSUME NEW s \in Seq(Said), NEW n \in Nat
    PROVE  After(s, n) \in Seq(Said)
<1>1. Len(s) \in Nat /\ \A i \in n + 1 .. Len(s) : s[i] \in Said
  BY LenProperties, ElementOfSeq
<1>2. SubSeq(s, n + 1, Len(s)) \in Seq(Said)
  BY <1>1, SubSeqProperties
<1> QED BY <1>2 DEF After

\* What the firmware says can be taken for what it is.
LEMMA SaidOK ==
    ASSUME NEW s \in Seq(Said), NEW n \in Nat \ { 0 }
    PROVE  UnitOK(Units(s, n)[1])
<1>1. \A u \in Said : UnitOK(u)
  BY DEF Said, UnitOK
<1>2. UnitOK(Filler)
  BY DEF UnitOK, Filler
<1>3. Units(s, n)[1] = IF 1 <= Len(s) THEN s[1] ELSE Filler
  BY DEF Units
<1>4. Len(s) \in Nat
  BY LenProperties
<1>5. 1 <= Len(s) => s[1] \in Said
  BY <1>4, ElementOfSeq
<1> QED BY <1>1, <1>2, <1>3, <1>5

\* The firmware answers.
LEMMA FirmwareAnswersTypes ==
    ASSUME TypeInv, Native!FirmwareAnswers, UNCHANGED << bootOnly, resetOnly >>
    PROVE  TypeInv'
<1>1. /\ UNCHANGED link
      /\ UNCHANGED << pc, calls, call, room, left, buffer, result, answer, saved,
                      intact >>
  BY DEF Native!FirmwareAnswers, Native!link, link
<1>2. LinkInv'
  BY <1>1, LinkAside DEF TypeInv
<1>3. firm' \in Firms
  <2>1. PICK n \in Lengths, err \in BOOLEAN, f \in Flags :
          firm' = [ firm EXCEPT !.work = FALSE, !.how = "sync", !.most = 0,
                                !.len = n, !.flags = f,
                                !.out = @ \o Native!Answer(firm.cmd, err, n, f) ]
    BY DEF Native!FirmwareAnswers
  <2>2. firm \in Firms
    BY DEF TypeInv, NativeTypes
  <2>3. firm.cmd \in Nat /\ firm.out \in Seq(Said)
    BY <2>2 DEF Firms
  <2>4. firm.out \o Native!Answer(firm.cmd, err, n, f) \in Seq(Said)
    BY <2>3, AnswerSaid, ConcatProperties
  <2>5. n \in Nat /\ f \in Int
    BY ConstantsNat
  <2> DEFINE out == firm.out \o Native!Answer(firm.cmd, err, n, f)
  <2>6. firm' = [ firm EXCEPT !.work = FALSE, !.how = "sync", !.most = 0,
                              !.len = n, !.flags = f, !.out = out ]
    BY <2>1
  <2> HIDE DEF out
  <2>7. out \in Seq(Said)
    BY <2>4 DEF out
  <2> QED BY <2>2, <2>5, <2>6, <2>7 DEF Firms
<1>4. NativeTypes'
  BY <1>1, <1>3 DEF TypeInv, NativeTypes
<1>5. Busy' => Busy
  BY <1>1 DEF Busy, link
<1>6. BootTypes' /\ ResetTypes'
  BY <1>1, <1>5, HardwareAside
<1> QED BY <1>2, <1>4, <1>6 DEF TypeInv

\* What the firmware is after it heard a word.
LEMMA HearsTypes ==
    ASSUME firm \in Firms, NEW word, WordOK(word), Native!Hears(word)
    PROVE  firm' \in Firms
<1>1. CASE firm' = firm
  BY <1>1
<1>2. CASE /\ firm.need # << >>
           /\ firm' = [ firm EXCEPT !.need = Tail(@),
                                    !.own = @ /\ word[1] = Head(firm.need)
                                              /\ word[2] = firm.cmd,
                                    !.work = Tail(firm.need) = << >> ]
  <2>1. firm.need \in Seq({ "argument", "block" }) /\ firm.own \in BOOLEAN
    BY DEF Firms
  <2>2. Tail(firm.need) \in Seq({ "argument", "block" })
    BY <1>2, <2>1, HeadTailProperties
  <2>3. /\ (firm.own /\ word[1] = Head(firm.need) /\ word[2] = firm.cmd) \in BOOLEAN
        /\ (Tail(firm.need) = << >>) \in BOOLEAN
    BY <2>1
  <2> DEFINE own == firm.own /\ word[1] = Head(firm.need) /\ word[2] = firm.cmd
             work == Tail(firm.need) = << >>
  <2>4. firm' = [ firm EXCEPT !.need = Tail(@), !.own = own, !.work = work ]
    BY <1>2
  <2>5. own \in BOOLEAN /\ work \in BOOLEAN
    BY <2>3
  <2> HIDE DEF own, work
  <2> QED BY <2>2, <2>4, <2>5 DEF Firms
<1>3. CASE word[1] = "cmd" /\ Native!HearsCommand(word[2], word[3])
  <2> DEFINE k == word[2]
             c == word[3]
             parts == Native!Parts(c)
             work == parts = << >> /\ c.how # "mode"
  <2>1. k \in Nat /\ c \in CallShapes
    BY <1>3, CallsOK DEF WordOK, CallOK
  <2>2. parts \in Seq({ "argument", "block" })
    <3>1. << "argument" >> \in Seq({ "argument", "block" })
      OBVIOUS
    <3>2. << "block" >> \in Seq({ "argument", "block" })
      OBVIOUS
    <3>3. << >> \in Seq({ "argument", "block" })
      OBVIOUS
    <3> QED BY <3>1, <3>2, <3>3, ConcatProperties DEF Native!Parts
  <2>3. c.how \in { "sync", "start", "mode", "fat" } /\ c.room \in Nat
    BY <2>1 DEF CallShapes
  <2>4. PICK awake \in BOOLEAN :
          firm' = [ firm EXCEPT !.awake = awake, !.cmd = k, !.how = c.how,
                                !.need = parts, !.own = TRUE, !.work = work,
                                !.most = c.room, !.len = 0 ]
    BY <1>3 DEF Native!HearsCommand
  <2>5. work \in BOOLEAN
    OBVIOUS
  <2> HIDE DEF k, c, parts, work
  <2> QED BY <2>1, <2>2, <2>3, <2>4, <2>5 DEF Firms
<1> QED BY <1>1, <1>2, <1>3 DEF Native!Hears

\* A transfer of the firmware's is over.
LEMMA TransferEndsTypes ==
    ASSUME TypeInv, Native!TransferEnds, UNCHANGED << bootOnly, resetOnly >>
    PROVE  TypeInv'
<1>1. /\ Busy /\ flight \in Flights /\ flight.buf \in { 0, 1 }
      /\ flight.n \in Nat \ { 0 }
      /\ UNCHANGED << pc, calls, call, room, left, buffer, result, answer, saved,
                      intact >>
  <2>1. Busy
    BY DEF Native!TransferEnds, Busy
  <2> QED BY <2>1, ConstantsNat DEF Native!TransferEnds, TypeInv, LinkInv, Flights
<1>2. firm \in Firms /\ firm.out \in Seq(Said)
  BY DEF TypeInv, NativeTypes, Firms
<1>3. CASE Native!Hears(tx[flight.buf]) /\ Native!Ends(rx[flight.buf])
  <2>1. WordOK(tx[flight.buf]) /\ (intact => UnitOK(rx[flight.buf][1]))
    BY <1>1 DEF TypeInv, LinkInv
  <2>2. firm' \in Firms
    BY <1>2, <1>3, <2>1, HearsTypes
  <2>3. Ends(rx[flight.buf])
    BY <1>3, SameLink
  <2>4. LinkInv' /\ ~Busy'
    BY <1>1, <2>1, <2>3, LinkEnds DEF TypeInv
  <2>5. NativeTypes'
    BY <1>1, <2>2 DEF TypeInv, NativeTypes
  <2> QED BY <1>1, <2>4, <2>5, HardwareAside DEF TypeInv
<1>4. CASE /\ Native!Ends(Native!Units(firm.out, flight.n))
           /\ firm' = [ firm EXCEPT !.out = Native!After(@, flight.n) ]
  <2>1. Ends(Units(firm.out, flight.n)) /\ UnitOK(Units(firm.out, flight.n)[1])
    BY <1>1, <1>2, <1>4, SameLink, SaidOK
  <2>2. LinkInv' /\ ~Busy'
    BY <1>1, <2>1, LinkEnds DEF TypeInv
  <2>3. firm' = [ firm EXCEPT !.out = After(firm.out, flight.n) ]
    BY <1>4, SameLink
  <2>4. firm' \in Firms
    BY <1>1, <1>2, <2>3, AfterSaid DEF Firms
  <2>5. NativeTypes'
    BY <1>1, <2>4 DEF TypeInv, NativeTypes
  <2> QED BY <1>1, <2>2, <2>5, HardwareAside DEF TypeInv
<1> QED BY <1>3, <1>4 DEF Native!TransferEnds

\* A transfer of the firmware's has been cut off.
LEMMA TransferStopsTypes ==
    ASSUME TypeInv, Native!TransferStops, UNCHANGED << bootOnly, resetOnly >>
    PROVE  TypeInv'
<1>1. /\ flight.stop /\ ~intact
      /\ UNCHANGED << pc, calls, call, room, left, buffer, result, answer, saved,
                      intact >>
  BY DEF Native!TransferStops, TypeInv, LinkInv
<1>2. Busy
  BY <1>1 DEF TypeInv, LinkInv, NoFlight
<1>3. PICK n \in 0 .. flight.n - 1 :
        /\ \E r : Native!Ends(r)
        /\ firm' = firm \/ firm' = [ firm EXCEPT !.out = Native!After(@, n) ]
  BY DEF Native!TransferStops
<1>4. LinkInv' /\ ~Busy'
  BY <1>1, <1>2, <1>3, SameLink, LinkEnds DEF TypeInv
<1>5. firm' \in Firms
  <2>1. firm \in Firms /\ firm.out \in Seq(Said) /\ n \in Nat
    BY DEF TypeInv, NativeTypes, Firms, LinkInv, Flights
  <2>2. firm' = firm \/ firm' = [ firm EXCEPT !.out = After(firm.out, n) ]
    BY <1>3, SameLink
  <2> QED BY <2>1, <2>2, AfterSaid DEF Firms
<1>6. NativeTypes'
  BY <1>1, <1>5 DEF TypeInv, NativeTypes
<1> QED BY <1>1, <1>4, <1>6, HardwareAside DEF TypeInv

----------------------------------------------------------------------------
(***************************************************************************)
(* Types: the calls of the boot loader.                                    *)
(***************************************************************************)
\* What a call of the boot loader does leaves the firmware's calls where they are.
LEMMA NativeAside ==
    ASSUME TypeInv, pc \in BootPCs, pc' \in BootPCs \cup { "idle" },
           UNCHANGED << nativeOnly, resetOnly, calls >>,
           intact' \in BOOLEAN
    PROVE  NativeTypes' /\ ResetTypes'
<1>1. runs = "loader" /\ answer.phase = "none"
  BY DEF TypeInv, ResetTypes, BootPCs, NativePCs
<1>2. NativeTypes'
  BY <1>1 DEF TypeInv, NativeTypes, nativeOnly, BootPCs
<1>3. ResetTypes'
  BY <1>1 DEF TypeInv, ResetTypes, resetOnly, nativeOnly, BootPCs
<1> QED BY <1>2, <1>3

\* The step that is next, and what is left after it.
LEMMA HeadIs ==
    ASSUME TypeInv, pc \in BootPCs
    PROVE  /\ todo \in Seq(Steps) /\ todo # << >> /\ Len(todo) \in Nat /\ Len(todo) > 0
           /\ Head(todo) = todo[1] /\ ScriptOK(todo)
           /\ Head(todo).what = "receive" => Head(todo).v \in Nat
           /\ Head(todo).what # "receive" => WordOK(Head(todo).v)
<1>1. todo \in Seq(Steps) /\ todo # << >> /\ ScriptOK(todo)
  BY DEF TypeInv, BootTypes
<1>2. Len(todo) \in Nat /\ Len(todo) > 0 /\ Head(todo) = todo[1]
  BY <1>1, EmptySeq, LenProperties
<1>3. 1 \in 1 .. Len(todo)
  BY <1>2
<1> QED BY <1>1, <1>2, <1>3 DEF ScriptOK, WordOK

\* A step is done, and the next one follows.
LEMMA ProceedTypes ==
    ASSUME TypeInv, pc \in BootPCs, Boot!Proceed, intact' = intact,
           retries' \in 0 .. RetryMod - 1, DOMAIN loader' = LoaderFields
    PROVE  BootTypes' /\ pc' \in BootPCs \cup { "idle" }
<1>1. /\ todo \in Seq(Steps) /\ todo # << >> /\ ScriptOK(todo)
      /\ Len(todo) \in Nat /\ Len(todo) > 0
  BY HeadIs
<1>2. todo' = Tail(todo)
  BY DEF Boot!Proceed
<1>3. /\ todo' \in Seq(Steps) /\ Len(todo') = Len(todo) - 1
      /\ \A i \in 1 .. Len(todo') : todo'[i] = todo[i + 1] /\ i + 1 \in 1 .. Len(todo)
  BY <1>1, <1>2, HeadTailProperties
<1>4. ScriptOK(todo')
  <2> SUFFICES ASSUME NEW i \in 1 .. Len(todo')
      PROVE /\ todo'[i].what = "receive" => todo'[i].v \in Nat
            /\ todo'[i].what # "receive" => todo'[i].v[1] # "cmd"
            /\ todo'[i].what = "size" =>
                  /\ i < Len(todo') /\ todo'[i + 1].what = "receive"
                  /\ \A j \in 1 .. Len(todo') : todo'[j].what = "receive" => j = i + 1
    BY DEF ScriptOK
  <2>1. todo'[i] = todo[i + 1] /\ i + 1 \in 1 .. Len(todo)
    BY <1>3
  <2>2. /\ todo'[i].what = "receive" => todo'[i].v \in Nat
        /\ todo'[i].what # "receive" => todo'[i].v[1] # "cmd"
    BY <1>1, <2>1 DEF ScriptOK
  <2>3. ASSUME todo'[i].what = "size"
        PROVE  /\ i < Len(todo') /\ todo'[i + 1].what = "receive"
               /\ \A j \in 1 .. Len(todo') : todo'[j].what = "receive" => j = i + 1
    <3>1. /\ i + 1 < Len(todo) /\ todo[i + 1 + 1].what = "receive"
          /\ \A j \in 1 .. Len(todo) : todo[j].what = "receive" => j = i + 1 + 1
      BY <1>1, <2>1, <2>3 DEF ScriptOK
    <3>2. i + 1 \in 1 .. Len(todo')
      BY <1>1, <1>3, <3>1
    <3>3. todo'[i + 1].what = "receive"
      BY <1>3, <3>1, <3>2
    <3>4. ASSUME NEW j \in 1 .. Len(todo'), todo'[j].what = "receive" PROVE j = i + 1
      <4>1. todo[j + 1].what = "receive" /\ j + 1 \in 1 .. Len(todo)
        BY <1>3, <3>4
      <4>2. j + 1 = i + 1 + 1
        BY <3>1, <4>1
      <4> QED BY <4>2
    <3> QED BY <1>3, <3>2, <3>3, <3>4
  <2> QED BY <2>2, <2>3
<1>5. (\E i \in 1 .. Len(todo') : todo'[i].what = "size") => intact'
  BY <1>1, <1>3 DEF TypeInv, BootTypes
<1>6. /\ pc' \in BootPCs \cup { "idle" }
      /\ pc' \in BootPCs <=> todo' # << >>
  BY DEF Boot!Proceed, BootPCs
<1> QED BY <1>3, <1>4, <1>5, <1>6 DEF BootTypes

\* A call of the boot loader fails.
LEMMA FailTypes ==
    ASSUME Boot!Fail, retries' \in 0 .. RetryMod - 1, DOMAIN loader' = LoaderFields
    PROVE  BootTypes' /\ pc' \in BootPCs \cup { "idle" }
<1>1. todo' = << >> /\ pc' = "idle" /\ todo' \in Seq(Steps) /\ Len(todo') = 0
  BY EmptySeq DEF Boot!Fail
<1> QED BY <1>1 DEF BootTypes, ScriptOK, BootPCs

\* A step goes on.
LEMMA StayTypes ==
    ASSUME TypeInv, pc \in BootPCs, pc' \in BootPCs, todo' = todo,
           \/ intact' = intact
           \/ Head(todo).what = "receive",
           retries' \in 0 .. RetryMod - 1, DOMAIN loader' = LoaderFields
    PROVE  BootTypes'
<1>1. /\ todo \in Seq(Steps) /\ todo # << >> /\ ScriptOK(todo)
      /\ Len(todo) \in Nat /\ Len(todo) > 0 /\ Head(todo) = todo[1]
  BY HeadIs
<1>2. (\E i \in 1 .. Len(todo') : todo'[i].what = "size") => intact'
  <2>1. CASE intact' = intact
    BY <2>1 DEF TypeInv, BootTypes
  <2>2. CASE Head(todo).what = "receive"
    <3>1. 1 \in 1 .. Len(todo)
      BY <1>1
    <3>2. \A i \in 1 .. Len(todo) : todo[i].what = "size" => 1 = i + 1
      BY <1>1, <2>2, <3>1 DEF ScriptOK
    <3>3. \A i \in 1 .. Len(todo) : todo[i].what # "size"
      BY <3>2
    <3> QED BY <3>3
  <2> QED BY <2>1, <2>2
<1> QED BY <1>1, <1>2 DEF BootTypes

\* One word is left, and that is no size.
LEMMA OneTypes ==
    ASSUME NEW step \in Steps, step.what \notin { "size", "receive" },
           step.v[1] # "cmd", todo' = << step >>, pc' \in BootPCs,
           retries' \in 0 .. RetryMod - 1, DOMAIN loader' = LoaderFields
    PROVE  BootTypes'
<1>1. todo' \in Seq(Steps) /\ Len(todo') = 1 /\ todo'[1] = step /\ todo' # << >>
  BY EmptySeq
<1>2. \A i \in 1 .. Len(todo') : todo'[i] = step
  BY <1>1
<1> HIDE DEF Steps
<1>3. ScriptOK(todo')
  BY <1>2 DEF ScriptOK
<1> QED BY <1>1, <1>2, <1>3 DEF BootTypes

\* The steps of a call of the boot loader, one by one (src/core/mcu/nile_mcu_boot_*.c).
LEMMA BootCallTypes ==
    ASSUME TypeInv, NEW o \in Boot!Operations, Boot!Call(o), speaks = "loader",
           UNCHANGED << nativeOnly, resetOnly >>
    PROVE  TypeInv'
<1>1. /\ pc = "idle" /\ pc' = "boot" /\ intact /\ intact' /\ calls' = calls + 1
      /\ calls < MaxCalls /\ todo' = Boot!Script(o, calls')
      /\ retries' = 0 /\ loader' = loader
  BY DEF Boot!Call
<1>2. calls' \in 0 .. MaxCalls /\ calls' \in Nat
  BY <1>1, ConstantsNat DEF TypeInv, NativeTypes
<1>3. todo' \in Seq(Steps) /\ ScriptOK(todo') /\ todo' # << >>
  BY <1>1, <1>2, ScriptRight
<1>4. BootTypes'
  BY <1>1, <1>3, ConstantsNat DEF TypeInv, BootTypes, BootPCs
<1>5. runs = "loader" /\ answer.phase = "none"
  BY DEF TypeInv, ResetTypes
<1>6. NativeTypes' /\ ResetTypes'
  BY <1>1, <1>2, <1>5 DEF TypeInv, NativeTypes, ResetTypes, resetOnly, nativeOnly,
      BootPCs
<1>7. LinkInv'
  <2>1. /\ tx' = Forgotten(tx, Filler) /\ rx' = Forgotten(rx, << Filler >>)
        /\ UNCHANGED << idx, device, flight, intact >>
    BY SameLink DEF Boot!Call
  <2>2. WordOK(Filler)
    BY DEF WordOK, Filler
  <2> QED BY <2>1, <2>2, LinkForgets DEF TypeInv
<1> QED BY <1>4, <1>6, <1>7 DEF TypeInv

\* The first word of a frame.
LEMMA FrameStartTypes ==
    ASSUME TypeInv, Boot!FrameStart, UNCHANGED << nativeOnly, resetOnly >>
    PROVE  TypeInv'
<1>1. /\ pc \in BootPCs /\ Head(todo).what = "frame"
      /\ UNCHANGED << calls, retries, loader, intact, rx >> /\ Boot!Proceed
      /\ idx' = 1 /\ device' = "MCU"
      /\ tx' = [ tx EXCEPT ![0] = Head(todo).v ]
      /\ flight' = [ NoFlight EXCEPT !.mode = "write", !.dev = "MCU", !.n = 1 ]
  BY SameLink DEF Boot!FrameStart, BootPCs
<1>2. BootTypes' /\ pc' \in BootPCs \cup { "idle" }
  BY <1>1, ProceedTypes DEF TypeInv, BootTypes
<1>3. NativeTypes' /\ ResetTypes'
  BY <1>1, <1>2, NativeAside DEF TypeInv, NativeTypes
<1>4. WordOK(Head(todo).v)
  BY <1>1, HeadIs
<1>5. flight' \in Flights /\ flight'.n > 0 /\ flight'.buf = 1 - idx' /\ ~flight'.stop
  <2>1. 1 \in 0 .. Window
    BY ConstantsNat
  <2>2. flight' = [ mode |-> "write", dev |-> "MCU", buf |-> 0, n |-> 1,
                    stop |-> FALSE ]
    BY <1>1 DEF NoFlight
  <2>3. flight' \in Flights
    BY <2>1, <2>2 DEF Flights, Modes, Devices
  <2>4. idx' = 1 /\ 0 = 1 - 1 /\ 1 > 0
    BY <1>1
  <2>5. flight'.n = 1 /\ flight'.buf = 0 /\ ~flight'.stop
    BY <2>2
  <2> QED BY <2>3, <2>4, <2>5
<1>6. Busy'
  BY <1>1 DEF Busy, NoFlight
<1>7. DOMAIN tx' = { 0, 1 } /\ \A b \in { 0, 1 } : WordOK(tx'[b])
  <2> HIDE DEF WordOK
  <2> QED BY <1>1, <1>4 DEF TypeInv, LinkInv
<1>8. LinkInv'
  BY <1>1, <1>5, <1>6, <1>7 DEF TypeInv, LinkInv, Devices, UnitOK, WordOK
<1> QED BY <1>2, <1>3, <1>8 DEF TypeInv

\* A word whose answer is not waited for.
LEMMA SendStartTypes ==
    ASSUME TypeInv, Boot!SendStart, UNCHANGED << nativeOnly, resetOnly >>
    PROVE  TypeInv'
<1>1. /\ pc \in BootPCs /\ Head(todo).what = "send"
      /\ UNCHANGED << calls, retries, loader, intact, rx >> /\ Boot!Proceed
      /\ StartSending("write", device)
      /\ tx' = [ tx EXCEPT ![idx] = Head(todo).v ]
  BY SameLink DEF Boot!SendStart, BootPCs
<1>2. BootTypes' /\ pc' \in BootPCs \cup { "idle" }
  BY <1>1, ProceedTypes DEF TypeInv, BootTypes
<1>3. NativeTypes' /\ ResetTypes'
  BY <1>1, <1>2, NativeAside DEF TypeInv, NativeTypes
<1>4. WordOK(Head(todo).v)
  BY <1>1, HeadIs
<1>5. Writes(Head(todo).v)
  BY <1>1, <1>4 DEF Writes, TypeInv, LinkInv
<1>6. LinkInv'
  BY <1>1, <1>5, LinkSends DEF TypeInv, LinkInv, Modes
<1> QED BY <1>2, <1>3, <1>6 DEF TypeInv

\* A word whose answer is waited for.
LEMMA ExchangeStartTypes ==
    ASSUME TypeInv, Boot!ExchangeStart, UNCHANGED << nativeOnly, resetOnly >>
    PROVE  TypeInv'
<1>1. /\ pc \in BootPCs /\ pc' \in BootPCs /\ Head(todo).what # "receive"
      /\ UNCHANGED << calls, todo, retries, loader, intact, rx >>
      /\ StartSending("exchange", device)
      /\ tx' = [ tx EXCEPT ![idx] = Head(todo).v ]
  BY SameLink DEF Boot!ExchangeStart, BootPCs
<1>2. BootTypes'
  BY <1>1, StayTypes DEF TypeInv, BootTypes
<1>3. NativeTypes' /\ ResetTypes'
  BY <1>1, NativeAside DEF TypeInv, NativeTypes
<1>4. WordOK(Head(todo).v)
  BY <1>1, HeadIs
<1>5. Writes(Head(todo).v)
  BY <1>1, <1>4 DEF Writes, TypeInv, LinkInv
<1>6. LinkInv'
  BY <1>1, <1>5, LinkSends DEF TypeInv, LinkInv, Modes
<1> QED BY <1>2, <1>3, <1>6 DEF TypeInv

\* Data are asked for.
LEMMA ReceiveStartTypes ==
    ASSUME TypeInv, Boot!ReceiveStart, UNCHANGED << nativeOnly, resetOnly >>
    PROVE  TypeInv'
<1>1. /\ pc \in BootPCs /\ pc' \in BootPCs /\ Head(todo).what = "receive"
      /\ UNCHANGED << idx, device, tx, calls, todo, retries, loader, intact, rx >>
      /\ StartReading("read", Head(todo).v)
  BY SameLink DEF Boot!ReceiveStart, BootPCs
<1>2. BootTypes'
  BY <1>1, StayTypes DEF TypeInv, BootTypes
<1>3. NativeTypes' /\ ResetTypes'
  BY <1>1, NativeAside DEF TypeInv, NativeTypes
<1>4. Head(todo).v \in Int
  BY <1>1, HeadIs
<1>5. LinkInv'
  BY <1>1, <1>4, LinkReads DEF TypeInv, Modes
<1> QED BY <1>2, <1>3, <1>5 DEF TypeInv

\* A word arrives for a boot loader call: what is then still the same.
LEMMA ArrivesTypes ==
    ASSUME TypeInv, NEW what, Boot!Arrives(what), UNCHANGED << nativeOnly, resetOnly >>,
           intact' \in BOOLEAN, intact' => intact, pc' \in BootPCs \cup { "idle" }
    PROVE  /\ pc \in BootPCs /\ calls' = calls /\ loader' = loader
           /\ Head(todo).what = what
           /\ LinkInv' /\ NativeTypes' /\ ResetTypes'
           /\ DOMAIN loader' = LoaderFields
<1>1. /\ pc \in BootPCs /\ ~Busy /\ idx' = 1 - idx /\ Head(todo).what = what
      /\ UNCHANGED << device, tx, rx, flight, calls, loader >>
  BY SameLink DEF Boot!Arrives, BootPCs, Flip
<1>2. NativeTypes' /\ ResetTypes'
  BY <1>1, NativeAside
<1>3. idx' \in { 0, 1 } /\ device' \in Devices
  BY <1>1 DEF TypeInv, LinkInv
<1>4. LinkInv'
  BY <1>1, <1>3, LinkFlips DEF TypeInv
<1> QED BY <1>1, <1>2, <1>4 DEF TypeInv, BootTypes

\* A call that proceeds is still a call of the boot loader's, or has returned.
LEMMA ProceedEnds == ASSUME Boot!Proceed PROVE pc' \in BootPCs \cup { "idle" }
BY DEF Boot!Proceed, BootPCs

\* An answer that is not looked at.
LEMMA ExchangeArrivesTypes ==
    ASSUME TypeInv, Boot!ExchangeArrives, UNCHANGED << nativeOnly, resetOnly >>
    PROVE  TypeInv'
<1>1. PICK what \in { "skip", "echo", "exchange" } : Boot!Arrives(what)
  BY DEF Boot!ExchangeArrives
<1>2. Boot!Proceed /\ UNCHANGED << retries, intact >>
  BY DEF Boot!ExchangeArrives
<1>3. /\ pc \in BootPCs /\ DOMAIN loader' = LoaderFields
      /\ LinkInv' /\ NativeTypes' /\ ResetTypes'
  BY <1>1, <1>2, ProceedEnds, ArrivesTypes DEF TypeInv, NativeTypes
<1>4. BootTypes'
  BY <1>2, <1>3, ProceedTypes DEF TypeInv, BootTypes
<1> QED BY <1>3, <1>4 DEF TypeInv

\* A value has come.
LEMMA ValueArrivesTypes ==
    ASSUME TypeInv, Boot!ValueArrives, UNCHANGED << nativeOnly, resetOnly >>
    PROVE  TypeInv'
<1>1. Boot!Arrives("value") /\ Boot!Proceed /\ UNCHANGED << retries, intact >>
  BY DEF Boot!ValueArrives
<1>2. /\ pc \in BootPCs /\ DOMAIN loader' = LoaderFields
      /\ LinkInv' /\ NativeTypes' /\ ResetTypes'
  BY <1>1, ProceedEnds, ArrivesTypes DEF TypeInv, NativeTypes
<1>3. BootTypes'
  BY <1>1, <1>2, ProceedTypes DEF TypeInv, BootTypes
<1> QED BY <1>2, <1>3 DEF TypeInv

\* The data have come.
LEMMA ReceiveArrivesTypes ==
    ASSUME TypeInv, Boot!ReceiveArrives, UNCHANGED << nativeOnly, resetOnly >>
    PROVE  TypeInv'
<1>1. Boot!Arrives("receive") /\ Boot!Proceed /\ UNCHANGED << retries, intact >>
  BY DEF Boot!ReceiveArrives
<1>2. /\ pc \in BootPCs /\ DOMAIN loader' = LoaderFields
      /\ LinkInv' /\ NativeTypes' /\ ResetTypes'
  BY <1>1, ProceedEnds, ArrivesTypes DEF TypeInv, NativeTypes
<1>3. BootTypes'
  BY <1>1, <1>2, ProceedTypes DEF TypeInv, BootTypes
<1> QED BY <1>2, <1>3 DEF TypeInv

\* The refusal has been confirmed.
LEMMA RefusedArrivesTypes ==
    ASSUME TypeInv, Boot!RefusedArrives, UNCHANGED << nativeOnly, resetOnly >>
    PROVE  TypeInv'
<1>1. Boot!Arrives("refused") /\ Boot!Fail /\ UNCHANGED << retries, intact >>
  BY DEF Boot!RefusedArrives
<1>2. pc' = "idle"
  BY <1>1 DEF Boot!Fail
<1>3. /\ pc \in BootPCs /\ DOMAIN loader' = LoaderFields
      /\ LinkInv' /\ NativeTypes' /\ ResetTypes'
  BY <1>1, <1>2, ArrivesTypes DEF TypeInv, NativeTypes
<1>4. BootTypes'
  BY <1>1, <1>3, FailTypes DEF TypeInv, BootTypes
<1> QED BY <1>3, <1>4 DEF TypeInv

\* The size that came is a number, and what remains is to receive at most as many.
LEMMA SizeArrivesTypes ==
    ASSUME TypeInv, Boot!SizeArrives, UNCHANGED << nativeOnly, resetOnly >>
    PROVE  TypeInv'
<1>1. /\ Boot!Arrives("size") /\ pc' = "boot"
      /\ UNCHANGED << retries, intact >>
  BY DEF Boot!SizeArrives
<1>2. /\ pc \in BootPCs /\ DOMAIN loader' = LoaderFields /\ loader' = loader
      /\ Head(todo).what = "size"
      /\ LinkInv' /\ NativeTypes' /\ ResetTypes'
  BY <1>1, ArrivesTypes DEF TypeInv, NativeTypes, BootPCs
<1>3. /\ todo \in Seq(Steps) /\ ScriptOK(todo) /\ Len(todo) \in Nat /\ Len(todo) > 0
      /\ Head(todo) = todo[1]
  BY <1>2, HeadIs
<1>4. 1 \in 1 .. Len(todo) /\ todo[1].what = "size"
  BY <1>2, <1>3
<1>5. /\ Len(todo) >= 2 /\ todo[2].what = "receive"
      /\ \A j \in 1 .. Len(todo) : todo[j].what = "receive" => j = 2
  BY <1>3, <1>4 DEF ScriptOK
<1>20. Len(todo) = 2 \/ Len(todo) >= 3
  <2>1. \A n \in Nat : n >= 2 => n = 2 \/ n >= 3
    OBVIOUS
  <2> QED BY <1>3, <1>5, <2>1
<1>6. 2 \in 1 .. Len(todo)
  BY <1>3, <1>5
<1>7. todo[2].v \in Nat
  BY <1>3, <1>5, <1>6 DEF ScriptOK
<1>8. intact
  BY <1>4 DEF TypeInv, BootTypes
<1>9. UnitOK(rx[idx'][1])
  <2>1. idx' = 1 - idx /\ rx' = rx
    BY <1>1, SameLink DEF Boot!Arrives, Flip
  <2>2. idx \in { 0, 1 }
    BY DEF TypeInv, LinkInv
  <2>3. idx' \in { 0, 1 }
    BY <2>1, <2>2
  <2> QED BY <1>8, <2>1, <2>3 DEF TypeInv, LinkInv
<1> DEFINE unit == rx[idx'][1]
           n == IF unit[1] = "size" /\ unit[2] + 1 < todo[2].v THEN unit[2] + 1
                                                               ELSE todo[2].v
           step == Boot!Step("receive", n)
           one == << step >>
           rest == SubSeq(todo, 3, Len(todo))
<1>10. todo' = one \o rest
  BY DEF Boot!SizeArrives, Boot!Unit
<1>11. n \in Nat
  <2>1. CASE unit[1] = "size" /\ unit[2] + 1 < todo[2].v
    <3>1. unit[2] \in Nat
      BY <1>9, <2>1 DEF UnitOK
    <3> QED BY <2>1, <3>1
  <2>2. CASE ~(unit[1] = "size" /\ unit[2] + 1 < todo[2].v)
    BY <1>7, <2>2
  <2> QED BY <2>1, <2>2
<1> HIDE DEF n, unit
<1>12. step \in Steps /\ step.what = "receive" /\ step.v \in Nat
  BY <1>11 DEF Boot!Step, Steps, Whats
<1> HIDE DEF step
<1>13. one \in Seq(Steps) /\ Len(one) = 1 /\ one[1] = step
  BY <1>12
<1>14. /\ rest \in Seq(Steps) /\ Len(rest) = Len(todo) - 2
       /\ \A i \in 1 .. Len(rest) : rest[i] = todo[i + 2] /\ i + 2 \in 1 .. Len(todo)
  <2> HIDE DEF Steps
  <2>1. \A i \in 3 .. Len(todo) : todo[i] \in Steps
    BY <1>3
  <2>2. /\ rest \in Seq(Steps)
        /\ Len(rest) = IF 3 <= Len(todo) THEN Len(todo) - 3 + 1 ELSE 0
        /\ \A i \in 1 .. Len(todo) - 3 + 1 : rest[i] = todo[3 + i - 1]
    BY <1>3, <2>1, SubSeqProperties
  <2> HIDE DEF rest
  <2>3. Len(rest) = Len(todo) - 2
    <3>1. Len(todo) \in Nat /\ Len(todo) >= 2
      BY <1>3, <1>5
    <3>2. Len(rest) = IF 3 <= Len(todo) THEN Len(todo) - 3 + 1 ELSE 0
      BY <2>2
    <3>3. CASE Len(todo) = 2
      BY <3>2, <3>3
    <3>4. CASE Len(todo) >= 3
      <4>1. Len(rest) = Len(todo) - 3 + 1
        BY <3>2, <3>4
      <4> QED BY <3>1, <4>1
    <3> QED BY Zenon, <3>3, <3>4, <1>20
  <2>4. ASSUME NEW i \in 1 .. Len(rest)
        PROVE  rest[i] = todo[i + 2] /\ i + 2 \in 1 .. Len(todo)
    <3>1. 3 + i - 1 = i + 2 /\ i \in 1 .. Len(todo) - 3 + 1
      BY <1>3, <2>3
    <3> QED BY <1>3, <2>2, <2>3, <3>1
  <2> QED BY <2>2, <2>3, <2>4
<1> HIDE DEF one, rest
<1>15. /\ todo' \in Seq(Steps) /\ Len(todo') = Len(todo) - 1
       /\ \A i \in 1 .. Len(todo') : todo'[i] = IF i = 1 THEN step ELSE rest[i - 1]
  <2> HIDE DEF Steps
  <2>1. /\ one \o rest \in Seq(Steps) /\ Len(one \o rest) = Len(one) + Len(rest)
        /\ \A i \in 1 .. Len(one) + Len(rest) :
              (one \o rest)[i] = IF i <= Len(one) THEN one[i] ELSE rest[i - Len(one)]
    BY <1>13, <1>14, ConcatProperties
  <2> QED BY <1>3, <1>5, <1>10, <1>13, <1>14, <2>1
<1>16. ASSUME NEW i \in 1 .. Len(todo'), i # 1
       PROVE  /\ i + 1 \in 1 .. Len(todo) /\ i + 1 # 2
              /\ todo'[i] = todo[i + 1] /\ todo[i + 1].what \notin { "receive", "size" }
  <2>1. todo'[i] = todo[i + 1] /\ i + 1 \in 1 .. Len(todo) /\ i + 1 # 2
    <3>1. todo'[i] = rest[i - 1] /\ i - 1 \in 1 .. Len(rest)
      BY <1>3, <1>5, <1>14, <1>15, <1>16
    <3>2. rest[i - 1] = todo[i - 1 + 2] /\ i - 1 + 2 \in 1 .. Len(todo)
      BY <1>14, <3>1
    <3>3. i - 1 + 2 = i + 1 /\ i + 1 # 2
      BY <1>3, <1>15, <1>16
    <3> QED BY <3>1, <3>2, <3>3
  <2>2. todo[i + 1].what # "receive"
    BY <1>5, <2>1
  <2>3. todo[i + 1].what # "size"
    <3> SUFFICES ASSUME todo[i + 1].what = "size" PROVE FALSE
      OBVIOUS
    <3>1. i + 1 < Len(todo) /\ todo[i + 1 + 1].what = "receive"
      BY <1>3, <2>1 DEF ScriptOK
    <3>2. i + 1 + 1 \in 1 .. Len(todo)
      BY <1>3, <3>1
    <3>3. i + 1 + 1 = 2
      BY <1>5, <3>1, <3>2
    <3> QED BY <3>3, <1>16
  <2> QED BY <2>1, <2>2, <2>3
<1>17. 1 \in 1 .. Len(todo') /\ todo'[1] = step
  BY <1>3, <1>5, <1>15
<1>18. ScriptOK(todo')
  <2> SUFFICES ASSUME NEW i \in 1 .. Len(todo')
      PROVE /\ todo'[i].what = "receive" => todo'[i].v \in Nat
            /\ todo'[i].what # "receive" => todo'[i].v[1] # "cmd"
            /\ todo'[i].what # "size"
    BY DEF ScriptOK
  <2>1. CASE i = 1
    BY <1>12, <1>17, <2>1
  <2>2. CASE i # 1
    <3>1. i + 1 \in 1 .. Len(todo) /\ todo'[i] = todo[i + 1]
          /\ todo[i + 1].what \notin { "receive", "size" }
      BY <1>16, <2>2
    <3>2. todo[i + 1].v[1] # "cmd"
      BY <1>3, <3>1 DEF ScriptOK
    <3> QED BY <3>1, <3>2
  <2> QED BY <2>1, <2>2
<1>19. BootTypes'
  <2>1. todo' # << >> /\ pc' \in BootPCs
    BY <1>1, <1>15, <1>17, EmptySeq DEF BootPCs
  <2>2. intact'
    BY <1>1, <1>8
  <2> QED BY <1>1, <1>2, <1>15, <1>18, <2>1, <2>2 DEF TypeInv, BootTypes
<1> QED BY <1>2, <1>19 DEF TypeInv

\* The answer is an acknowledgement, a refusal, or neither yet.
LEMMA PollArrivesTypes ==
    ASSUME TypeInv, Boot!PollArrives, UNCHANGED << nativeOnly, resetOnly >>
    PROVE  TypeInv'
<1> DEFINE r == (retries - 1) % RetryMod
<1>1. r \in 0 .. RetryMod - 1 /\ 0 \in 0 .. RetryMod - 1
  BY ConstantsNat DEF TypeInv, BootTypes
<1> HIDE DEF r
<1>2. Boot!Arrives("poll")
  BY DEF Boot!PollArrives
<1>3. \/ r = 0 /\ Boot!Fail /\ intact' = FALSE /\ retries' = 0
      \/ retries' = 0 /\ intact' = intact /\ Boot!Proceed
      \/ /\ todo' = << Boot!Step("refused", Boot!Ack) >>
         /\ retries' = 0 /\ pc' = "boot" /\ intact' = intact
      \/ retries' = r /\ pc' = "boot" /\ todo' = todo /\ intact' = intact
  BY DEF Boot!PollArrives, r
<1>4. /\ pc' \in BootPCs \cup { "idle" } /\ retries' \in 0 .. RetryMod - 1
      /\ intact' \in BOOLEAN /\ (intact' => intact)
  <2>1. pc' \in BootPCs \cup { "idle" }
    <3>1. CASE Boot!Fail
      BY <3>1 DEF Boot!Fail
    <3>2. CASE Boot!Proceed
      BY <3>2, ProceedEnds
    <3>3. CASE pc' = "boot"
      BY <3>3 DEF BootPCs
    <3> QED BY <1>3, <3>1, <3>2, <3>3
  <2>2. retries' \in 0 .. RetryMod - 1
    BY <1>1, <1>3
  <2>3. intact' = FALSE \/ intact' = intact
    BY <1>3
  <2>4. intact' \in BOOLEAN /\ (intact' => intact)
    <3>1. intact \in BOOLEAN
      BY DEF TypeInv, NativeTypes
    <3>2. CASE intact' = FALSE
      BY Zenon, <3>2
    <3>3. CASE intact' = intact
      BY Zenon, <3>1, <3>3
    <3> QED BY <2>3, <3>2, <3>3
  <2> QED BY <2>1, <2>2, <2>4
<1>5. /\ pc \in BootPCs /\ DOMAIN loader' = LoaderFields /\ Head(todo).what = "poll"
      /\ LinkInv' /\ NativeTypes' /\ ResetTypes'
  BY <1>2, <1>4, ArrivesTypes
<1>6. BootTypes'
  <2>1. CASE Boot!Fail
    BY <2>1, <1>4, <1>5, FailTypes
  <2>2. CASE retries' = 0 /\ intact' = intact /\ Boot!Proceed
    BY <2>2, <1>4, <1>5, ProceedTypes
  <2>3. CASE /\ todo' = << Boot!Step("refused", Boot!Ack) >>
             /\ retries' = 0 /\ pc' = "boot" /\ intact' = intact
    <3>1. /\ Boot!Step("refused", Boot!Ack) \in Steps
          /\ Boot!Step("refused", Boot!Ack).what \notin { "size", "receive" }
          /\ Boot!Step("refused", Boot!Ack).v[1] # "cmd"
      BY ShortWords DEF Boot!Step, Steps, Whats
    <3>2. pc' \in BootPCs
      BY <2>3 DEF BootPCs
    <3> HIDE DEF Steps
    <3> QED BY <2>3, <3>1, <3>2, <1>4, <1>5, OneTypes
  <2>4. CASE retries' = r /\ pc' = "boot" /\ todo' = todo /\ intact' = intact
    <3>1. pc' \in BootPCs
      BY <2>4 DEF BootPCs
    <3> QED BY <2>4, <3>1, <1>4, <1>5, StayTypes
  <2> QED BY <1>3, <2>1, <2>2, <2>3, <2>4
<1> QED BY <1>5, <1>6 DEF TypeInv

\* A word could not be sent.
LEMMA BootTimesOutTypes ==
    ASSUME TypeInv, Boot!TimesOut, UNCHANGED << nativeOnly, resetOnly >>
    PROVE  TypeInv'
<1>1. /\ pc \in BootPCs /\ Head(todo).what # "receive"
      /\ UNCHANGED << link, calls, retries, loader >>
  <2>1. pc \in BootPCs /\ Head(todo).what # "receive"
    BY DEF Boot!TimesOut, BootPCs
  <2>2. UNCHANGED << Boot!link, calls, retries, loader >>
    BY DEF Boot!TimesOut
  <2>3. Boot!link' = link'
    BY DEF Boot!link, link
  <2> QED BY <2>1, <2>2, <2>3, SameLink
<1>2. \/ intact' = intact /\ Boot!Proceed
      \/ (intact' = intact \/ intact' = FALSE) /\ Boot!Fail
  BY DEF Boot!TimesOut
<1>3. retries' \in 0 .. RetryMod - 1 /\ DOMAIN loader' = LoaderFields
  BY <1>1 DEF TypeInv, BootTypes
<1>4. pc' \in BootPCs \cup { "idle" } /\ BootTypes'
  <2>1. CASE intact' = intact /\ Boot!Proceed
    BY <2>1, <1>1, <1>3, ProceedTypes
  <2>2. CASE Boot!Fail
    BY <2>2, <1>3, FailTypes
  <2> QED BY <1>2, <2>1, <2>2
<1>5. intact' \in BOOLEAN /\ (intact' => intact)
  <2>1. intact \in BOOLEAN
    BY DEF TypeInv, NativeTypes
  <2>2. CASE intact' = FALSE
    BY Zenon, <2>2
  <2>3. CASE intact' = intact
    BY Zenon, <2>1, <2>3
  <2> QED BY <1>2, <2>2, <2>3
<1>6. NativeTypes' /\ ResetTypes'
  BY <1>1, <1>4, <1>5, NativeAside
<1>7. LinkInv'
  BY <1>1, <1>5, LinkAside DEF TypeInv
<1> QED BY <1>4, <1>6, <1>7 DEF TypeInv

\* What is in flight is told to stop.
LEMMA StoppingLink ==
    ASSUME LinkInv, Busy, Stopping, intact' = FALSE, UNCHANGED << idx, device, tx, rx >>
    PROVE  LinkInv'
<1>1. flight \in Flights /\ flight.n > 0 /\ flight.buf = 1 - idx
  BY DEF LinkInv
<1>2. flight' = [ flight EXCEPT !.stop = TRUE ]
  BY DEF Stopping
<1>3. flight' \in Flights
  BY <1>1, <1>2 DEF Flights
<1>4. flight'.n = flight.n /\ flight'.buf = flight.buf /\ flight'.mode = flight.mode
  BY <1>1, <1>2 DEF Flights
<1>5. Busy'
  BY <1>4 DEF Busy
<1> QED BY <1>1, <1>3, <1>4, <1>5 DEF LinkInv, WordOK, UnitOK

\* Data did not come in time.
LEMMA BootReceiveTimesOutTypes ==
    ASSUME TypeInv, Boot!ReceiveTimesOut, UNCHANGED << nativeOnly, resetOnly >>
    PROVE  TypeInv'
<1>1. /\ pc \in BootPCs /\ Head(todo).what = "receive" /\ Busy /\ Stopping
      /\ pc' \in BootPCs /\ intact' = FALSE
      /\ UNCHANGED << idx, device, tx, rx, calls, todo, retries, loader >>
  BY SameLink DEF Boot!ReceiveTimesOut, BootPCs
<1>2. BootTypes'
  BY <1>1, StayTypes DEF TypeInv, BootTypes
<1>3. NativeTypes' /\ ResetTypes'
  BY <1>1, NativeAside
<1>4. LinkInv'
  BY <1>1, StoppingLink DEF TypeInv
<1> QED BY <1>2, <1>3, <1>4 DEF TypeInv

\* And are cut off, or came in time after all.
LEMMA BootReceiveAbortedTypes ==
    ASSUME TypeInv, Boot!ReceiveAborted, UNCHANGED << nativeOnly, resetOnly >>
    PROVE  TypeInv'
<1>1. /\ pc \in BootPCs /\ UNCHANGED << link, calls, retries, intact, loader >>
      /\ Boot!Fail \/ Boot!Proceed
  <2>1. pc \in BootPCs /\ (Boot!Fail \/ Boot!Proceed)
    BY DEF Boot!ReceiveAborted, BootPCs
  <2>2. UNCHANGED << Boot!link, calls, retries, intact, loader >>
    BY DEF Boot!ReceiveAborted
  <2>3. Boot!link' = link'
    BY DEF Boot!link, link
  <2> QED BY <2>1, <2>2, <2>3, SameLink
<1>2. retries' \in 0 .. RetryMod - 1 /\ DOMAIN loader' = LoaderFields
  BY <1>1 DEF TypeInv, BootTypes
<1>3. pc' \in BootPCs \cup { "idle" } /\ BootTypes'
  BY <1>1, <1>2, FailTypes, ProceedTypes
<1>4. NativeTypes' /\ ResetTypes'
  BY <1>1, <1>3, NativeAside DEF TypeInv, NativeTypes
<1>5. LinkInv'
  BY <1>1, LinkAside DEF TypeInv
<1> QED BY <1>3, <1>4, <1>5 DEF TypeInv

\* The boot loader moves on, and the driver stays where it is.
LEMMA LoaderAside ==
    ASSUME TypeInv,
           UNCHANGED << nativeOnly, resetOnly, pc, todo, retries, intact, calls >>,
           Busy' => Busy, DOMAIN loader' = LoaderFields
    PROVE  NativeTypes' /\ BootTypes' /\ ResetTypes'
<1>1. NativeTypes'
  BY DEF TypeInv, NativeTypes, nativeOnly
<1>2. BootTypes'
  BY DEF TypeInv, BootTypes, ScriptOK
<1>3. ResetTypes'
  BY DEF TypeInv, ResetTypes, resetOnly, nativeOnly
<1> QED BY <1>1, <1>2, <1>3

\* Whatever the boot loader hears, its state keeps its fields.
LEMMA HearsFields ==
    ASSUME NEW word, NEW reply, Boot!Hears(word, reply), DOMAIN loader = LoaderFields
    PROVE  DOMAIN loader' = LoaderFields
<1>1. \A x : DOMAIN [ loader EXCEPT !.expect = x ] = LoaderFields
  OBVIOUS
<1> QED BY DEF Boot!Hears, Boot!AnswersPoll, Boot!LosesTrack

\* A transfer of the boot loader's is over.
LEMMA BootTransferEndsTypes ==
    ASSUME TypeInv, Boot!TransferEnds, UNCHANGED << nativeOnly, resetOnly >>
    PROVE  TypeInv'
<1>1. /\ flight.dev = "MCU"
      /\ UNCHANGED << pc, calls, todo, retries, intact >>
  BY DEF Boot!TransferEnds
<1>2. Busy
  BY <1>1 DEF TypeInv, LinkInv, NoFlight
<1>3. DOMAIN loader = LoaderFields
  BY DEF TypeInv, BootTypes
<1>4. ASSUME NEW reply \in { Boot!Ack, Boot!Nack, Boot!Wait, Filler,
                             << "value", loader.cmd >>, << "size", 1 >> },
             Boot!Hears(tx[flight.buf], reply), Ends(<< reply >>)
      PROVE  LinkInv' /\ ~Busy' /\ DOMAIN loader' = LoaderFields
  <2>1. UnitOK(<< reply >>[1])
    BY DEF UnitOK, Boot!Ack, Boot!Nack, Boot!Wait, Filler
  <2>2. DOMAIN loader' = LoaderFields
    BY <1>3, <1>4, HearsFields
  <2> QED BY <1>1, <1>2, <1>4, <2>1, <2>2, LinkEnds DEF TypeInv
<1>5. ASSUME NEW units \in { Units(Boot!Stored, flight.n), Units(<< >>, flight.n) },
             Boot!Sends(units), Ends(units)
      PROVE  LinkInv' /\ ~Busy' /\ DOMAIN loader' = LoaderFields
  <2>1. flight.n \in Nat /\ flight.n > 0
    BY <1>2, ConstantsNat DEF TypeInv, LinkInv, Flights
  <2>2. 1 \in 1 .. flight.n
    BY <2>1
  <2>3. \A s : Units(s, flight.n)[1] = IF 1 <= Len(s) THEN s[1] ELSE Filler
    BY <2>2 DEF Units
  <2>4. Len(Boot!Stored) = Window /\ Boot!Stored[1] = << "stored", loader.cmd, 1 >>
    BY ConstantsNat DEF Boot!Stored
  <2>5. units[1] = << "stored", loader.cmd, 1 >> \/ units[1] = Filler
    <3>1. Window >= 1
      BY ConstantsNat
    <3>2. Units(Boot!Stored, flight.n)[1] = << "stored", loader.cmd, 1 >>
      BY <2>3, <2>4, <3>1
    <3>3. Units(<< >>, flight.n)[1] = Filler
      BY <2>3
    <3> QED BY <3>2, <3>3
  <2>6. UnitOK(units[1])
    BY <2>5 DEF UnitOK, Filler
  <2>7. DOMAIN loader' = LoaderFields
    BY <1>3, <1>5 DEF Boot!Sends
  <2> QED BY <1>1, <1>2, <1>5, <2>6, <2>7, LinkEnds DEF TypeInv
<1>6. LinkInv' /\ ~Busy' /\ DOMAIN loader' = LoaderFields
  BY <1>4, <1>5, SameLink DEF Boot!TransferEnds
<1>7. NativeTypes' /\ BootTypes' /\ ResetTypes'
  BY <1>1, <1>6, LoaderAside
<1> QED BY <1>6, <1>7 DEF TypeInv

\* A transfer of the boot loader's has been cut off.
LEMMA BootTransferStopsTypes ==
    ASSUME TypeInv, Boot!TransferStops, UNCHANGED << nativeOnly, resetOnly >>
    PROVE  TypeInv'
<1>1. /\ flight.dev = "MCU" /\ Ends(<< Filler >>)
      /\ UNCHANGED << pc, calls, todo, retries, intact >>
      /\ loader' = [ loader EXCEPT !.lost = TRUE ]
  BY SameLink DEF Boot!TransferStops
<1>2. Busy
  BY <1>1 DEF TypeInv, LinkInv, NoFlight
<1>3. DOMAIN loader' = LoaderFields
  BY <1>1 DEF TypeInv, BootTypes
<1>4. UnitOK(<< Filler >>[1])
  BY DEF UnitOK, Filler
<1>5. LinkInv' /\ ~Busy'
  BY <1>1, <1>2, <1>4, LinkEnds DEF TypeInv
<1>6. NativeTypes' /\ BootTypes' /\ ResetTypes'
  BY <1>1, <1>3, <1>5, LoaderAside
<1> QED BY <1>5, <1>6 DEF TypeInv

----------------------------------------------------------------------------
(***************************************************************************)
(* Types: the reset.                                                       *)
(***************************************************************************)
\* The reset leaves both protocols where they are.
LEMMA ResetAside ==
    ASSUME TypeInv, pc \notin BootPCs, pc' \notin BootPCs,
           UNCHANGED << intact, bootOnly >>
    PROVE  BootTypes'
BY DEF TypeInv, BootTypes, bootOnly, ScriptOK

\* The steps of nile_mcu_reset, one by one.
LEMMA ResetStartTypes ==
    ASSUME TypeInv, NEW to \in BOOLEAN, Reset(to)
    PROVE  TypeInv'
<1>1. /\ pc = "idle" /\ pc' = "reset" /\ want' = to
      /\ UNCHANGED << link, calls, intact, nativeOnly, bootOnly, speaks, boot0, runs >>
  BY DEF Reset
<1>2. BootTypes'
  BY <1>1, ResetAside DEF BootPCs
<1>3. LinkInv'
  BY <1>1, LinkAside DEF TypeInv
<1>4. NativeTypes'
  BY <1>1 DEF TypeInv, NativeTypes, nativeOnly
<1>5. ResetTypes'
  BY <1>1 DEF TypeInv, ResetTypes, nativeOnly
<1> QED BY <1>2, <1>3, <1>4, <1>5 DEF TypeInv

\* The link was not free in time.
LEMMA ResetTimesOutTypes ==
    ASSUME TypeInv, ResetTimesOut
    PROVE  TypeInv'
<1>1. /\ pc = "reset" /\ pc' = "idle"
      /\ want' = FALSE
      /\ UNCHANGED << link, calls, intact, nativeOnly, bootOnly, speaks, boot0, runs >>
  BY DEF ResetTimesOut
<1>2. BootTypes'
  BY <1>1, ResetAside DEF BootPCs
<1>3. LinkInv'
  BY <1>1, LinkAside DEF TypeInv
<1>4. NativeTypes'
  BY <1>1 DEF TypeInv, NativeTypes, nativeOnly
<1>5. ResetTypes'
  BY <1>1 DEF TypeInv, ResetTypes, nativeOnly
<1> QED BY <1>2, <1>3, <1>4, <1>5 DEF TypeInv

\* The pin is set that says what is started.
LEMMA BootPinTypes ==
    ASSUME TypeInv, BootPin
    PROVE  TypeInv'
<1>1. /\ pc = "reset" /\ pc' = "reset_low" /\ ~Busy /\ boot0' = want
      /\ UNCHANGED << tx, rx, flight, calls, result, intact, nativeOnly, bootOnly,
                      want, speaks, runs >>
  BY DEF BootPin
<1>2. idx' \in { 0, 1 } /\ device' \in Devices
  BY DEF BootPin, SetControl, TypeInv, LinkInv, Devices
<1>3. BootTypes'
  BY <1>1, ResetAside DEF BootPCs
<1>4. LinkInv'
  BY <1>1, <1>2, LinkFlips DEF TypeInv
<1>5. NativeTypes'
  BY <1>1 DEF TypeInv, NativeTypes, nativeOnly
<1>6. ResetTypes'
  BY <1>1 DEF TypeInv, ResetTypes, nativeOnly, Busy
<1> QED BY <1>3, <1>4, <1>5, <1>6 DEF TypeInv

\* What the boot loader is sent first is a script.
LEMMA StartScript ==
    LET s == << Boot!Step("skip", << "start" >>) >> \o Boot!WaitAck IN
    s \in Seq(Steps) /\ ScriptOK(s) /\ s # << >>
<1> DEFINE first == << Boot!Step("skip", << "start" >>) >>
<1>1. << "start" >> \in Words /\ << "start" >>[1] # "cmd"
  BY Words1 DEF Names
<1>2. Plain(first)
  BY <1>1, OneStep DEF Whats
<1>3. Len(first) = 1
  OBVIOUS
<1> HIDE DEF first
<1>4. Plain(first \o Boot!WaitAck)
  BY <1>2, WaitAckPlain, PlainConcat
<1>5. first \o Boot!WaitAck # << >>
  <2>1. first \in Seq(Steps) /\ Boot!WaitAck \in Seq(Steps)
    BY <1>2, WaitAckPlain DEF Plain
  <2>2. Len(first \o Boot!WaitAck) > 0
    BY <1>3, <2>1, ConcatProperties, LenProperties
  <2> QED BY <2>1, <2>2, EmptySeq
<1>6. first \o Boot!WaitAck \in Seq(Steps) /\ ScriptOK(first \o Boot!WaitAck)
  BY <1>4, PlainIsScript
<1> QED BY <1>5, <1>6 DEF first

\* What the firmware is after a reset.
LEMMA FreshFirm == Native!Fresh \in Firms
BY EmptySeq DEF Native!Fresh, Firms, Said

\* The MCU is restarted.
LEMMA RestartTypes ==
    ASSUME TypeInv, Restart
    PROVE  TypeInv'
<1>1. /\ pc = "reset_low" /\ boot0 = want /\ ~Busy
  BY DEF Restart, TypeInv, ResetTypes
<1>2. /\ speaks' = (IF want THEN "loader" ELSE "firmware")
      /\ runs' = (IF boot0 THEN "loader" ELSE "firmware")
      /\ want' = want /\ boot0' = FALSE /\ intact' = TRUE
  BY DEF Restart, Restarted
<1>3. ResetTypes'
  <2>1. answer'.phase = "none"
    BY DEF Restart, Restarted, Native!NoAnswer
  <2>2. pc' = IF want THEN "boot" ELSE "idle"
    BY DEF Restart
  <2>3. want \in BOOLEAN
    BY DEF TypeInv, ResetTypes
  <2> QED BY <1>1, <1>2, <2>1, <2>2, <2>3 DEF ResetTypes, BootPCs
<1>4. BootTypes'
  <2>1. retries' = 0 /\ 0 \in 0 .. RetryMod - 1
    BY ConstantsNat DEF Restart, Restarted
  <2>2. DOMAIN loader' = LoaderFields
    BY DEF Restart, Restarted, Boot!Booted, LoaderFields
  <2>3. CASE want
    <3>1. pc' = "boot" /\ todo' = << Boot!Step("skip", << "start" >>) >> \o Boot!WaitAck
      BY <2>3 DEF Restart
    <3>2. todo' \in Seq(Steps) /\ ScriptOK(todo') /\ todo' # << >>
      BY <3>1, StartScript
    <3> QED BY <1>2, <2>1, <2>2, <3>1, <3>2 DEF BootTypes, BootPCs
  <2>4. CASE ~want
    <3>1. pc' = "idle" /\ todo' = << >>
      BY <2>4 DEF Restart
    <3>2. todo' \in Seq(Steps) /\ Len(todo') = 0
      BY <3>1, EmptySeq
    <3> QED BY <1>2, <2>1, <2>2, <3>1, <3>2 DEF BootTypes, BootPCs, ScriptOK
  <2> QED BY <2>3, <2>4
<1>5. NativeTypes'
  <2>1. /\ call' = Native!NoCall /\ room' = 0 /\ left' = 0 /\ Len(buffer') = 0
        /\ calls' = calls /\ firm' = Native!Fresh /\ saved' = << 0, "none" >>
        /\ answer' = Native!NoAnswer
    BY DEF Restart, Restarted
  <2>2. pc' \in { "boot", "idle" }
    BY DEF Restart
  <2>3. answer'.phase = "none" /\ answer'.room \in Nat
    BY <2>1 DEF Native!NoAnswer
  <2>4. saved'[1] \in { 0, 1 } /\ saved'[2] \in Devices
    BY <2>1 DEF Devices
  <2> QED BY <1>2, <2>1, <2>2, <2>3, <2>4, CallsOK, FreshFirm DEF TypeInv, NativeTypes
<1>6. LinkInv'
  <2>1. /\ flight' = flight /\ tx' = Forgotten(tx, Filler)
        /\ rx' = Forgotten(rx, << Filler >>)
    BY DEF Restart, Restarted
  <2>2. idx' \in { 0, 1 } /\ device' \in Devices
    BY DEF Restart, SetControl, TypeInv, LinkInv, Devices
  <2>3. /\ DOMAIN tx' = { 0, 1 } /\ \A b \in { 0, 1 } : tx'[b] = Filler
        /\ DOMAIN rx' = { 0, 1 } /\ \A b \in { 0, 1 } : rx'[b] = << Filler >>
    BY <1>1, <2>1 DEF Forgotten
  <2>4. WordOK(Filler) /\ UnitOK(<< Filler >>[1])
    BY DEF WordOK, UnitOK, Filler
  <2>5. flight' = NoFlight /\ ~Busy' /\ flight' \in Flights /\ ~flight'.stop
    BY <1>1, <2>1 DEF TypeInv, LinkInv, Busy, NoFlight
  <2>6. /\ \A b \in { 0, 1 } : WordOK(tx'[b])
        /\ \A b \in { 0, 1 } : UnitOK(rx'[b][1])
    <3> HIDE DEF WordOK, UnitOK
    <3> QED BY <2>3, <2>4
  <2> QED BY <2>2, <2>3, <2>5, <2>6 DEF LinkInv, UnitOK, WordOK
<1> QED BY <1>3, <1>4, <1>5, <1>6 DEF TypeInv

----------------------------------------------------------------------------
\* Before the first call.
LEMMA TypeInvInit == Init => TypeInv
<1> SUFFICES ASSUME Init PROVE TypeInv
  OBVIOUS
<1>1. LinkInv
  <2>1. /\ idx = 0 /\ device = "none" /\ flight = NoFlight
        /\ tx = [ b \in { 0, 1 } |-> Filler ]
        /\ rx = [ b \in { 0, 1 } |-> << Filler >> ]
    BY Zenon DEF Init, Native!Init, Native!LinkInit, Native!NoFlight, NoFlight,
                 Native!Filler, Filler
  <2>2. WordOK(Filler) /\ UnitOK(<< Filler >>[1])
    BY DEF WordOK, UnitOK, Filler
  <2>3. flight \in Flights /\ ~Busy /\ ~flight.stop
    <3>1. 0 \in 0 .. Window
      BY ConstantsNat
    <3> QED BY <2>1, <3>1 DEF Flights, NoFlight, Busy, Modes, Devices
  <2>4. /\ DOMAIN tx = { 0, 1 } /\ \A b \in { 0, 1 } : WordOK(tx[b])
        /\ DOMAIN rx = { 0, 1 } /\ \A b \in { 0, 1 } : UnitOK(rx[b][1])
    <3> HIDE DEF WordOK, UnitOK
    <3> QED BY <2>1, <2>2
  <2>5. idx \in { 0, 1 } /\ device \in Devices
    BY <2>1 DEF Devices
  <2> QED BY <2>1, <2>3, <2>4, <2>5 DEF LinkInv
<1>2. NativeTypes
  <2>1. /\ pc = "idle" /\ calls = 0 /\ call = Native!NoCall /\ room = 0 /\ left = 0
        /\ buffer = << >> /\ answer = Native!NoAnswer /\ saved = << 0, "none" >>
        /\ intact = TRUE /\ firm = Native!Fresh
    BY DEF Init, Native!Init
  <2>2. answer.phase = "none" /\ answer.room \in Nat
    BY <2>1 DEF Native!NoAnswer
  <2>3. saved[1] \in { 0, 1 } /\ saved[2] \in Devices /\ Len(buffer) = 0
    BY <2>1 DEF Devices
  <2> QED BY <2>1, <2>2, <2>3, CallsOK, FreshFirm, ConstantsNat DEF NativeTypes
<1>3. BootTypes
  <2>1. /\ pc = "idle" /\ todo = << >> /\ retries = 0 /\ loader = Boot!Booted
    BY DEF Init, Boot!Init
  <2>2. DOMAIN loader = LoaderFields
    BY <2>1 DEF Boot!Booted, LoaderFields
  <2>3. todo \in Seq(Steps) /\ Len(todo) = 0
    BY <2>1, EmptySeq
  <2> QED BY <2>1, <2>2, <2>3, ConstantsNat DEF BootTypes, BootPCs, ScriptOK
<1>4. ResetTypes
  <2>1. pc = "idle" /\ answer = Native!NoAnswer
    BY DEF Init, Native!Init
  <2> QED BY <2>1 DEF Init, ResetTypes, Native!NoAnswer
<1> QED BY <1>1, <1>2, <1>3, <1>4 DEF TypeInv

\* A step that changes nothing.
LEMMA TypeInvStutters == TypeInv /\ UNCHANGED vars => TypeInv'
<1> SUFFICES ASSUME TypeInv, UNCHANGED vars PROVE TypeInv'
  OBVIOUS
<1>1. UNCHANGED << link, shared, nativeOnly, bootOnly, resetOnly >>
  BY DEF vars
<1>2. UNCHANGED << pc, calls, result, intact >>
  BY <1>1 DEF shared
<1>3. LinkInv'
  BY <1>1, <1>2, LinkAside DEF TypeInv
<1>4. NativeTypes'
  BY <1>1, <1>2 DEF TypeInv, NativeTypes, nativeOnly
<1>5. BootTypes'
  BY <1>1, <1>2 DEF TypeInv, BootTypes, bootOnly, ScriptOK
<1>6. ResetTypes'
  BY <1>1, <1>2, <1>3 DEF TypeInv, ResetTypes, resetOnly, nativeOnly, link, Busy
<1> QED BY <1>3, <1>4, <1>5, <1>6 DEF TypeInv

\* The program's steps.
LEMMA ClientTypes == TypeInv /\ Client => TypeInv'
<1> SUFFICES ASSUME TypeInv, Client PROVE TypeInv'
  OBVIOUS
<1>1. ASSUME NEW to \in BOOLEAN, Reset(to) PROVE TypeInv'
  BY <1>1, ResetStartTypes
<1>2. CASE speaks = "firmware" /\ Native!Client /\ UNCHANGED << bootOnly, resetOnly >>
  <2>1. CASE \E c \in Native!Calls : Native!Call(c)
    BY <1>2, <2>1, NativeCallTypes
  <2> QED BY <1>2, <2>1, RequestAgainTypes, FinishTypes, OthersTypes DEF Native!Client
<1>3. ASSUME speaks = "loader", NEW o \in Boot!Operations, Boot!Call(o),
             UNCHANGED << nativeOnly, resetOnly >>
      PROVE  TypeInv'
  BY <1>3, BootCallTypes
<1>4. CASE speaks = "loader" /\ Native!Others /\ UNCHANGED << bootOnly, resetOnly >>
  BY <1>4, OthersTypes
<1> QED BY <1>1, <1>2, <1>3, <1>4 DEF Client

\* The steps of native calls.
LEMMA NativeStepTypes == TypeInv /\ NativeStep => TypeInv'
<1> SUFFICES ASSUME TypeInv, Native!DriverStep, UNCHANGED << bootOnly, resetOnly >>
             PROVE TypeInv'
  BY DEF NativeStep
<1> QED
  BY ControlTypes, RestoreTypes, CommandStartTypes, ArgumentStartTypes, BlockStartTypes,
     SendTimesOutTypes, HeaderStartTypes, HeaderArrivesTypes, DataStartTypes,
     DataArrivesTypes, SkipTypes, ReceiveTimesOutTypes, ReceiveAbortedTypes,
     RequestStartTypes, RequestTimesOutTypes, FinishArrivesTypes, FinishTimesOutTypes
     DEF Native!DriverStep

\* The steps of the boot loader's calls.
LEMMA BootStepTypes == TypeInv /\ BootStep => TypeInv'
<1> SUFFICES ASSUME TypeInv, Boot!DriverStep, UNCHANGED << nativeOnly, resetOnly >>
             PROVE TypeInv'
  BY DEF BootStep
<1> QED
  BY FrameStartTypes, SendStartTypes, ExchangeStartTypes, ReceiveStartTypes,
     ExchangeArrivesTypes, ValueArrivesTypes, SizeArrivesTypes, ReceiveArrivesTypes,
     PollArrivesTypes, RefusedArrivesTypes, BootTimesOutTypes, BootReceiveTimesOutTypes,
     BootReceiveAbortedTypes DEF Boot!DriverStep

\* The steps of the MCU and of the SPI controller.
LEMMA HardwareStepTypes == TypeInv /\ HardwareStep => TypeInv'
<1> SUFFICES ASSUME TypeInv, HardwareStep PROVE TypeInv'
  OBVIOUS
<1>1. CASE Native!HardwareStep /\ UNCHANGED << bootOnly, resetOnly >>
  BY <1>1, TransferEndsTypes, TransferStopsTypes, OtherTransferEndsTypes,
     FirmwareAnswersTypes DEF Native!HardwareStep
<1>2. CASE Boot!HardwareStep /\ UNCHANGED << nativeOnly, resetOnly >>
  BY <1>2, BootTransferEndsTypes, BootTransferStopsTypes DEF Boot!HardwareStep
<1>3. CASE Native!OtherTransferEnds /\ UNCHANGED << bootOnly, resetOnly >>
  BY <1>3, OtherTransferEndsTypes
<1> QED BY <1>1, <1>2, <1>3 DEF HardwareStep

\* No step breaks the invariant.
LEMMA TypeInvStep == TypeInv /\ [Next]_vars => TypeInv'
<1> SUFFICES ASSUME TypeInv, [Next]_vars PROVE TypeInv'
  OBVIOUS
<1> QED
  BY ClientTypes, NativeStepTypes, BootStepTypes, ResetTimesOutTypes, BootPinTypes,
     RestartTypes, HardwareStepTypes, TypeInvStutters DEF Next, DriverStep

\* The invariant says what TypeOK does.
LEMMA TypeInvIsTypeOK == TypeInv => TypeOK
<1> SUFFICES ASSUME TypeInv PROVE TypeOK
  OBVIOUS
<1>1. /\ flight.mode \in Modes /\ flight.dev \in Devices /\ flight.buf \in { 0, 1 }
      /\ flight.n \in 0 .. Window
  BY DEF TypeInv, LinkInv, Flights
<1>2. Native!Devices = Devices /\ Native!Modes = Modes
  BY DEF Native!Devices, Devices, Native!Modes, Modes
<1>3. Native!TypeOK
  BY <1>1, <1>2 DEF TypeInv, LinkInv, NativeTypes, Native!TypeOK
<1> QED BY <1>3 DEF TypeOK, TypeInv, ResetTypes, BootTypes

\* The invariant of the types holds throughout, whatever times out and is cut off
\* (src/core/mcu).
THEOREM McuTypeInv == Spec => []TypeInv
<1>1. Init => TypeInv
  BY TypeInvInit
<1>2. TypeInv /\ [Next]_vars => TypeInv'
  BY TypeInvStep
<1> QED BY <1>1, <1>2, PTL DEF Spec

\* Every variable of the MCU's routines keeps its type: what was left of an answer is
\* never less than nothing, a transfer never exceeds its window, and the tries of the
\* boot loader's polling never exceed their counter
\* (nile_mcu_native_recv_cmd.c, nile_mcu_boot_common.c).
THEOREM McuTypeCorrect == Spec => []TypeOK
BY McuTypeInv, TypeInvIsTypeOK, PTL

----------------------------------------------------------------------------
(***************************************************************************)
(* A reset leaves the MCU listening.                                       *)
(***************************************************************************)
\* A word to the MCU is in flight.
Flying(word) ==
    /\ flight.mode = "exchange" /\ flight.dev = "MCU"
    /\ tx[flight.buf] = word

\* The script of nile_mcu_reset, and what is left of it at each of its steps.
StartWord == << "start" >>
Starting == << Boot!Step("skip", StartWord) >> \o Boot!WaitAck
Asking   == Boot!WaitAck
Polling  == Tail(Boot!WaitAck)
Echoing  == << Boot!Step("echo", Boot!Ack) >>
Refusing == << Boot!Step("refused", Boot!Ack) >>

\* What the boot loader has yet to hear, at each of its own steps.
ExpectsStart == loader.expect = << "start", "skip", "poll", "echo" >>
ExpectsSkip  == loader.expect = << "skip", "poll", "echo" >>
ExpectsPoll  == loader.expect = << "poll", "echo" >>
ExpectsEcho  == loader.expect = << "echo" >>
ExpectsFrame == loader.expect = << "frame" >>

\* The reset is about to send, or has just had an answer (pc = "boot").
SyncBoot ==
    \/ todo = Starting /\ ~Busy /\ ExpectsStart
    \/ todo = Asking /\ ~Busy /\ ExpectsSkip
    \/ todo \in { Asking, Polling } /\ Flying(StartWord) /\ ExpectsStart
    \/ todo = Polling /\ ~Busy /\ (ExpectsSkip \/ ExpectsPoll)
    \/ todo = Polling /\ Flying(Boot!Zero) /\ ExpectsSkip
    \/ todo \in { Echoing, Refusing } /\ ~Busy /\ ExpectsEcho

\* The boot loader has answered.
Heard == rx[1 - idx][1] \in { Boot!Ack, Boot!Nack }

\* The reset waits for a word to have been sent (pc = "boot_wait").
SyncWait ==
    \/ todo = Starting /\ ~Busy /\ ExpectsSkip
    \/ todo = Starting /\ Flying(StartWord) /\ ExpectsStart
    \/ todo = Asking /\ ~Busy /\ ExpectsPoll
    \/ todo = Asking /\ Flying(Boot!Zero) /\ ExpectsSkip
    \/ todo = Polling /\ Flying(Boot!Zero) /\ (ExpectsSkip \/ ExpectsPoll)
    \/ todo = Polling /\ ~Busy /\ Heard /\ ExpectsEcho
    \/ todo = Polling /\ ~Busy /\ ~Heard /\ ExpectsPoll
    \/ todo \in { Echoing, Refusing } /\ ~Busy /\ ExpectsFrame
    \/ todo \in { Echoing, Refusing } /\ Flying(Boot!Ack) /\ ExpectsEcho

\* Both sides are at the same place.  The last word of the script may still be in
\* flight: it is on its way to where it is expected.
Synchronised ==
    \/ want /\ ExpectsFrame /\ (Busy => flight.dev # "MCU")
    \/ want /\ ExpectsEcho /\ Flying(Boot!Ack)
    \/ ~want /\ firm = Native!Fresh /\ (Busy => flight.dev # "MCU")

\* While the boot loader is being reset the two sides are at the same place of the
\* script, and when the reset has returned true both have come to its end.
SyncInv ==
    /\ pc \in { "reset", "reset_low" } => result[1] # "true"
    /\ op.kind = "reset" =>
          /\ pc \in BootPCs =>
                /\ want /\ runs = "loader" /\ device = "MCU" /\ intact
                /\ ~loader.lost /\ ~loader.wrong
                /\ (pc = "boot" /\ SyncBoot) \/ (pc = "boot_wait" /\ SyncWait)
          /\ result[1] = "true" =>
                /\ pc = "idle" /\ answer.phase = "none" /\ intact
                /\ runs = (IF want THEN "loader" ELSE "firmware")
                /\ want => ~loader.lost /\ ~loader.wrong
                /\ Synchronised

\* What is in front of a sequence, and what is behind.
LEMMA InFront ==
    ASSUME NEW a, NEW b, NEW c, NEW d
    PROVE  << a >> \o << b, c, d >> = << a, b, c, d >>
<1> DEFINE S == { a, b, c, d }
           s == << a >> \o << b, c, d >>
           t == << a, b, c, d >>
<1>1. << a >> \in Seq(S) /\ << b, c, d >> \in Seq(S) /\ t \in Seq(S) /\ Len(t) = 4
  OBVIOUS
<1>2. Len(<< a >>) = 1 /\ Len(<< b, c, d >>) = 3
  OBVIOUS
<1>3. /\ << a >>[1] = a /\ << b, c, d >>[1] = b /\ << b, c, d >>[2] = c
      /\ << b, c, d >>[3] = d
      /\ t[1] = a /\ t[2] = b /\ t[3] = c /\ t[4] = d
  OBVIOUS
<1> HIDE DEF S, t
<1>4. /\ s \in Seq(S) /\ Len(s) = 4
      /\ \A i \in 1 .. 4 : s[i] = IF i <= 1 THEN << a >>[i] ELSE << b, c, d >>[i - 1]
  BY <1>1, <1>2, ConcatProperties
<1> HIDE DEF s
<1>5. s[1] = a /\ s[2] = b /\ s[3] = c /\ s[4] = d
  <2>1. /\ s[1] = << a >>[1] /\ s[2] = << b, c, d >>[2 - 1]
        /\ s[3] = << b, c, d >>[3 - 1] /\ s[4] = << b, c, d >>[4 - 1]
    BY <1>4
  <2>2. 2 - 1 = 1 /\ 3 - 1 = 2 /\ 4 - 1 = 3
    OBVIOUS
  <2> QED BY <1>3, <2>1, <2>2
<1>6. \A i \in 1 .. 4 : s[i] = t[i]
  <2>1. \A i \in 1 .. 4 : i = 1 \/ i = 2 \/ i = 3 \/ i = 4
    OBVIOUS
  <2> QED BY <1>3, <1>5, <2>1
<1>7. s = t
  BY <1>1, <1>4, <1>6, SeqEqual
<1> QED BY <1>7 DEF s, t

\* The steps of the script.
SkipStep == Boot!Step("skip", Boot!Zero)
PollStep == Boot!Step("poll", Boot!Zero)
EchoStep == Boot!Step("echo", Boot!Ack)

\* What the boot loader is sent, step by step.
LEMMA Scripts ==
    /\ Head(Starting).what = "skip" /\ Head(Starting).v = StartWord
    /\ Tail(Starting) = Asking /\ Starting # << >>
    /\ Head(Asking).what = "skip" /\ Head(Asking).v = Boot!Zero
    /\ Tail(Asking) = Polling /\ Asking # << >>
    /\ Head(Polling).what = "poll" /\ Head(Polling).v = Boot!Zero
    /\ Tail(Polling) = Echoing /\ Polling # << >>
    /\ Head(Echoing).what = "echo" /\ Head(Echoing).v = Boot!Ack
    /\ Tail(Echoing) = << >> /\ Echoing # << >>
    /\ Head(Refusing).what = "refused" /\ Head(Refusing).v = Boot!Ack
    /\ Refusing # << >>
<1> DEFINE a == Boot!Step("skip", StartWord)
           b == SkipStep
           c == PollStep
           d == EchoStep
<1>1. /\ a.what = "skip" /\ a.v = StartWord /\ b.what = "skip" /\ b.v = Boot!Zero
      /\ c.what = "poll" /\ c.v = Boot!Zero /\ d.what = "echo" /\ d.v = Boot!Ack
  BY DEF Boot!Step, SkipStep, PollStep, EchoStep
<1>2. Asking = << b, c, d >> /\ Polling = Tail(<< b, c, d >>) /\ Echoing = << d >>
  BY DEF Asking, Polling, Echoing, Boot!WaitAck, SkipStep, PollStep, EchoStep
<1>3. Starting = << a >> \o << b, c, d >>
  BY DEF Starting, Boot!WaitAck, SkipStep, PollStep, EchoStep
<1>4. Refusing = << Boot!Step("refused", Boot!Ack) >>
  BY DEF Refusing
<1> HIDE DEF a, b, c, d
<1>5. Starting = << a, b, c, d >>
  BY <1>3, InFront
<1>6. Tail(<< b, c, d >>) = << c, d >> /\ Tail(<< a, b, c, d >>) = << b, c, d >>
      /\ Tail(<< c, d >>) = << d >> /\ Tail(<< d >>) = << >>
  OBVIOUS
<1>7. /\ Head(<< a, b, c, d >>) = a /\ Head(<< b, c, d >>) = b /\ Head(<< c, d >>) = c
      /\ Head(<< d >>) = d
      /\ << a, b, c, d >> # << >> /\ << b, c, d >> # << >> /\ << c, d >> # << >>
      /\ << d >> # << >>
  OBVIOUS
<1>8. /\ Head(Refusing).what = "refused" /\ Head(Refusing).v = Boot!Ack
      /\ Refusing # << >>
  BY <1>4 DEF Boot!Step
<1> QED BY <1>1, <1>2, <1>5, <1>6, <1>7, <1>8

\* What it is that the driver is about to do tells where in the script it is.
LEMMA WhereItIs ==
    ASSUME todo \in { Starting, Asking, Polling, Echoing, Refusing }
    PROVE  /\ Head(todo).what \in { "skip", "poll", "echo", "refused" }
           /\ Head(todo).what = "skip" => todo \in { Starting, Asking }
           /\ Head(todo).what = "poll" => todo = Polling
           /\ Head(todo).what = "echo" => todo = Echoing
           /\ Head(todo).what = "refused" => todo = Refusing
           /\ todo # << >>
           /\ Starting # Asking /\ Starting # Polling /\ Asking # Polling
           /\ Starting # Echoing /\ Asking # Echoing /\ Polling # Echoing
           /\ Starting # Refusing /\ Asking # Refusing /\ Polling # Refusing
<1>1. Starting # Asking
  <2>1. StartWord # Boot!Zero
    BY DEF StartWord, Boot!Zero
  <2> QED BY <2>1, Scripts
<1> QED BY <1>1, Scripts

\* The replies are told apart.
LEMMA Replies ==
    /\ Filler \notin { Boot!Ack, Boot!Nack } /\ Boot!Wait \notin { Boot!Ack, Boot!Nack }
    /\ Boot!Ack # Boot!Nack /\ StartWord[1] = "start"
BY DEF Filler, Boot!Ack, Boot!Nack, Boot!Wait, StartWord

\* What the boot loader expects next at each of its steps.
LEMMA Expectations ==
    /\ Head(<< "start", "skip", "poll", "echo" >>) = "start"
    /\ Boot!Passed(<< "start", "skip", "poll", "echo" >>) = << "skip", "poll", "echo" >>
    /\ Head(<< "skip", "poll", "echo" >>) = "skip"
    /\ Boot!Passed(<< "skip", "poll", "echo" >>) = << "poll", "echo" >>
    /\ Head(<< "poll", "echo" >>) = "poll" /\ Tail(<< "poll", "echo" >>) = << "echo" >>
    /\ Head(<< "echo" >>) = "echo" /\ Boot!Passed(<< "echo" >>) = << "frame" >>
<1>1. /\ Tail(<< "start", "skip", "poll", "echo" >>) = << "skip", "poll", "echo" >>
      /\ Tail(<< "skip", "poll", "echo" >>) = << "poll", "echo" >>
      /\ Tail(<< "echo" >>) = << >> /\ << "skip", "poll", "echo" >> # << >>
      /\ << "poll", "echo" >> # << >>
  OBVIOUS
<1>2. /\ Head(<< "start", "skip", "poll", "echo" >>) = "start"
      /\ Head(<< "skip", "poll", "echo" >>) = "skip"
      /\ Head(<< "poll", "echo" >>) = "poll"
      /\ Tail(<< "poll", "echo" >>) = << "echo" >>
      /\ Head(<< "echo" >>) = "echo"
  OBVIOUS
<1> QED BY <1>1, <1>2 DEF Boot!Passed

\* The boot loader hears what it expects.
LEMMA HearsExpected ==
    ASSUME DOMAIN loader = LoaderFields, ~loader.lost, ~loader.wrong,
           NEW word, NEW reply, Boot!Hears(word, reply)
    PROVE  /\ ExpectsStart /\ word = StartWord =>
                ExpectsSkip' /\ ~loader'.lost /\ ~loader'.wrong
           /\ ExpectsSkip =>
                ExpectsPoll' /\ ~loader'.lost /\ ~loader'.wrong /\ reply = Filler
           /\ ExpectsPoll =>
                /\ ~loader'.lost /\ ~loader'.wrong
                /\ \/ reply \in { Boot!Ack, Boot!Nack } /\ ExpectsEcho'
                   \/ reply \notin { Boot!Ack, Boot!Nack } /\ ExpectsPoll'
           /\ ExpectsEcho /\ word = Boot!Ack =>
                ExpectsFrame' /\ ~loader'.lost /\ ~loader'.wrong
<1> DEFINE e == Head(loader.expect)
           on == [ loader EXCEPT !.expect = Boot!Passed(@) ]
<1>0. /\ \A x : /\ [ loader EXCEPT !.expect = x ].expect = x
                /\ [ loader EXCEPT !.expect = x ].lost = loader.lost
                /\ [ loader EXCEPT !.expect = x ].wrong = loader.wrong
  BY DEF LoaderFields
<1>1. on.expect = Boot!Passed(loader.expect) /\ ~on.lost /\ ~on.wrong
  BY <1>0
<1>2. ASSUME ExpectsStart, word = StartWord
      PROVE  ExpectsSkip' /\ ~loader'.lost /\ ~loader'.wrong
  <2>1. e = "start"
    BY <1>2, Expectations DEF ExpectsStart
  <2>2. loader' = [ on EXCEPT !.expect = @, !.part = Append(@, word),
                               !.got = Append(@, word) ]
    BY <1>2, <2>1, Replies DEF Boot!Hears
  <2>3. loader'.expect = on.expect /\ loader'.lost = on.lost /\ loader'.wrong = on.wrong
    BY <2>2 DEF LoaderFields
  <2> QED BY <1>1, <1>2, <2>3, Expectations DEF ExpectsStart, ExpectsSkip
<1>3. ASSUME ExpectsSkip
      PROVE  ExpectsPoll' /\ ~loader'.lost /\ ~loader'.wrong /\ reply = Filler
  <2>1. e = "skip"
    BY <1>3, Expectations DEF ExpectsSkip
  <2>2. loader' = on /\ reply = Boot!Filler
    BY <2>1 DEF Boot!Hears
  <2> QED BY <1>1, <1>3, <2>2, Expectations, SameLink DEF ExpectsSkip, ExpectsPoll
<1>4. ASSUME ExpectsPoll
      PROVE  /\ ~loader'.lost /\ ~loader'.wrong
             /\ \/ reply \in { Boot!Ack, Boot!Nack } /\ ExpectsEcho'
                \/ reply \notin { Boot!Ack, Boot!Nack } /\ ExpectsPoll'
  <2>1. e = "poll" /\ Tail(loader.expect) = << "echo" >>
    BY <1>4, Expectations DEF ExpectsPoll
  <2>2. Boot!AnswersPoll(reply)
    BY <2>1 DEF Boot!Hears
  <2>3. CASE reply = Boot!Wait /\ loader' = loader
    BY <1>4, <2>3, Replies DEF ExpectsPoll
  <2>4. ASSUME reply = Boot!Ack, NEW x,
               loader' = [ loader EXCEPT !.expect = Tail(@), !.part = << >>, !.did = x ]
        PROVE  reply \in { Boot!Ack, Boot!Nack } /\ ExpectsEcho' /\ ~loader'.lost
               /\ ~loader'.wrong
    BY <2>1, <2>4 DEF ExpectsEcho, LoaderFields
  <2>5. CASE /\ reply = Boot!Nack
             /\ loader' = [ loader EXCEPT !.expect = << "echo" >>, !.part = << >>,
                                          !.wrong = FALSE ]
    <3>1. loader'.expect = << "echo" >> /\ loader'.lost = loader.lost /\ ~loader'.wrong
      BY <2>5 DEF LoaderFields
    <3> QED BY <2>5, <3>1 DEF ExpectsEcho
  <2> QED BY <2>2, <2>3, <2>4, <2>5 DEF Boot!AnswersPoll
<1>5. ASSUME ExpectsEcho, word = Boot!Ack
      PROVE  ExpectsFrame' /\ ~loader'.lost /\ ~loader'.wrong
  <2>1. e = "echo"
    BY <1>5, Expectations DEF ExpectsEcho
  <2>2. loader' = on
    BY <1>5, <2>1 DEF Boot!Hears
  <2> QED BY <1>1, <1>5, <2>2, Expectations DEF ExpectsEcho, ExpectsFrame
<1> QED BY <1>2, <1>3, <1>4, <1>5

\* Whatever is not the boot loader's, and does not return true.
LEMMA SyncAside ==
    ASSUME TypeInv, TypeInv', SyncInv, UNCHANGED bootOnly, pc \notin BootPCs,
           result'[1] # "true"
    PROVE  SyncInv'
<1>1. todo' = << >>
  BY DEF TypeInv, BootTypes, bootOnly
<1>2. pc' \notin BootPCs
  BY <1>1 DEF TypeInv, BootTypes
<1> QED BY <1>2 DEF SyncInv

\* What a native call returns is never "true".
LEMMA GivenNotTrue ==
    ASSUME NEW gives, NEW d, NEW f
    PROVE  Native!Given(gives, d, f)[1] # "true"
BY DEF Native!Given

\* Nor does its header make it return that.
LEMMA HeaderNotTrue ==
    ASSUME NEW h, Native!Header(h), result[1] # "true"
    PROVE  result'[1] # "true"
<1> DEFINE n == Native!Min({ h[3], call.room })
<1>1. CASE h[2]
  BY <1>1 DEF Native!Header, Native!HeaderError, Native!Return
<1>2. CASE ~h[2]
  <2>1. result'[1] = "header" \/ result' = Native!Given(call.gives, << >>, h[4])
    BY <1>2 DEF Native!Header, Native!Return
  <2> QED BY <2>1, GivenNotTrue
<1> QED BY <1>1, <1>2

\* Nor do its data.
LEMMA ArrivedNotTrue ==
    ASSUME NEW d, Native!Arrived(d), result[1] # "true"
    PROVE  result'[1] # "true"
<1>1. result' = result \/ result' = Native!Given(call.gives, d, result[2])
  BY DEF Native!Arrived, Native!Return
<1> QED BY <1>1, GivenNotTrue

\* No native call returns what a reset does.
LEMMA NativeNotTrue ==
    ASSUME Native!DriverStep, result[1] # "true"
    PROVE  result'[1] # "true"
<1>1. CASE \/ Native!Control \/ Native!Restore \/ Native!ArgumentStart
           \/ Native!BlockStart \/ Native!HeaderStart \/ Native!DataStart
           \/ Native!ReceiveTimesOut
  BY <1>1 DEF Native!Control, Native!Restore, Native!ArgumentStart, Native!BlockStart,
     Native!HeaderStart, Native!DataStart, Native!ReceiveTimesOut
<1>2. CASE Native!CommandStart \/ Native!SendTimesOut
  BY <1>2 DEF Native!CommandStart, Native!SendTimesOut, Native!Return
<1>3. CASE Native!RequestStart \/ Native!RequestTimesOut \/ Native!FinishTimesOut
  BY <1>3 DEF Native!RequestStart, Native!RequestTimesOut, Native!FinishTimesOut
<1>4. CASE Native!HeaderArrives
  BY <1>4, HeaderNotTrue DEF Native!HeaderArrives
<1>5. CASE Native!DataArrives
  BY <1>5, ArrivedNotTrue DEF Native!DataArrives
<1>6. CASE Native!Skip
  BY <1>6, GivenNotTrue DEF Native!Skip, Native!Return
<1>7. CASE Native!ReceiveAborted
  <2>1. CASE Native!Return(<< "spi" >>)
    BY <2>1 DEF Native!Return
  <2> QED BY <1>7, <2>1, HeaderNotTrue, ArrivedNotTrue DEF Native!ReceiveAborted
<1>8. CASE Native!FinishArrives
  <2>1. \/ result' = << "mcu" >>
        \/ \E f : result' = Native!Given(Native!Gives(answer.room), buffer', f)
    BY <1>8 DEF Native!FinishArrives
  <2> QED BY <2>1, GivenNotTrue
<1> QED BY <1>1, <1>2, <1>3, <1>4, <1>5, <1>6, <1>7, <1>8 DEF Native!DriverStep

\* A native call is in progress only at a point of native calls.
LEMMA NativeBusyPC ==
    ASSUME Native!DriverStep
    PROVE  pc \in NativePCs
BY DEF Native!DriverStep, Native!Goto, NativePCs, Native!Control, Native!Restore,
   Native!CommandStart, Native!ArgumentStart, Native!BlockStart, Native!SendTimesOut,
   Native!HeaderStart, Native!HeaderArrives, Native!DataStart, Native!DataArrives,
   Native!Skip, Native!ReceiveTimesOut, Native!ReceiveAborted, Native!RequestStart,
   Native!RequestTimesOut, Native!FinishArrives, Native!FinishTimesOut

\* And stays at such points until it returns.
LEMMA NativePCNext ==
    ASSUME Native!DriverStep
    PROVE  pc' \notin { "reset", "reset_low" }
<1>1. ASSUME NEW h, Native!Header(h), pc \notin { "reset", "reset_low" }
      PROVE  pc' \notin { "reset", "reset_low" }
  BY <1>1 DEF Native!Header, Native!HeaderError, Native!Return
<1>2. ASSUME NEW d, Native!Arrived(d) PROVE pc' \notin { "reset", "reset_low" }
  BY <1>2 DEF Native!Arrived, Native!Return
<1>3. pc \notin { "reset", "reset_low" }
  BY NativeBusyPC DEF NativePCs
<1>4. CASE Native!HeaderArrives \/ Native!DataArrives \/ Native!ReceiveAborted
  BY <1>1, <1>2, <1>3, <1>4 DEF Native!HeaderArrives, Native!DataArrives,
     Native!ReceiveAborted, Native!Return
<1> QED
  BY <1>4 DEF Native!DriverStep, Native!Goto, Native!Control, Native!Restore,
     Native!CommandStart, Native!ArgumentStart, Native!BlockStart, Native!SendTimesOut,
     Native!HeaderStart, Native!DataStart, Native!Skip, Native!ReceiveTimesOut,
     Native!RequestStart, Native!RequestTimesOut, Native!FinishArrives,
     Native!FinishTimesOut, Native!Return, Native!Receive

\* The steps of native calls.
LEMMA NativeStepSync ==
    ASSUME TypeInv, TypeInv', SyncInv, NativeStep
    PROVE  SyncInv'
<1>1. pc \in NativePCs /\ pc # "idle" /\ pc \notin BootPCs
  BY NativeBusyPC DEF NativeStep, NativePCs, BootPCs
<1>2. CASE op.kind = "reset"
  <2>1. result[1] # "true"
    BY <1>1, <1>2 DEF SyncInv
  <2> QED BY <1>1, <2>1, SyncAside, NativeNotTrue DEF NativeStep
<1>3. CASE op.kind # "reset"
  BY <1>3, NativePCNext DEF SyncInv, NativeStep, bootOnly
<1> QED BY <1>2, <1>3

\* The program's steps.
LEMMA ClientSync ==
    ASSUME TypeInv, TypeInv', SyncInv, Client
    PROVE  SyncInv'
<1>1. ASSUME NEW to \in BOOLEAN, Reset(to) PROVE SyncInv'
  <2>1. pc = "idle" /\ result' = << "none" >> /\ UNCHANGED bootOnly
    BY <1>1 DEF Reset
  <2> QED BY <2>1, SyncAside DEF BootPCs
<1>2. ASSUME NEW c \in Native!Calls, Native!Call(c), UNCHANGED bootOnly PROVE SyncInv'
  <2>1. pc = "idle" /\ result' = << "none" >>
    BY <1>2 DEF Native!Call
  <2> QED BY <1>2, <2>1, SyncAside DEF BootPCs
<1>3. CASE (Native!RequestAgain \/ Native!Finish) /\ UNCHANGED bootOnly
  <2>1. pc = "idle" /\ result' = result /\ answer.phase # "none"
    BY <1>3 DEF Native!RequestAgain, Native!Finish, Native!Goto
  <2>2. CASE op.kind = "reset"
    <3>1. result[1] # "true"
      BY <2>1, <2>2 DEF SyncInv
    <3> QED BY <1>3, <2>1, <3>1, SyncAside DEF BootPCs
  <2>3. CASE op.kind # "reset"
    BY <1>3, <2>3 DEF SyncInv, bootOnly, Native!RequestAgain, Native!Finish, Native!Goto
  <2> QED BY <2>2, <2>3
<1>4. CASE Native!Others /\ UNCHANGED << bootOnly, resetOnly >>
  <2>1. /\ pc = "idle" /\ pc' = "idle" /\ ~Busy
        /\ UNCHANGED << result, answer, intact, firm, op, loader, want, runs >>
    BY <1>4, SameLink DEF Native!Others, Native!nativeVars, bootOnly, resetOnly
  <2>2. Busy' => flight'.dev = "TF"
    <3>1. \/ flight' = flight
          \/ flight'.dev = "TF"
      BY <1>4 DEF Native!Others, Native!NoFlight
    <3> QED BY <2>1, <3>1 DEF Busy
  <2>3. ~Flying(Boot!Ack)
    BY <2>1 DEF Flying, Busy
  <2>4. Synchronised => Synchronised'
    BY <2>1, <2>2, <2>3 DEF Synchronised, ExpectsFrame, ExpectsEcho
  <2> QED BY <2>1, <2>4 DEF SyncInv, BootPCs
<1>5. ASSUME NEW o \in Boot!Operations, Boot!Call(o) PROVE SyncInv'
  <2>1. op' = o /\ o.kind # "reset" /\ pc' = "boot"
    BY <1>5, OperationsOK DEF Boot!Call, OpKinds
  <2> QED BY <2>1 DEF SyncInv
<1> QED BY <1>1, <1>2, <1>3, <1>4, <1>5 DEF Client, Native!Client

\* A reset begins, or is given up before anything was done.
LEMMA ResetSync ==
    ASSUME TypeInv, TypeInv', SyncInv, ResetTimesOut \/ BootPin
    PROVE  SyncInv'
<1>1. CASE ResetTimesOut
  <2>1. pc = "reset" /\ result' = << "false" >> /\ UNCHANGED bootOnly
    BY <1>1 DEF ResetTimesOut
  <2> QED BY <2>1, SyncAside DEF BootPCs
<1>2. CASE BootPin
  <2>1. pc = "reset" /\ result' = result /\ UNCHANGED bootOnly
    BY <1>2 DEF BootPin
  <2>2. result[1] # "true"
    BY <2>1 DEF SyncInv
  <2> QED BY <2>1, <2>2, SyncAside DEF BootPCs
<1> QED BY <1>1, <1>2

\* The MCU is restarted: both sides are at the beginning of the script.
LEMMA RestartSync ==
    ASSUME TypeInv, TypeInv', SyncInv, Restart
    PROVE  SyncInv'
<1>1. /\ pc = "reset_low" /\ boot0 = want /\ ~Busy /\ want' = want /\ want \in BOOLEAN
      /\ runs' = (IF want THEN "loader" ELSE "firmware") /\ intact' = TRUE
      /\ flight' = flight /\ firm' = Native!Fresh /\ answer'.phase = "none"
      /\ loader' = Boot!Booted
  BY DEF Restart, Restarted, TypeInv, ResetTypes, Native!NoAnswer
<1>2. ~Busy'
  BY <1>1 DEF Busy
<1>3. ExpectsStart' /\ ~loader'.lost /\ ~loader'.wrong
  BY <1>1, InFront DEF Boot!Booted, Boot!Acknowledged, ExpectsStart
<1>4. CASE want
  <2>1. /\ pc' = "boot" /\ device' = "MCU"
        /\ todo' = << Boot!Step("skip", << "start" >>) >> \o Boot!WaitAck
        /\ result' = result
    BY <1>4 DEF Restart, SetControl
  <2>2. todo' = Starting
    BY <2>1 DEF Starting, StartWord
  <2>3. SyncBoot'
    BY <1>2, <1>3, <2>2 DEF SyncBoot, Starting
  <2>4. result'[1] # "true"
    <3>1. result[1] # "true"
      BY <1>1 DEF SyncInv
    <3> QED BY <2>1, <3>1
  <2> QED BY <1>1, <1>3, <1>4, <2>1, <2>3, <2>4 DEF SyncInv
<1>5. CASE ~want
  <2>1. pc' = "idle" /\ pc' \notin BootPCs
    BY <1>5 DEF Restart, BootPCs
  <2>2. Synchronised'
    BY <1>1, <1>2, <1>5 DEF Synchronised
  <2> QED BY <1>1, <1>5, <2>1, <2>2 DEF SyncInv
<1> QED BY <1>1, <1>4, <1>5

\* The driver is waiting for the boot loader that was reset.
Awaiting ==
    /\ want /\ runs = "loader" /\ device = "MCU" /\ intact
    /\ ~loader.lost /\ ~loader.wrong

\* The script goes on.
LEMMA BootKeeps ==
    ASSUME SyncInv, op' = op, op.kind = "reset", UNCHANGED << resetOnly, nativeOnly >>,
           pc' \in BootPCs, result' = result, pc \in BootPCs,
           Awaiting, device' = device, intact' = intact, ~loader'.lost, ~loader'.wrong,
           (pc' = "boot" /\ SyncBoot') \/ (pc' = "boot_wait" /\ SyncWait')
    PROVE  SyncInv'
<1>1. result'[1] # "true"
  BY DEF SyncInv, BootPCs
<1>2. want' /\ runs' = "loader"
  BY DEF Awaiting, resetOnly
<1> QED BY <1>1, <1>2 DEF SyncInv, BootPCs, Awaiting

\* The reset returns false.
LEMMA BootFails ==
    ASSUME SyncInv, op' = op, pc' = "idle", result'[1] # "true"
    PROVE  SyncInv'
BY DEF SyncInv, BootPCs

\* A call that fails returns something else than true.
LEMMA FailIs == ASSUME Boot!Fail PROVE pc' = "idle" /\ result'[1] # "true"
BY DEF Boot!Fail

\* Every step of a call of the boot loader, when it is not a reset that calls.
LEMMA BootElse ==
    ASSUME TypeInv, BootStep, op.kind # "reset"
    PROVE  op' = op /\ pc' \notin { "reset", "reset_low" }
<1> USE DEF Boot!Proceed, Boot!Fail, Boot!Arrives
<1>1. CASE Boot!FrameStart \/ Boot!SendStart \/ Boot!ExchangeStart \/ Boot!ReceiveStart
  BY <1>1 DEF Boot!FrameStart, Boot!SendStart, Boot!ExchangeStart, Boot!ReceiveStart
<1>2. CASE Boot!ExchangeArrives \/ Boot!ValueArrives \/ Boot!SizeArrives
           \/ Boot!ReceiveArrives \/ Boot!RefusedArrives
  BY <1>2 DEF Boot!ExchangeArrives, Boot!ValueArrives, Boot!SizeArrives,
     Boot!ReceiveArrives, Boot!RefusedArrives
<1>3. CASE Boot!PollArrives
  BY <1>3 DEF Boot!PollArrives
<1>4. CASE Boot!TimesOut \/ Boot!ReceiveTimesOut \/ Boot!ReceiveAborted
  BY <1>4 DEF Boot!TimesOut, Boot!ReceiveTimesOut, Boot!ReceiveAborted
<1> QED BY <1>1, <1>2, <1>3, <1>4 DEF BootStep, Boot!DriverStep

\* While the reset waits for the boot loader.
LEMMA InScript ==
    ASSUME SyncBoot \/ SyncWait
    PROVE  todo \in { Starting, Asking, Polling, Echoing, Refusing }
BY DEF SyncBoot, SyncWait

\* A word of the script leaves.
LEMMA ExchangeStartSync ==
    ASSUME SyncInv, op.kind = "reset", pc = "boot", SyncBoot, Awaiting,
           Boot!ExchangeStart, UNCHANGED << nativeOnly, resetOnly >>,
           DOMAIN tx = { 0, 1 }, idx \in { 0, 1 }
    PROVE  SyncInv'
<1>1. /\ ~Busy /\ StartSending("exchange", device)
      /\ tx' = [ tx EXCEPT ![idx] = Head(todo).v ] /\ pc' = "boot_wait"
      /\ UNCHANGED << rx, calls, op, todo, retries, data, result, intact, loader >>
  BY SameLink DEF Boot!ExchangeStart, StartSending
<1>2. /\ device' = device /\ flight'.mode = "exchange" /\ flight'.dev = "MCU"
      /\ flight'.buf = idx
  BY <1>1 DEF StartSending, Awaiting
<1>3. tx'[flight'.buf] = Head(todo).v
  BY <1>1, <1>2
<1>4. \A word : Head(todo).v = word => Flying(word)'
  BY <1>2, <1>3 DEF Flying
<1>5. ~Flying(StartWord) /\ ~Flying(Boot!Zero)
  BY <1>1 DEF Flying, Busy
<1>6. SyncWait'
  <2>1. CASE todo = Starting /\ ExpectsStart
    <3>1. Flying(StartWord)'
      BY <2>1, <1>4, Scripts
    <3> QED BY <1>1, <2>1, <3>1 DEF SyncWait, ExpectsStart, Starting
  <2>2. CASE todo = Asking /\ ExpectsSkip
    <3>1. Flying(Boot!Zero)'
      BY <2>2, <1>4, Scripts
    <3> QED BY <1>1, <2>2, <3>1 DEF SyncWait, ExpectsSkip, Asking
  <2>3. CASE todo = Polling /\ (ExpectsSkip \/ ExpectsPoll)
    <3>1. Flying(Boot!Zero)'
      BY <2>3, <1>4, Scripts
    <3> QED BY <1>1, <2>3, <3>1 DEF SyncWait, ExpectsSkip, ExpectsPoll, Polling
  <2>4. CASE todo \in { Echoing, Refusing } /\ ExpectsEcho
    <3>1. Flying(Boot!Ack)'
      BY <2>4, <1>4, Scripts
    <3> QED BY <1>1, <2>4, <3>1 DEF SyncWait, ExpectsEcho, Echoing, Refusing
  <2> QED BY <1>5, <2>1, <2>2, <2>3, <2>4 DEF SyncBoot
<1>7. ~loader'.lost /\ ~loader'.wrong
  BY <1>1 DEF Awaiting
<1> QED BY <1>1, <1>2, <1>6, <1>7, BootKeeps DEF BootPCs

\* A word of the script has left.
LEMMA ArrivesSync ==
    ASSUME SyncInv, op.kind = "reset", pc = "boot_wait", SyncWait, Awaiting,
           Boot!ExchangeArrives, UNCHANGED << nativeOnly, resetOnly >>,
           answer.phase = "none"
    PROVE  SyncInv'
<1>1. /\ ~Busy /\ UNCHANGED << device, tx, rx, flight, calls, op, loader, intact >>
      /\ Head(todo).what \in { "skip", "echo", "exchange" } /\ Boot!Proceed
  BY SameLink DEF Boot!ExchangeArrives, Boot!Arrives
<1>2. ~Busy' /\ ~loader'.lost /\ ~loader'.wrong
  BY <1>1 DEF Busy, Awaiting
<1>3. ~Flying(StartWord) /\ ~Flying(Boot!Zero) /\ ~Flying(Boot!Ack)
  BY <1>1 DEF Flying, Busy
<1>4. todo \in { Starting, Asking, Polling, Echoing, Refusing }
  BY InScript
<1>5. CASE todo = Starting
  <2>1. ExpectsSkip
    BY <1>3, <1>4, <1>5, WhereItIs DEF SyncWait
  <2>2. todo' = Asking /\ pc' = "boot" /\ result' = result
    BY <1>1, <1>5, Scripts DEF Boot!Proceed
  <2>3. SyncBoot'
    BY <1>1, <1>2, <2>1, <2>2 DEF SyncBoot, ExpectsSkip, Asking
  <2> QED BY <1>1, <1>2, <2>2, <2>3, BootKeeps DEF BootPCs
<1>6. CASE todo = Asking
  <2>1. ExpectsPoll
    BY <1>3, <1>4, <1>6, WhereItIs DEF SyncWait
  <2>2. todo' = Polling /\ pc' = "boot" /\ result' = result
    BY <1>1, <1>6, Scripts DEF Boot!Proceed
  <2>3. SyncBoot'
    BY <1>1, <1>2, <2>1, <2>2 DEF SyncBoot, ExpectsPoll, Polling
  <2> QED BY <1>1, <1>2, <2>2, <2>3, BootKeeps DEF BootPCs
<1>7. CASE todo = Echoing
  <2>1. ExpectsFrame
    BY <1>3, <1>4, <1>7, WhereItIs DEF SyncWait
  <2>2. pc' = "idle"
    BY <1>1, <1>7, Scripts DEF Boot!Proceed
  <2>3. Synchronised'
    BY <1>1, <1>2, <2>1 DEF Synchronised, ExpectsFrame, Awaiting, resetOnly
  <2> QED BY <1>1, <1>2, <2>2, <2>3 DEF SyncInv, BootPCs, Awaiting, resetOnly,
      nativeOnly
<1> QED BY <1>1, <1>4, <1>5, <1>6, <1>7, WhereItIs

\* What came for it is an acknowledgement, a refusal, or neither yet.
LEMMA PollArrivesSync ==
    ASSUME SyncInv, op.kind = "reset", pc = "boot_wait", SyncWait, Awaiting,
           Boot!PollArrives, UNCHANGED << nativeOnly, resetOnly >>
    PROVE  SyncInv'
<1>1. /\ ~Busy /\ UNCHANGED << device, tx, rx, flight, calls, op, loader >>
      /\ Head(todo).what = "poll" /\ idx' = 1 - idx
  BY SameLink DEF Boot!PollArrives, Boot!Arrives, Flip
<1>2. ~Busy' /\ ~loader'.lost /\ ~loader'.wrong
  BY <1>1 DEF Busy, Awaiting
<1>3. todo = Polling
  BY <1>1, InScript, WhereItIs
<1>4. ~Flying(Boot!Zero)
  BY <1>1 DEF Flying, Busy
<1>5. (Heard /\ ExpectsEcho) \/ (~Heard /\ ExpectsPoll)
  BY <1>3, <1>4, InScript, WhereItIs DEF SyncWait
<1>6. Boot!Unit = rx[1 - idx][1]
  BY <1>1 DEF Boot!Unit
<1>7. CASE Boot!Fail
  BY <1>1, <1>7, FailIs, BootFails
<1>8. CASE Boot!Unit = Boot!Ack /\ intact' = intact /\ Boot!Proceed
  <2>1. ExpectsEcho
    BY <1>5, <1>6, <1>8 DEF Heard
  <2>2. todo' = Echoing /\ pc' = "boot" /\ result' = result
    BY <1>3, <1>8, Scripts DEF Boot!Proceed
  <2>3. SyncBoot'
    BY <1>1, <1>2, <2>1, <2>2 DEF SyncBoot, ExpectsEcho, Echoing
  <2> QED BY <1>1, <1>2, <1>8, <2>2, <2>3, BootKeeps DEF BootPCs
<1>9. CASE /\ Boot!Unit = Boot!Nack /\ intact' = intact /\ pc' = "boot"
           /\ result' = result
           /\ todo' = << Boot!Step("refused", Boot!Ack) >>
  <2>1. ExpectsEcho
    BY <1>5, <1>6, <1>9 DEF Heard
  <2>2. todo' = Refusing
    BY <1>9 DEF Refusing
  <2>3. SyncBoot'
    BY <1>1, <1>2, <2>1, <2>2 DEF SyncBoot, ExpectsEcho, Refusing
  <2> QED BY <1>1, <1>2, <1>9, <2>3, BootKeeps DEF BootPCs
<1>10. CASE /\ Boot!Unit \notin { Boot!Ack, Boot!Nack } /\ intact' = intact
            /\ pc' = "boot" /\ result' = result /\ todo' = todo
  <2>1. ExpectsPoll
    BY <1>5, <1>6, <1>10 DEF Heard
  <2>2. SyncBoot'
    BY <1>1, <1>2, <1>3, <1>10, <2>1 DEF SyncBoot, ExpectsPoll, Polling
  <2> QED BY <1>1, <1>2, <1>10, <2>2, BootKeeps DEF BootPCs
<1> QED BY <1>7, <1>8, <1>9, <1>10 DEF Boot!PollArrives

\* A word of the script could not be sent.
LEMMA BootTimesOutSync ==
    ASSUME SyncInv, op.kind = "reset", pc \in BootPCs, Awaiting,
           (pc = "boot" /\ SyncBoot) \/ (pc = "boot_wait" /\ SyncWait),
           Boot!TimesOut, UNCHANGED << nativeOnly, resetOnly >>,
           answer.phase = "none"
    PROVE  SyncInv'
<1>1. /\ Busy /\ op' = op /\ loader' = loader /\ UNCHANGED link
      /\ \/ /\ Head(todo).what \in { "skip", "echo" }
            /\ intact' = intact /\ Boot!Proceed
         \/ Boot!Fail
  <2>1. Busy /\ op' = op /\ loader' = loader /\ UNCHANGED link
    <3>1. Boot!link' = link'
      BY DEF Boot!link, link
    <3> QED BY <3>1, SameLink DEF Boot!TimesOut
  <2>2. \/ /\ Head(todo).what \in { "skip", "echo" }
           /\ intact' = intact /\ Boot!Proceed
        \/ Boot!Fail
    BY DEF Boot!TimesOut
  <2> QED BY <2>1, <2>2
<1>2. UNCHANGED << idx, device, tx, rx, flight >> /\ ~loader'.lost /\ ~loader'.wrong
  BY <1>1 DEF link, Awaiting
<1>3. todo \in { Starting, Asking, Polling, Echoing, Refusing }
  BY InScript
<1>4. CASE Boot!Fail
  BY <1>1, <1>4, FailIs, BootFails
<1>5. ASSUME todo = Starting, Boot!Proceed, intact' = intact PROVE SyncInv'
  <2>1. Flying(StartWord) /\ ExpectsStart
    BY <1>1, <1>3, <1>5, WhereItIs DEF SyncBoot, SyncWait
  <2>2. todo' = Asking /\ pc' = "boot" /\ result' = result
    BY <1>5, Scripts DEF Boot!Proceed
  <2>3. SyncBoot'
    BY <1>1, <1>2, <2>1, <2>2 DEF SyncBoot, Flying, ExpectsStart, Asking
  <2> QED BY <1>1, <1>2, <1>5, <2>2, <2>3, BootKeeps DEF BootPCs
<1>6. ASSUME todo = Asking, Boot!Proceed, intact' = intact PROVE SyncInv'
  <2>1. \/ Flying(StartWord) /\ ExpectsStart
        \/ Flying(Boot!Zero) /\ ExpectsSkip
    BY <1>1, <1>3, <1>6, WhereItIs DEF SyncBoot, SyncWait
  <2>2. todo' = Polling /\ pc' = "boot" /\ result' = result
    BY <1>6, Scripts DEF Boot!Proceed
  <2>3. SyncBoot'
    BY <1>1, <1>2, <2>1, <2>2 DEF SyncBoot, Flying, ExpectsStart, ExpectsSkip, Polling
  <2> QED BY <1>1, <1>2, <1>6, <2>2, <2>3, BootKeeps DEF BootPCs
<1>7. ASSUME todo = Echoing, Boot!Proceed, intact' = intact PROVE SyncInv'
  <2>1. Flying(Boot!Ack) /\ ExpectsEcho
    BY <1>1, <1>3, <1>7, WhereItIs DEF SyncBoot, SyncWait
  <2>2. pc' = "idle"
    BY <1>7, Scripts DEF Boot!Proceed
  <2>3. Synchronised'
    BY <1>1, <1>2, <2>1 DEF Synchronised, Flying, ExpectsEcho, Awaiting, resetOnly
  <2> QED
    BY <1>1, <1>2, <1>7, <2>2, <2>3 DEF SyncInv, BootPCs, Awaiting, resetOnly,
        nativeOnly
<1> QED BY <1>1, <1>3, <1>4, <1>5, <1>6, <1>7, WhereItIs

\* The steps of the boot loader's calls.
LEMMA BootStepSync ==
    ASSUME TypeInv, TypeInv', SyncInv, BootStep
    PROVE  SyncInv'
<1>1. CASE op.kind # "reset"
  BY <1>1, BootElse DEF SyncInv
<1>2. CASE op.kind = "reset"
  <2>1. pc \in BootPCs
    BY DEF BootStep, Boot!DriverStep, BootPCs, Boot!Arrives, Boot!FrameStart,
       Boot!SendStart, Boot!ExchangeStart, Boot!ReceiveStart, Boot!ExchangeArrives,
       Boot!ValueArrives, Boot!SizeArrives, Boot!ReceiveArrives, Boot!PollArrives,
       Boot!RefusedArrives, Boot!TimesOut, Boot!ReceiveTimesOut, Boot!ReceiveAborted
  <2>2. /\ Awaiting
        /\ (pc = "boot" /\ SyncBoot) \/ (pc = "boot_wait" /\ SyncWait)
    BY <1>2, <2>1 DEF SyncInv, Awaiting
  <2>3. /\ Head(todo).what \in { "skip", "poll", "echo", "refused" }
        /\ pc # "boot_abort"
    BY <2>2, InScript, WhereItIs
  <2>4. answer.phase = "none" /\ DOMAIN tx = { 0, 1 } /\ idx \in { 0, 1 }
    BY <2>1, <2>2 DEF TypeInv, ResetTypes, LinkInv, Awaiting
  <2>5. UNCHANGED << nativeOnly, resetOnly >>
    BY DEF BootStep
  <2>6. CASE Boot!ExchangeStart
    <3>1. pc = "boot"
      BY <2>6 DEF Boot!ExchangeStart
    <3> QED BY <1>2, <2>2, <2>4, <2>5, <2>6, <3>1, ExchangeStartSync
  <2>7. CASE Boot!ExchangeArrives
    <3>1. pc = "boot_wait"
      BY <2>7 DEF Boot!ExchangeArrives, Boot!Arrives
    <3> QED BY <1>2, <2>2, <2>4, <2>5, <2>7, <3>1, ArrivesSync
  <2>8. CASE Boot!PollArrives
    <3>1. pc = "boot_wait"
      BY <2>8 DEF Boot!PollArrives, Boot!Arrives
    <3> QED BY <1>2, <2>2, <2>5, <2>8, <3>1, PollArrivesSync
  <2>9. CASE Boot!RefusedArrives
    <3>1. op' = op /\ Boot!Fail
      BY <2>9 DEF Boot!RefusedArrives, Boot!Arrives
    <3> QED BY <3>1, FailIs, BootFails
  <2>10. CASE Boot!TimesOut
    BY <1>2, <2>1, <2>2, <2>4, <2>5, <2>10, BootTimesOutSync
  <2>11. ~Boot!FrameStart /\ ~Boot!SendStart /\ ~Boot!ReceiveStart
    BY <2>3 DEF Boot!FrameStart, Boot!SendStart, Boot!ReceiveStart
  <2>12. ~Boot!ValueArrives /\ ~Boot!SizeArrives /\ ~Boot!ReceiveArrives
    BY <2>3 DEF Boot!ValueArrives, Boot!SizeArrives, Boot!ReceiveArrives, Boot!Arrives
  <2>13. ~Boot!ReceiveTimesOut /\ ~Boot!ReceiveAborted
    BY <2>3 DEF Boot!ReceiveTimesOut, Boot!ReceiveAborted
  <2> QED
    BY <2>6, <2>7, <2>8, <2>9, <2>10, <2>11, <2>12, <2>13 DEF BootStep, Boot!DriverStep
<1> QED BY <1>1, <1>2

\* A word of the driver's has left, and something came in for it.
LEMMA BootTransferEndsSync ==
    ASSUME TypeInv, SyncInv, runs = "loader", Boot!TransferEnds,
           UNCHANGED << nativeOnly, resetOnly >>
    PROVE  SyncInv'
<1>1. /\ flight.dev = "MCU"
      /\ UNCHANGED << pc, calls, op, todo, retries, data, result, intact >>
  BY DEF Boot!TransferEnds
<1>2. Busy /\ flight.buf = 1 - idx /\ DOMAIN rx = { 0, 1 } /\ flight.buf \in { 0, 1 }
  BY <1>1 DEF TypeInv, LinkInv, NoFlight, Flights
<1>3. DOMAIN loader = LoaderFields
  BY DEF TypeInv, BootTypes
<1>4. ASSUME NEW received, Ends(received)
      PROVE  /\ ~Busy' /\ rx'[1 - idx'] = received /\ device' = device
  <2>1. rx' = [ rx EXCEPT ![1 - idx] = received ] /\ idx' = idx /\ flight' = NoFlight
        /\ device' = device
    BY <1>2, <1>4 DEF Ends
  <2> QED BY <1>2, <2>1 DEF Busy, NoFlight
<1>5. \A s : Boot!Ends(s) = Ends(s)
  BY SameLink
<1>6. CASE op.kind # "reset"
  BY <1>1, <1>6 DEF SyncInv
<1>7. CASE op.kind = "reset" /\ pc \in BootPCs
  <2>1. /\ Awaiting
        /\ (pc = "boot" /\ SyncBoot) \/ (pc = "boot_wait" /\ SyncWait)
    BY <1>7 DEF SyncInv, Awaiting
  <2>2. todo \in { Starting, Asking, Polling, Echoing, Refusing }
    BY <2>1, InScript
  <2>3. \E word : Flying(word)
    BY <1>2, <2>1 DEF SyncBoot, SyncWait
  <2>4. flight.mode = "exchange"
    BY <2>3 DEF Flying
  <2>5. PICK reply : Boot!Hears(tx[flight.buf], reply) /\ Ends(<< reply >>)
    BY <1>5, <2>4 DEF Boot!TransferEnds
  <2>6. ~Busy' /\ device' = device /\ rx'[1 - idx'][1] = reply
    BY <1>4, <2>5
  <2>7. \A word : Flying(word) => tx[flight.buf] = word
    BY DEF Flying
  <2> DEFINE word == tx[flight.buf]
  <2>8. ~loader.lost /\ ~loader.wrong
    BY <2>1 DEF Awaiting
  <2>9. /\ ExpectsStart /\ word = StartWord =>
              ExpectsSkip' /\ ~loader'.lost /\ ~loader'.wrong
        /\ ExpectsSkip =>
              ExpectsPoll' /\ ~loader'.lost /\ ~loader'.wrong /\ reply = Filler
        /\ ExpectsPoll =>
              /\ ~loader'.lost /\ ~loader'.wrong
              /\ \/ reply \in { Boot!Ack, Boot!Nack } /\ ExpectsEcho'
                 \/ reply \notin { Boot!Ack, Boot!Nack } /\ ExpectsPoll'
        /\ ExpectsEcho /\ word = Boot!Ack =>
              ExpectsFrame' /\ ~loader'.lost /\ ~loader'.wrong
    BY <1>3, <2>5, <2>8, HearsExpected
  <2> HIDE DEF word
  <2>10. Heard' <=> reply \in { Boot!Ack, Boot!Nack }
    BY <2>6 DEF Heard, Boot!Ack, Boot!Nack
  <2>11. \A w : Flying(w) => word = w
    BY <2>7 DEF word
  <2>12. CASE pc = "boot" /\ SyncBoot
    <3>1. CASE todo \in { Asking, Polling } /\ Flying(StartWord) /\ ExpectsStart
      <4>1. ExpectsSkip' /\ ~loader'.lost /\ ~loader'.wrong
        BY <2>9, <2>11, <3>1
      <4>2. SyncBoot'
        BY <1>1, <2>6, <3>1, <4>1 DEF SyncBoot, Asking, Polling
      <4> QED BY <1>1, <1>7, <2>1, <2>6, <2>12, <4>1, <4>2, BootKeeps DEF BootPCs
    <3>2. CASE todo = Polling /\ Flying(Boot!Zero) /\ ExpectsSkip
      <4>1. ExpectsPoll' /\ ~loader'.lost /\ ~loader'.wrong
        BY <2>9, <3>2
      <4>2. SyncBoot'
        BY <1>1, <2>6, <3>2, <4>1 DEF SyncBoot, Polling
      <4> QED BY <1>1, <1>7, <2>1, <2>6, <2>12, <4>1, <4>2, BootKeeps DEF BootPCs
    <3> QED BY <1>2, <2>12, <3>1, <3>2 DEF SyncBoot
  <2>13. CASE pc = "boot_wait" /\ SyncWait
    <3>1. SyncWait' /\ ~loader'.lost /\ ~loader'.wrong
      <4>1. CASE todo = Starting /\ Flying(StartWord) /\ ExpectsStart
        BY <1>1, <2>6, <2>9, <2>11, <4>1 DEF SyncWait, Starting
      <4>2. CASE todo = Asking /\ Flying(Boot!Zero) /\ ExpectsSkip
        BY <1>1, <2>6, <2>9, <4>2 DEF SyncWait, Asking
      <4>3. CASE todo = Polling /\ Flying(Boot!Zero) /\ ExpectsSkip
        <5>1. ~Heard' /\ ExpectsPoll' /\ ~loader'.lost /\ ~loader'.wrong
          BY <2>9, <2>10, <4>3, Replies
        <5> QED BY <1>1, <2>6, <4>3, <5>1 DEF SyncWait, Polling
      <4>4. CASE todo = Polling /\ Flying(Boot!Zero) /\ ExpectsPoll
        <5>1. /\ (Heard' /\ ExpectsEcho') \/ (~Heard' /\ ExpectsPoll')
              /\ ~loader'.lost /\ ~loader'.wrong
          BY <2>9, <2>10, <4>4
        <5> QED BY <1>1, <2>6, <4>4, <5>1 DEF SyncWait, Polling
      <4>5. CASE todo \in { Echoing, Refusing } /\ Flying(Boot!Ack) /\ ExpectsEcho
        <5>1. ExpectsFrame' /\ ~loader'.lost /\ ~loader'.wrong
          BY <2>9, <2>11, <4>5
        <5> QED BY <1>1, <2>6, <4>5, <5>1 DEF SyncWait, Echoing, Refusing
      <4> QED BY <1>2, <2>13, <4>1, <4>2, <4>3, <4>4, <4>5 DEF SyncWait
    <3> QED BY <1>1, <1>7, <2>1, <2>6, <2>13, <3>1, BootKeeps DEF BootPCs
  <2> QED BY <2>1, <2>12, <2>13
<1>8. CASE op.kind = "reset" /\ pc \notin BootPCs
  <2>1. CASE result[1] # "true"
    BY <1>1, <1>8, <2>1 DEF SyncInv
  <2>2. CASE result[1] = "true"
    <3>1. /\ pc = "idle" /\ answer.phase = "none" /\ intact /\ want
          /\ ~loader.lost /\ ~loader.wrong /\ ExpectsEcho /\ Flying(Boot!Ack)
      BY <1>1, <1>2, <1>8, <2>2 DEF SyncInv, Synchronised
    <3>2. flight.mode = "exchange" /\ tx[flight.buf] = Boot!Ack
      BY <3>1 DEF Flying
    <3>3. PICK reply : Boot!Hears(tx[flight.buf], reply) /\ Ends(<< reply >>)
      BY <1>5, <3>2 DEF Boot!TransferEnds
    <3>4. ExpectsFrame' /\ ~loader'.lost /\ ~loader'.wrong
      BY <1>3, <3>1, <3>2, <3>3, HearsExpected
    <3>5. ~Busy'
      BY <1>4, <3>3
    <3>6. Synchronised'
      BY <3>1, <3>4, <3>5 DEF Synchronised, resetOnly
    <3> QED BY <1>1, <1>8, <3>1, <3>4, <3>6 DEF SyncInv, resetOnly, nativeOnly, BootPCs
  <2> QED BY <2>1, <2>2
<1> QED BY <1>6, <1>7, <1>8

\* Nothing is stopped half-way between a reset and the first command.
LEMMA BootTransferStopsSync ==
    ASSUME TypeInv, SyncInv, runs = "loader", Boot!TransferStops,
           UNCHANGED << nativeOnly, resetOnly >>
    PROVE  SyncInv'
<1>1. /\ flight.stop /\ flight.dev = "MCU"
      /\ UNCHANGED << pc, op, todo, result, intact >>
  BY DEF Boot!TransferStops
<1>2. ~intact /\ Busy
  BY <1>1 DEF TypeInv, LinkInv, NoFlight
<1>3. op.kind = "reset" => pc \notin BootPCs /\ result[1] # "true"
  BY <1>2 DEF SyncInv
<1> QED BY <1>1, <1>3 DEF SyncInv

\* What the firmware and others do, while no call of the boot loader is made.
LEMMA HardwareSync ==
    ASSUME TypeInv, SyncInv,
           \/ runs = "firmware" /\ Native!HardwareStep
           \/ Native!OtherTransferEnds,
           UNCHANGED << bootOnly, resetOnly >>
    PROVE  SyncInv'
<1>1. UNCHANGED << pc, result, answer, intact, op, todo, loader, want, runs >>
  BY DEF Native!HardwareStep, Native!TransferEnds, Native!TransferStops,
     Native!OtherTransferEnds, Native!FirmwareAnswers, Native!nativeVars, bootOnly,
     resetOnly
<1>2. CASE op.kind # "reset"
  BY <1>1, <1>2 DEF SyncInv
<1>3. CASE op.kind = "reset" /\ result[1] # "true" /\ pc \notin BootPCs
  BY <1>1, <1>3 DEF SyncInv
<1>4. CASE op.kind = "reset" /\ pc \in BootPCs
  <2>1. Native!OtherTransferEnds
    BY <1>4 DEF SyncInv
  <2>2. Busy /\ flight.dev # "MCU"
    BY <2>1, SameLink DEF Native!OtherTransferEnds
  <2>3. \E word : Flying(word)
    BY <1>4, <2>2 DEF SyncInv, SyncBoot, SyncWait
  <2> QED BY <2>2, <2>3 DEF Flying
<1>5. CASE op.kind = "reset" /\ result[1] = "true"
  <2>1. /\ pc = "idle" /\ answer.phase = "none" /\ intact
        /\ runs = (IF want THEN "loader" ELSE "firmware")
        /\ want => ~loader.lost /\ ~loader.wrong
        /\ Synchronised
    BY <1>5 DEF SyncInv
  <2>2. CASE Native!OtherTransferEnds
    <3>1. Busy /\ flight.dev # "MCU" /\ Ends(<< Filler >>) /\ firm' = firm
      BY <2>2, SameLink DEF Native!OtherTransferEnds, Native!nativeVars
    <3>2. ~Busy'
      BY <3>1 DEF Ends, Busy, NoFlight
    <3>3. ~Flying(Boot!Ack)
      BY <3>1 DEF Flying
    <3>4. Synchronised'
      BY <1>1, <2>1, <3>1, <3>2, <3>3 DEF Synchronised, ExpectsFrame
    <3> QED BY <1>1, <2>1, <3>4 DEF SyncInv, BootPCs
  <2>3. CASE runs = "firmware" /\ Native!HardwareStep /\ ~Native!OtherTransferEnds
    <3>1. firm = Native!Fresh /\ (Busy => flight.dev # "MCU")
      BY <2>1, <2>3 DEF Synchronised
    <3>2. ~firm.work
      BY <3>1 DEF Native!Fresh
    <3>3. flight.dev # "MCU"
      BY <3>1 DEF TypeInv, LinkInv, NoFlight
    <3> QED BY <2>3, <3>2, <3>3 DEF Native!HardwareStep, Native!TransferEnds,
                                    Native!TransferStops, Native!FirmwareAnswers
  <2> QED BY <2>2, <2>3
<1> QED BY <1>2, <1>3, <1>4, <1>5

\* A step that changes nothing.
LEMMA SyncStutters ==
    ASSUME SyncInv, UNCHANGED vars
    PROVE  SyncInv'
<1>1. UNCHANGED << idx, device, tx, rx, flight, pc, result, answer, intact, op, todo,
                   loader, want, runs, firm >>
  BY DEF vars, link, shared, nativeOnly, bootOnly, resetOnly
<1>2. Busy' = Busy
  BY <1>1 DEF Busy
<1>3. \A word : Flying(word)' = Flying(word)
  BY <1>1 DEF Flying
<1>4. SyncBoot' = SyncBoot
  BY <1>1, <1>2, <1>3 DEF SyncBoot, ExpectsStart, ExpectsSkip, ExpectsPoll, ExpectsEcho,
     Starting, Asking, Polling, Echoing, Refusing
<1>5. Heard' = Heard
  BY <1>1 DEF Heard
<1>6. SyncWait' = SyncWait
  BY <1>1, <1>2, <1>3, <1>5 DEF SyncWait, ExpectsStart, ExpectsSkip, ExpectsPoll,
     ExpectsEcho, ExpectsFrame, Starting, Asking, Polling, Echoing, Refusing
<1>7. Synchronised' = Synchronised
  BY <1>1, <1>2, <1>3 DEF Synchronised, ExpectsFrame, ExpectsEcho
<1> QED BY <1>1, <1>4, <1>6, <1>7 DEF SyncInv

\* Before the first call.
LEMMA SyncInit == Init => SyncInv
BY DEF Init, Native!Init, Boot!Init, Boot!NoOp, SyncInv, BootPCs

\* No step breaks the invariant.
LEMMA SyncStep == TypeInv /\ TypeInv' /\ SyncInv /\ [Next]_vars => SyncInv'
<1> SUFFICES ASSUME TypeInv, TypeInv', SyncInv, [Next]_vars PROVE SyncInv'
  OBVIOUS
<1>1. CASE Client
  BY <1>1, ClientSync
<1>2. CASE DriverStep
  BY <1>2, NativeStepSync, BootStepSync, ResetSync, RestartSync DEF DriverStep
<1>3. CASE HardwareStep
  <2>1. CASE /\ runs = "loader" /\ Boot!HardwareStep
             /\ UNCHANGED << nativeOnly, resetOnly >>
    BY <2>1, BootTransferEndsSync, BootTransferStopsSync DEF Boot!HardwareStep
  <2> QED BY <1>3, <2>1, HardwareSync DEF HardwareStep
<1>4. CASE UNCHANGED vars
  BY <1>4, SyncStutters
<1> QED BY <1>1, <1>2, <1>3, <1>4 DEF Next

\* The invariant says what ResetSynchronises does.
LEMMA SyncIsListening == TypeInv /\ SyncInv => ResetSynchronises
<1> SUFFICES ASSUME TypeInv, SyncInv, pc = "idle", op.kind = "reset",
                    result = << "true" >>
             PROVE  /\ runs = (IF want THEN "loader" ELSE "firmware")
                    /\ want => /\ ~loader.lost
                               /\ loader.expect \in
                                    { << "frame" >> }
                                        \cup (IF Busy THEN { << "echo" >> } ELSE {})
                    /\ ~want => firm = Native!Fresh
  BY DEF ResetSynchronises
<1>1. result[1] = "true"
  OBVIOUS
<1>2. /\ runs = (IF want THEN "loader" ELSE "firmware")
      /\ want => ~loader.lost
      /\ Synchronised
  BY <1>1 DEF SyncInv
<1>3. Flying(Boot!Ack) => Busy
  BY DEF Flying, Busy
<1> QED BY <1>2, <1>3 DEF Synchronised, ExpectsFrame, ExpectsEcho

\* A reset that returns true leaves the MCU running what was asked for and listening
\* for its first command, at whatever point the calls before it were cut off, and
\* however long the boot loader took to answer (nile_mcu_reset.c,
\* nile_mcu_boot_common.c).
THEOREM ResetLeavesMcuListening == Spec => []ResetSynchronises
<1>1. Init => SyncInv
  BY SyncInit
<1>2. TypeInv /\ TypeInv' /\ SyncInv /\ [Next]_vars => SyncInv'
  BY SyncStep
<1>3. TypeInv /\ SyncInv => ResetSynchronises
  BY SyncIsListening
<1> QED BY <1>1, <1>2, <1>3, McuTypeInv, PTL DEF Spec

----------------------------------------------------------------------------
(***************************************************************************)
(* Answers are those of their own command.                                 *)
(***************************************************************************)
\* The buffers that programs pass are not larger than those of the SPI controller,
\* which has 512 bytes (spi.h), and a value with its header is smaller still.
Roomy == Window >= 3 /\ Rooms \subseteq 0 .. Window

\* The firmware has nothing to say, and waits for a command if it hears at all.
Silent == firm.need = << >> /\ ~firm.work /\ firm.out = << >>
Deaf   == ~firm.awake /\ Silent

\* It is at the present command, and waits for parts of it, works on it, or has
\* still to say what is left of the answer.
OfCall == firm.awake /\ firm.cmd = calls
Waiting(parts) ==
    \/ Deaf
    \/ /\ OfCall /\ firm.need = parts /\ ~firm.work /\ firm.out = << >>
       /\ firm.how = call.how /\ firm.most = call.room
\* It works on the present command.
Working ==
    /\ OfCall /\ firm.need = << >> /\ firm.work /\ firm.out = << >>
    /\ firm.how = call.how /\ firm.most = call.room
\* It has answered, and this is still to be read.
Left(rest) == OfCall /\ firm.need = << >> /\ ~firm.work /\ firm.out = rest

\* What its answer can be: what was asked for in advance fits.
HeaderOK ==
    /\ firm.len \in Lengths /\ firm.flags \in Flags
    /\ call.how = "start" => firm.len <= call.room

\* The header of its answer, the answer and the data behind the header.
Header(err) == << "header", err, firm.len, firm.flags >>
AnswerOf(err) == Native!Answer(calls, err, firm.len, firm.flags)
Data        == Native!Own(calls, firm.len)

\* Of the present command it has answered, and nothing was read; or it owes that.
Answered == \E err \in BOOLEAN : HeaderOK /\ Left(AnswerOf(err))
Owes == Deaf \/ Working \/ Answered

\* The words of the present call.
TheCommand  == << "cmd", calls, call >>
TheArgument == << "argument", calls >>
TheBlock    == << "block", calls >>

\* This word is on its way; so many units are asked for.
Sending(word) ==
    /\ flight.mode = "write" /\ flight.dev = "MCU"
    /\ tx[flight.buf] = word
Reading(mode, n) ==
    flight.mode = mode /\ flight.dev = "MCU" /\ flight.n = n

\* Nothing of a command is left: what may be in flight is for others, the rest of
\* an answer, or the command that ends the protocol.
Settled ==
    \/ Silent /\ (Busy => flight.dev # "MCU")
    \/ /\ firm.need = << >> /\ ~firm.work
       /\ Reading("read", Len(firm.out))
    \/ /\ Silent /\ flight.mode = "write" /\ flight.dev = "MCU"
       /\ tx[flight.buf][1] = "cmd" /\ tx[flight.buf][3].how = "mode"

\* The last part of the command is on its way, or has arrived.
Sent ==
    /\ device = "MCU"
    /\ \/ ~call.arg /\ Sending(TheCommand) /\ Silent
       \/ call.arg /\ ~call.block /\ Sending(TheArgument) /\ Waiting(<< "argument" >>)
       \/ call.block /\ Sending(TheBlock) /\ Waiting(<< "block" >>)
       \/ ~Busy /\ Owes

\* The answer is waited for, or has come: all of it, or its header.
Started ==
    \/ Reading("wait_read", 1 + call.room) /\ Owes
    \/ /\ ~Busy /\ Left(<< >>)
       /\ \E err \in BOOLEAN :
            HeaderOK /\ rx[1 - idx] = Units(AnswerOf(err), 1 + call.room)
\* The header of the answer is waited for, or has come.
Heading ==
    \/ Reading("wait_read", 1) /\ Owes
    \/ /\ ~Busy /\ Left(Data)
       /\ \E err \in BOOLEAN : HeaderOK /\ rx[1 - idx] = << Header(err) >>

\* The length is cut to the caller's buffer.
Cut == IF firm.len < call.room THEN firm.len ELSE call.room
IsCut == firm.len \in Nat /\ room = Cut /\ left = firm.len - Cut
Rest == After(Data, room)
\* The data are on their way, or have come.
Coming ==
    \/ Reading("read", room) /\ Left(Data)
    \/ ~Busy /\ Left(Rest) /\ rx[1 - idx] = Native!Own(calls, room)

\* The command is on its way, or has arrived, and its argument is next.
Telling ==
    /\ tx[idx] = TheArgument
    /\ \/ Sending(TheCommand) /\ Silent
       \/ ~Busy /\ Waiting(Native!Parts(call))
\* The argument is, and the block is next.
TellingMore ==
    /\ tx[idx] = TheBlock
    /\ \/ Sending(TheArgument) /\ Waiting(<< "argument", "block" >>)
       \/ ~Busy /\ Waiting(<< "block" >>)

\* Between two calls nothing of a command is left, or what was asked for in advance.
Between ==
    /\ answer.phase = "none" => Settled
    /\ answer.phase = "sent" => call.how = "start" /\ Sent
    /\ answer.phase = "started" => call.how = "start" /\ Started

\* Where the two sides are at each point of a call.
Stage ==
    /\ pc \in { "idle", "reset" } => Between
    /\ pc \in { "control", "restore" } => Settled
    /\ pc = "command" => Settled /\ tx[idx] = TheCommand
    /\ pc = "argument" => call.arg /\ Telling
    /\ pc = "block" => device = "MCU" /\ call.block /\ TellingMore
    /\ pc = "request" => call.how = "start" /\ Sent
    /\ pc = "finish" => call.how = "start" /\ Started
    /\ pc = "header" => call.how \notin { "start", "mode" } /\ Sent
    /\ pc = "header_wait" =>
          call.how \notin { "start", "mode" } /\ device = "MCU" /\ Heading
    /\ pc \in { "data", "data_wait", "skip" } => result = << "header", firm.flags >>
    /\ pc = "data" =>
          device = "MCU" /\ ~Busy /\ IsCut /\ room > 0 /\ Left(Data)
    /\ pc = "data_wait" => device = "MCU" /\ IsCut /\ room > 0 /\ Coming
    /\ pc = "skip" =>
          /\ device = "MCU" /\ ~Busy /\ IsCut /\ left > 0 /\ Left(Rest)
          /\ buffer = Native!Own(calls, room)
    /\ pc \in { "control", "command", "argument", "block", "header", "header_wait" } =>
          buffer = << >>
    /\ pc \notin { "header_abort", "data_abort" }

\* Something of an answer was returned.
Returned == result[1] \in { "count", "value" }

\* What is returned of an answer is of this one.
ResultOK ==
    Returned =>
        /\ pc \in { "idle", "restore" } /\ answer.phase = "none"
        /\ firm.cmd = calls /\ firm.len \in Nat
        /\ buffer = Native!Own(calls, Cut)
        /\ result = IF result[1] = "count"
                    THEN << "count", Native!Received(Cut, firm.flags) >>
                    ELSE << "value", Native!Value(buffer) >>
        /\ flight.mode # "write"

\* What is so in a program's native calls, while none was cut off half-way.
Along ==
    /\ Stage /\ ResultOK /\ firm.own
    /\ answer.phase # "none" => answer.room = call.room

\* The inductive invariant: at the boot loader nothing of it all is there.
NativeInv ==
    /\ runs = "firmware" /\ intact => Along
    /\ runs = "loader" => firm = Native!Fresh /\ ~Returned
    /\ pc \in { "reset", "reset_low" } => ~Returned
----------------------------------------------------------------------------
(***************************************************************************)
(* What is read of an answer, and what is left of it.                      *)
(***************************************************************************)
\* What is left of a sequence.
LEMMA AfterIs ==
    ASSUME NEW S, NEW s \in Seq(S), NEW n \in Nat
    PROVE  /\ n >= Len(s) => After(s, n) = << >>
           /\ n <= Len(s) =>
                /\ After(s, n) \in Seq(S) /\ Len(After(s, n)) = Len(s) - n
                /\ \A i \in 1 .. Len(s) - n : After(s, n)[i] = s[n + i]
<1>1. Len(s) \in Nat
  BY LenProperties
<1> DEFINE t == SubSeq(s, n + 1, Len(s))
<1>2. \A i \in n + 1 .. Len(s) : s[i] \in S
  BY <1>1, ElementOfSeq
<1>3. /\ t \in Seq(S)
      /\ Len(t) = IF n + 1 <= Len(s) THEN Len(s) - (n + 1) + 1 ELSE 0
      /\ \A i \in 1 .. Len(s) - (n + 1) + 1 : t[i] = s[(n + 1) + i - 1]
  BY <1>1, <1>2, SubSeqProperties
<1> HIDE DEF t
<1>4. n >= Len(s) => Len(t) = 0
  BY <1>1, <1>3
<1>5. Len(t) = 0 => t = << >>
  BY <1>3, EmptySeq
<1>6. \A m \in Nat : \A i \in 1 .. m - n : /\ i \in 1 .. m - (n + 1) + 1
                                            /\ (n + 1) + i - 1 = n + i
  OBVIOUS
<1>7. \A i \in 1 .. Len(s) - n : t[i] = s[n + i]
  BY <1>1, <1>3, <1>6
<1>8. n <= Len(s) => Len(t) = Len(s) - n
  BY <1>1, <1>3
<1> QED BY <1>3, <1>4, <1>5, <1>7, <1>8 DEF After, t

\* Sequences are equal that have the same elements.
LEMMA SameSeq ==
    ASSUME NEW S, NEW s \in Seq(S), NEW T, NEW t \in Seq(T), Len(s) = Len(t),
           \A i \in 1 .. Len(s) : s[i] = t[i]
    PROVE  s = t
<1>1. s = [ i \in 1 .. Len(s) |-> s[i] ] /\ t = [ i \in 1 .. Len(t) |-> t[i] ]
  BY LenProperties
<1> QED BY <1>1

\* What is read of a stream.
LEMMA UnitsAre ==
    ASSUME NEW s, NEW n \in Nat
    PROVE  /\ Units(s, n) \in Seq(UNION { { Units(s, n)[i] } : i \in 1 .. n })
           /\ Len(Units(s, n)) = n
           /\ \A i \in 1 .. n : Units(s, n)[i] = IF i <= Len(s) THEN s[i] ELSE Filler
BY DEF Units

\* The data of an answer.
LEMMA OwnIs ==
    ASSUME NEW k, NEW n \in Nat
    PROVE  /\ Native!Own(k, n) \in Seq({ << "data", k, i >> : i \in Nat })
           /\ Len(Native!Own(k, n)) = n
           /\ \A i \in 1 .. n : Native!Own(k, n)[i] = << "data", k, i >>
           /\ n = 0 => Native!Own(k, n) = << >>
<1>1. \A i \in 1 .. n : << "data", k, i >> \in { << "data", k, j >> : j \in Nat }
  OBVIOUS
<1>2. /\ Native!Own(k, n) \in Seq({ << "data", k, i >> : i \in Nat })
      /\ Len(Native!Own(k, n)) = n
      /\ \A i \in 1 .. n : Native!Own(k, n)[i] = << "data", k, i >>
  BY <1>1 DEF Native!Own
<1>3. n = 0 => Native!Own(k, n) = << >>
  BY <1>2, EmptySeq
<1> QED BY <1>2, <1>3

\* An answer is read up to what it is cut to, and what is left of it.
LEMMA OwnCut ==
    ASSUME NEW k, NEW n \in Nat, NEW m \in 0 .. n
    PROVE  /\ Units(Native!Own(k, n), m) = Native!Own(k, m)
           /\ Len(After(Native!Own(k, n), m)) = n - m
           /\ m = n => After(Native!Own(k, n), m) = << >>
           /\ After(Native!Own(k, n), 0) = Native!Own(k, n)
<1> DEFINE s == Native!Own(k, n)
           S == { << "data", k, i >> : i \in Nat }
<1>1. /\ s \in Seq(S) /\ Len(s) = n /\ \A i \in 1 .. n : s[i] = << "data", k, i >>
  BY OwnIs
<1> HIDE DEF s, S
<1>2. Units(s, m) = Native!Own(k, m)
  BY <1>1 DEF Units, Native!Own
<1>3. m \in Nat /\ 0 \in Nat /\ m <= n /\ 0 <= n /\ n - 0 = n
  OBVIOUS
<1>4. Len(After(s, m)) = n - m /\ (m = n => After(s, m) = << >>)
  BY <1>1, <1>3, AfterIs
<1>5. /\ After(s, 0) \in Seq(S) /\ Len(After(s, 0)) = n
      /\ \A i \in 1 .. n : After(s, 0)[i] = s[0 + i]
  <2>1. 0 <= Len(s) /\ Len(s) - 0 = n
    BY <1>1
  <2>2. 0 <= Len(s) => /\ After(s, 0) \in Seq(S) /\ Len(After(s, 0)) = Len(s) - 0
                       /\ \A i \in 1 .. Len(s) - 0 : After(s, 0)[i] = s[0 + i]
    BY <1>1, <1>3, AfterIs
  <2> QED BY <2>1, <2>2
<1>6. \A i \in 1 .. n : After(s, 0)[i] = s[i]
  BY <1>5
<1>7. After(s, 0) = s
  BY <1>1, <1>5, <1>6, SameSeq
<1> QED BY <1>2, <1>4, <1>7 DEF s

\* The header of an answer, and what follows it.
LEMMA AnswerCut ==
    ASSUME NEW k \in Nat, NEW err \in BOOLEAN, NEW n \in Lengths,
           NEW f \in Flags, NEW r \in Nat
    PROVE  LET a == Native!Answer(k, err, n, f) IN
           /\ Len(a) = n + 1 /\ a # << >>
           /\ Units(a, 1) = << << "header", err, n, f >> >>
           /\ After(a, 1) = Native!Own(k, n)
           /\ n <= r => After(a, 1 + r) = << >>
           /\ Units(a, 1 + r)[1] = << "header", err, n, f >>
           /\ n <= r => Units(After(Units(a, 1 + r), 1), n) = Native!Own(k, n)
<1> DEFINE a == Native!Answer(k, err, n, f)
           h == << "header", err, n, f >>
<1>1. n \in Nat
  BY ConstantsNat
<1>2. /\ a \in Seq(Said) /\ Len(a) = n + 1 /\ a[1] = h
      /\ \A i \in 1 .. n : a[i + 1] = << "data", k, i >>
  BY AnswerSaid
<1> HIDE DEF a, h
<1>3. a # << >>
  BY <1>1, <1>2
<1>4. Units(a, 1) = << h >>
  <2>1. Units(a, 1) = [ i \in 1 .. 1 |-> IF i <= n + 1 THEN a[i] ELSE Filler ]
    BY <1>2 DEF Units
  <2>2. << h >> = [ i \in 1 .. 1 |-> h ]
    OBVIOUS
  <2>3. \A i \in 1 .. 1 : (IF i <= n + 1 THEN a[i] ELSE Filler) = h
    BY <1>1, <1>2
  <2> QED BY <2>1, <2>2, <2>3
<1>5. After(a, 1) = Native!Own(k, n)
  <2>1. 1 \in Nat /\ 1 <= n + 1 /\ (n + 1) - 1 = n
    BY <1>1
  <2>2. /\ After(a, 1) \in Seq(Said) /\ Len(After(a, 1)) = n
        /\ \A i \in 1 .. n : After(a, 1)[i] = a[1 + i]
    <3>1. 1 <= Len(a) => /\ After(a, 1) \in Seq(Said) /\ Len(After(a, 1)) = Len(a) - 1
                         /\ \A i \in 1 .. Len(a) - 1 : After(a, 1)[i] = a[1 + i]
      <4>1. 1 \in Nat
        OBVIOUS
      <4> QED BY <1>2, <4>1, AfterIs
    <3>2. 1 <= Len(a) /\ Len(a) - 1 = n
      BY <1>2, <2>1
    <3> QED BY <3>1, <3>2
  <2>3. \A i \in 1 .. n : 1 + i = i + 1
    BY <1>1
  <2> DEFINE d == Native!Own(k, n)
             D == { << "data", k, i >> : i \in Nat }
  <2>4. d \in Seq(D) /\ Len(d) = n /\ \A i \in 1 .. n : d[i] = << "data", k, i >>
    BY <1>1, OwnIs
  <2> HIDE DEF d, D
  <2>5. \A i \in 1 .. n : After(a, 1)[i] = d[i]
    BY <1>2, <2>2, <2>3, <2>4
  <2>6. After(a, 1) = d
    BY <2>2, <2>4, <2>5, SameSeq
  <2> QED BY <2>6 DEF d
<1>6. n <= r => After(a, 1 + r) = << >>
  BY <1>1, <1>2, AfterIs
<1> DEFINE u == Units(a, 1 + r)
           U == UNION { { u[i] } : i \in 1 .. 1 + r }
<1>7. /\ u \in Seq(U) /\ Len(u) = 1 + r
      /\ \A i \in 1 .. 1 + r : u[i] = IF i <= n + 1 THEN a[i] ELSE Filler
  <2>1. 1 + r \in Nat
    OBVIOUS
  <2> QED BY <1>2, <2>1, UnitsAre
<1> HIDE DEF u, U
<1>8. u[1] = h
  BY <1>1, <1>2, <1>7
<1>9. ASSUME n <= r PROVE Units(After(u, 1), n) = Native!Own(k, n)
  <2>1. 1 \in Nat /\ 1 <= 1 + r /\ (1 + r) - 1 = r
    BY <1>1
  <2>2. /\ Len(After(u, 1)) = r
        /\ \A i \in 1 .. r : After(u, 1)[i] = u[1 + i]
    <3>1. 1 <= Len(u) => /\ Len(After(u, 1)) = Len(u) - 1
                         /\ \A i \in 1 .. Len(u) - 1 : After(u, 1)[i] = u[1 + i]
      <4>1. 1 \in Nat
        OBVIOUS
      <4> QED BY <1>7, <4>1, AfterIs
    <3>2. 1 <= Len(u) /\ Len(u) - 1 = r
      BY <1>7, <2>1
    <3> QED BY <3>1, <3>2
  <2>3. \A i \in 1 .. n : /\ i <= r /\ i \in 1 .. r
                          /\ 1 + i \in 1 .. 1 + r /\ 1 + i <= n + 1 /\ 1 + i = i + 1
    BY <1>1, <1>9
  <2>4. \A i \in 1 .. n : After(u, 1)[i] = << "data", k, i >>
    BY <1>2, <1>7, <2>2, <2>3
  <2>5. Units(After(u, 1), n) = [ i \in 1 .. n |-> << "data", k, i >> ]
    BY <2>2, <2>3, <2>4 DEF Units
  <2> QED BY <2>5 DEF Native!Own
<1> QED BY <1>2, <1>3, <1>4, <1>5, <1>6, <1>8, <1>9 DEF a, h, u

\* What a call gives of the data is the number of them, or the value.
LEMMA GivenIs ==
    ASSUME NEW gives, NEW k, NEW n \in Nat, NEW f,
           Native!Given(gives, Native!Own(k, n), f)[1] \in { "count", "value" }
    PROVE  LET d == Native!Own(k, n)
               g == Native!Given(gives, d, f)
           IN  g = IF g[1] = "count" THEN << "count", Native!Received(n, f) >>
                                     ELSE << "value", Native!Value(d) >>
<1> DEFINE d == Native!Own(k, n)
           g == Native!Given(gives, d, f)
           c == Native!Received(n, f)
<1>1. Len(d) = n
  BY OwnIs
<1>2. g \in { << "zero" >>, << "none" >>, << "value", Native!Value(d) >>,
             << "count", c >> }
  <2>1. Native!Received(Len(d), f) = c
    BY <1>1
  <2> HIDE DEF c, d
  <2> QED BY <2>1 DEF Native!Given
<1> HIDE DEF g, d, c
<1>3. g[1] \in { "count", "value" }
  BY DEF g, d
<1>4. g = IF g[1] = "count" THEN << "count", c >> ELSE << "value", Native!Value(d) >>
  BY <1>2, <1>3
<1> QED BY <1>4 DEF g, d, c
----------------------------------------------------------------------------
(***************************************************************************)
(* What the firmware hears.                                                *)
(***************************************************************************)
\* The answer to any call fits in a transfer, its header too where they come
\* together.
Fits(c) == c.room \in 0 .. Window /\ (c.how = "start" => 1 + c.room <= Window)

\* Whatever Sync describes fits if its buffer does.
LEMMA SyncFits ==
    ASSUME NEW arg \in BOOLEAN, NEW block \in BOOLEAN, NEW n \in 0 .. Window,
           NEW gives
    PROVE  LET c == Native!Sync(arg, block, n, gives) IN
           /\ Fits(c)
           /\ \A how : (how = "start" => 1 + n <= Window)
                            => Fits([ c EXCEPT !.how = how ])
BY DEF Fits, Native!Sync

\* So does every call (mcu/system.h, eeprom.h, rtc.h, cdc.h).
LEMMA CallsFit == Roomy => \A c \in Native!Calls : Fits(c)
<1> SUFFICES ASSUME Roomy, NEW c \in Native!Calls PROVE Fits(c)
  OBVIOUS
<1>1. /\ 0 \in 0 .. Window /\ 1 \in 0 .. Window /\ 2 \in 0 .. Window
      /\ 1 + 0 <= Window /\ 1 + 2 <= Window /\ Rooms \subseteq 0 .. Window
  BY ConstantsNat DEF Roomy
<1>8. ASSUME NEW arg \in BOOLEAN, NEW block \in BOOLEAN, NEW n \in 0 .. Window,
           NEW gives
      PROVE  /\ Fits(Native!Sync(arg, block, n, gives))
             /\ \A how : (how = "start" => 1 + n <= Window) =>
                    Fits([ Native!Sync(arg, block, n, gives) EXCEPT !.how = how ])
  BY SyncFits
<1>2. ASSUME NEW arg \in BOOLEAN, NEW block \in BOOLEAN,
             c \in { Native!Sync(arg, block, n, "count") : n \in Rooms }
      PROVE  Fits(c)
  BY <1>1, <1>2, <1>8
<1>3. CASE c \in Native!SystemCalls
  <2>1. CASE c = [ Native!Sync(FALSE, FALSE, 0, "zero") EXCEPT !.how = "mode" ]
    BY <1>1, <1>8, <2>1
  <2>2. CASE c \in { Native!Sync(FALSE, FALSE, 1, "value"),
                     Native!Sync(FALSE, FALSE, 2, "raw"),
                     Native!Sync(TRUE, FALSE, 0, "zero"),
                     Native!Sync(TRUE, FALSE, 1, "value"),
                     Native!Sync(FALSE, FALSE, 2, "zero") }
    BY <1>1, <1>8, <2>2
  <2> QED BY <1>2, <1>3, <2>1, <2>2 DEF Native!SystemCalls
<1>4. CASE c \in Native!EepromCalls
  <2>1. CASE c = Native!Start(TRUE, TRUE, 0)
    BY <1>1, <1>8, <2>1 DEF Native!Start
  <2>2. CASE c \in { Native!Sync(FALSE, FALSE, 1, "value"),
                     Native!Sync(FALSE, FALSE, 0, "count"),
                     Native!Sync(TRUE, TRUE, 0, "zero") }
    BY <1>1, <1>8, <2>2
  <2> QED BY <1>2, <1>4, <2>1, <2>2 DEF Native!EepromCalls
<1>5. CASE c \in Native!RtcCalls
  BY <1>2, <1>5 DEF Native!RtcCalls
<1>6. CASE c \in Native!CdcCalls
  <2>1. CASE c = Native!Start(TRUE, FALSE, 2)
    BY <1>1, <1>8, <2>1 DEF Native!Start
  <2>3. CASE c = Native!Start(FALSE, FALSE, 2)
    BY <1>1, <1>8, <2>3 DEF Native!Start
  <2>2. CASE c \in { Native!Sync(TRUE, FALSE, 2, "value"),
                     Native!Sync(FALSE, FALSE, 2, "value"),
                     Native!Sync(FALSE, FALSE, 0, "count") }
    BY <1>1, <1>8, <2>2
  <2> QED BY <1>2, <1>6, <2>1, <2>2, <2>3 DEF Native!CdcCalls
<1>7. CASE c = Native!FatTime
  BY <1>1, <1>7, <1>8 DEF Native!FatTime
<1> QED BY <1>3, <1>4, <1>5, <1>6, <1>7 DEF Native!Calls

\* What is known of the present call.
LEMMA TheCall ==
    ASSUME TypeInv
    PROVE  /\ call \in Native!Calls /\ CallOK(call) /\ calls \in Nat /\ firm \in Firms
           /\ call.arg \in BOOLEAN /\ call.block \in BOOLEAN
           /\ call.room \in Nat /\ (call.block => call.arg)
           /\ call.how = "mode" => ~call.arg
           /\ ~call.arg => Native!Parts(call) = << >>
           /\ call.arg /\ ~call.block => Native!Parts(call) = << "argument" >>
           /\ call.arg /\ call.block => Native!Parts(call) = << "argument", "block" >>
<1>1. call \in Native!Calls /\ CallOK(call) /\ calls \in Nat /\ firm \in Firms
  BY CallsOK, ConstantsNat DEF TypeInv, NativeTypes
<1>2. /\ call.arg \in BOOLEAN /\ call.block \in BOOLEAN /\ call.room \in Nat
      /\ call.block => call.arg
      /\ call.how = "mode" => ~call.arg
  BY <1>1 DEF CallOK, CallShapes
<1>3. /\ << >> \o << >> = << >> /\ << "argument" >> \o << >> = << "argument" >>
      /\ << "argument" >> \o << "block" >> = << "argument", "block" >>
  <2> DEFINE S == { "argument", "block" }
             s == << "argument" >> \o << "block" >>
             t == << "argument", "block" >>
  <2>1. /\ << "argument" >> \in Seq(S) /\ << "block" >> \in Seq(S) /\ t \in Seq(S)
        /\ Len(<< "argument" >>) = 1 /\ Len(<< "block" >>) = 1 /\ Len(t) = 2
        /\ << "argument" >>[1] = "argument" /\ << "block" >>[1] = "block"
        /\ t[1] = "argument" /\ t[2] = "block" /\ << >> \in Seq(S)
    OBVIOUS
  <2> HIDE DEF S, t
  <2>2. /\ s \in Seq(S) /\ Len(s) = 2
        /\ \A i \in 1 .. 2 :
             s[i] = IF i <= 1 THEN << "argument" >>[i] ELSE << "block" >>[i - 1]
    BY <2>1, ConcatProperties
  <2> HIDE DEF s
  <2>3. s[1] = "argument" /\ s[2] = << "block" >>[2 - 1] /\ 2 - 1 = 1
    BY <2>1, <2>2
  <2>4. \A i \in 1 .. 2 : s[i] = t[i]
    <3>1. \A i \in 1 .. 2 : i = 1 \/ i = 2
      OBVIOUS
    <3> QED BY <2>1, <2>3, <3>1
  <2>5. s = t
    BY <2>1, <2>2, <2>4, SeqEqual
  <2> QED BY <2>1, <2>5, ConcatEmptySeq DEF s, t
<1> QED BY <1>1, <1>2, <1>3 DEF Native!Parts

\* The firmware hears the command of the present call.
LEMMA CommandHeard ==
    ASSUME TypeInv, Silent, UNCHANGED << call, calls >>, call.how # "mode",
           Native!Hears(TheCommand)
    PROVE  /\ firm.own => firm'.own
           /\ call.arg => Waiting(Native!Parts(call))'
           /\ ~call.arg => Owes'
<1>1. TheCommand[1] = "cmd" /\ TheCommand[2] = calls /\ TheCommand[3] = call
  BY DEF TheCommand
<1>2. CASE firm' = firm /\ ~firm.awake
  BY <1>2 DEF Silent, Deaf, Waiting, Owes
<1>3. CASE Native!HearsCommand(calls, call)
  <2>1. firm' = [ firm EXCEPT !.awake = TRUE, !.cmd = calls, !.how = call.how,
                              !.need = Native!Parts(call), !.own = TRUE,
                              !.work = Native!Parts(call) = << >> /\ call.how # "mode",
                              !.most = call.room, !.len = 0 ]
    BY <1>3 DEF Native!HearsCommand
  <2>2. /\ firm'.awake /\ firm'.cmd = calls /\ firm'.how = call.how
        /\ firm'.need = Native!Parts(call) /\ firm'.own
        /\ firm'.work <=> Native!Parts(call) = << >>
        /\ firm'.most = call.room /\ firm'.out = firm.out
    BY <2>1, TheCall DEF Firms
  <2>3. call.arg <=> Native!Parts(call) # << >>
    <3>1. << "argument" >> # << >> /\ << "argument", "block" >> # << >>
      OBVIOUS
    <3> QED BY <3>1, TheCall
  <2>4. firm'.out = << >>
    BY <2>2 DEF Silent
  <2> QED BY <2>2, <2>3, <2>4 DEF Waiting, OfCall, Owes, Working
<1> QED BY <1>1, <1>2, <1>3 DEF Native!Hears, Silent

\* It hears what it waits for.
LEMMA PartHeard ==
    ASSUME TypeInv, UNCHANGED << call, calls >>,
           NEW parts, parts # << >>, Waiting(parts),
           NEW word, word[1] = Head(parts), word[2] = calls, Native!Hears(word)
    PROVE  /\ firm.own => firm'.own
           /\ Tail(parts) # << >> => Waiting(Tail(parts))'
           /\ Tail(parts) = << >> => Owes'
<1>1. CASE Deaf
  <2>1. firm' = firm
    BY <1>1 DEF Native!Hears, Deaf, Silent
  <2> QED BY <1>1, <2>1 DEF Deaf, Silent, Waiting, Owes
<1>2. CASE /\ OfCall /\ firm.need = parts /\ ~firm.work /\ firm.out = << >>
           /\ firm.how = call.how /\ firm.most = call.room
  <2>1. firm' = [ firm EXCEPT !.need = Tail(@),
                              !.own = @ /\ word[1] = Head(firm.need)
                                        /\ word[2] = firm.cmd,
                              !.work = Tail(firm.need) = << >> ]
    BY <1>2 DEF Native!Hears, OfCall
  <2>2. /\ firm'.awake = firm.awake /\ firm'.cmd = firm.cmd /\ firm'.how = firm.how
        /\ firm'.need = Tail(parts) /\ (firm.own => firm'.own)
        /\ firm'.work <=> Tail(parts) = << >>
        /\ firm'.most = firm.most /\ firm'.out = firm.out
    BY <1>2, <2>1, TheCall DEF Firms, OfCall
  <2> QED BY <1>2, <2>2 DEF Waiting, OfCall, Owes, Working
<1> QED BY <1>1, <1>2 DEF Waiting

\* The firmware answers.
LEMMA FirmwareAnswered ==
    ASSUME TypeInv, Native!FirmwareAnswers, Owes
    PROVE  Owes' /\ (firm.own => firm'.own)
<1>1. Working
  BY DEF Native!FirmwareAnswers, Owes, Deaf, Silent, Answered, Left
<1>2. PICK n \in Lengths, err \in BOOLEAN, f \in Flags :
        /\ firm.how = "start" => n <= firm.most
        /\ firm' = [ firm EXCEPT !.work = FALSE, !.how = "sync", !.most = 0,
                                 !.len = n, !.flags = f,
                                 !.out = @ \o Native!Answer(firm.cmd, err, n, f) ]
  BY DEF Native!FirmwareAnswers
<1>3. << >> \o Native!Answer(calls, err, n, f) = Native!Answer(calls, err, n, f)
  BY TheCall, AnswerSaid, ConcatEmptySeq
<1>4. /\ firm'.awake = firm.awake /\ firm'.cmd = firm.cmd /\ firm'.need = firm.need
      /\ ~firm'.work /\ firm'.len = n /\ firm'.flags = f
      /\ firm'.out = Native!Answer(calls, err, n, f) /\ firm'.own = firm.own
  BY <1>1, <1>2, <1>3, TheCall DEF Firms, Working, OfCall
<1>5. UNCHANGED << call, calls >>
  BY DEF Native!FirmwareAnswers
<1>6. HeaderOK' /\ Left(AnswerOf(err))'
  BY <1>1, <1>2, <1>4, <1>5 DEF HeaderOK, Left, AnswerOf, Working, OfCall
<1> QED BY <1>4, <1>6 DEF Owes, Answered
----------------------------------------------------------------------------
(***************************************************************************)
(* Transfers end.                                                          *)
(***************************************************************************)
\* What was sent was heard.
WriteEnds ==
    /\ flight.mode = "write" /\ Native!Hears(tx[flight.buf])
    /\ rx' = [ rx EXCEPT ![flight.buf] = @ ]
\* What was asked for has come.
ReadEnds ==
    /\ flight.mode = "wait_read" => firm.out # << >>
    /\ flight.mode \in { "read", "wait_read" }
    /\ firm' = [ firm EXCEPT !.out = After(@, flight.n) ]
    /\ rx' = [ rx EXCEPT ![flight.buf] = Units(firm.out, flight.n) ]
\* All else stays.
Aside == UNCHANGED << idx, device, tx, pc, calls, call, room, left, buffer, result,
                      answer, intact >>
\* A transfer to or from the firmware has ended: what it heard, or what it said.
Ended == flight.dev = "MCU" /\ flight' = NoFlight /\ Aside /\ (WriteEnds \/ ReadEnds)

\* That is what the end of such a transfer is.
LEMMA TransferEnded ==
    ASSUME Native!TransferEnds
    PROVE  Ended
<1>1. Native!TransferEnds =>
        /\ flight.dev = "MCU"
        /\ \/ /\ flight.mode = "write"
              /\ Native!Hears(tx[flight.buf])
              /\ Native!Ends(rx[flight.buf])
           \/ /\ flight.mode \in { "read", "wait_read" }
              /\ flight.mode = "wait_read" => firm.out # << >>
              /\ Native!Ends(Native!Units(firm.out, flight.n))
              /\ firm' = [ firm EXCEPT !.out = Native!After(@, flight.n) ]
        /\ UNCHANGED << pc, calls, call, room, left, buffer, result, answer, saved,
                        intact >>
  BY DEF Native!TransferEnds
<1>2. CASE /\ flight.mode = "write"
           /\ Native!Hears(tx[flight.buf])
           /\ Native!Ends(rx[flight.buf])
  <2>1. Ends(rx[flight.buf])
    BY <1>2, SameLink
  <2> QED BY <1>1, <1>2, <2>1 DEF Ended, Ends, WriteEnds, Aside
<1>3. CASE /\ flight.mode \in { "read", "wait_read" }
           /\ flight.mode = "wait_read" => firm.out # << >>
           /\ Native!Ends(Native!Units(firm.out, flight.n))
           /\ firm' = [ firm EXCEPT !.out = Native!After(@, flight.n) ]
  <2>1. /\ Ends(Units(firm.out, flight.n))
        /\ firm' = [ firm EXCEPT !.out = After(firm.out, flight.n) ]
    BY <1>3, SameLink
  <2> QED BY <1>1, <1>3, <2>1 DEF Ended, Ends, ReadEnds, Aside
<1> QED BY <1>1, <1>2, <1>3

\* Nothing is in flight then, and what was read is in the other buffer.
LEMMA EndedLink ==
    ASSUME TypeInv, Ended
    PROVE  /\ Busy /\ ~Busy' /\ flight.buf = 1 - idx /\ flight.n \in Nat \ { 0 }
           /\ ReadEnds =>
                /\ rx'[1 - idx'] = Units(firm.out, flight.n)
                /\ firm'.awake = firm.awake /\ firm'.cmd = firm.cmd
                /\ firm'.need = firm.need /\ firm'.work = firm.work
                /\ firm'.len = firm.len /\ firm'.flags = firm.flags /\ firm'.own = firm.own
                /\ firm'.out = After(firm.out, flight.n)
<1>1. Busy /\ flight.mode # "none"
  BY DEF Ended, WriteEnds, ReadEnds, Busy
<1>2. ~Busy'
  BY DEF Ended, NoFlight, Busy
<1>3. /\ flight.buf = 1 - idx /\ flight.n \in Nat \ { 0 } /\ flight.buf \in { 0, 1 }
      /\ DOMAIN rx = { 0, 1 }
  BY <1>1, ConstantsNat DEF TypeInv, LinkInv, Flights
<1>4. ASSUME ReadEnds
      PROVE  /\ rx'[1 - idx'] = Units(firm.out, flight.n)
             /\ firm'.awake = firm.awake /\ firm'.cmd = firm.cmd
             /\ firm'.need = firm.need /\ firm'.work = firm.work
             /\ firm'.len = firm.len /\ firm'.flags = firm.flags /\ firm'.own = firm.own
             /\ firm'.out = After(firm.out, flight.n)
  <2>1. firm \in Firms
    BY TheCall
  <2>2. idx' = idx
    BY DEF Ended, Aside
  <2>3. rx'[flight.buf] = Units(firm.out, flight.n)
    BY <1>3, <1>4 DEF ReadEnds
  <2> QED BY <1>3, <1>4, <2>1, <2>2, <2>3 DEF ReadEnds, Firms
<1> QED BY <1>1, <1>2, <1>3, <1>4

\* The rest of an answer is read, or the command that ends the protocol heard.
LEMMA SettledEnds ==
    ASSUME TypeInv, Settled, Ended
    PROVE  Settled' /\ (firm.own => firm'.own)
<1>1. CASE /\ firm.need = << >> /\ ~firm.work
           /\ Reading("read", Len(firm.out))
  <2>1. ReadEnds
    BY <1>1 DEF Ended, WriteEnds, Reading
  <2>2. firm.out \in Seq(Said) /\ Len(firm.out) \in Nat
    BY TheCall, LenProperties DEF Firms
  <2>3. After(firm.out, flight.n) = << >>
    BY <1>1, <2>2, AfterIs DEF Reading
  <2> QED BY <1>1, <2>1, <2>3, EndedLink DEF Settled, Silent
<1>2. CASE /\ Silent /\ flight.mode = "write" /\ flight.dev = "MCU"
           /\ tx[flight.buf][1] = "cmd" /\ tx[flight.buf][3].how = "mode"
  <2> DEFINE word == tx[flight.buf]
             c == word[3]
  <2>1. WriteEnds
    BY <1>2 DEF Ended, ReadEnds
  <2>2. WordOK(word) /\ word[1] = "cmd"
    BY <1>2, EndedLink DEF TypeInv, LinkInv, Flights
  <2>3. c.how = "mode" /\ Native!Parts(c) = << >>
    <3>1. CallOK(c) /\ c.how = "mode"
      BY <1>2, <2>2, CallsOK DEF WordOK
    <3>2. ~c.arg /\ ~c.block
      BY <3>1 DEF CallOK, CallShapes
    <3> QED BY <3>1, <3>2, ConcatEmptySeq DEF Native!Parts
  <2> HIDE DEF c, word
  <2>4. firm' = firm \/ Native!HearsCommand(word[2], c)
    BY <1>2, <2>1 DEF WriteEnds, Native!Hears, Silent, c, word
  <2>5. CASE Native!HearsCommand(word[2], c)
    <3>1. PICK awake \in BOOLEAN :
            firm' = [ firm EXCEPT !.awake = awake, !.cmd = word[2], !.how = c.how,
                                  !.need = Native!Parts(c), !.own = TRUE,
                                  !.work = Native!Parts(c) = << >> /\ c.how # "mode",
                                  !.most = c.room, !.len = 0 ]
      BY <2>5 DEF Native!HearsCommand
    <3>2. /\ firm'.need = << >> /\ ~firm'.work /\ firm'.out = firm.out /\ firm'.own
      BY <2>3, <3>1, TheCall DEF Firms
    <3> QED BY <1>2, <3>2, EndedLink DEF Settled, Silent
  <2>6. CASE firm' = firm
    BY <1>2, <2>6, EndedLink DEF Settled, Silent
  <2> QED BY <2>4, <2>5, <2>6
<1>3. ~(Busy => flight.dev # "MCU")
  BY EndedLink DEF Ended
<1> QED BY <1>1, <1>2, <1>3 DEF Settled

\* The last part of a command is heard, and the firmware owes the answer.
LEMMA SentEnds ==
    ASSUME TypeInv, Sent, Ended, call.how # "mode"
    PROVE  Sent' /\ (firm.own => firm'.own)
<1>1. UNCHANGED << device, call, calls >> /\ Busy /\ ~Busy'
  BY EndedLink DEF Ended, Aside
<1>2. Owes' => Sent'
  BY <1>1 DEF Sent
<1>3. /\ TheArgument[1] = "argument" /\ TheArgument[2] = calls
      /\ TheBlock[1] = "block" /\ TheBlock[2] = calls
      /\ Head(<< "argument" >>) = "argument" /\ Tail(<< "argument" >>) = << >>
      /\ Head(<< "block" >>) = "block" /\ Tail(<< "block" >>) = << >>
      /\ << "argument" >> # << >> /\ << "block" >> # << >>
  BY DEF TheArgument, TheBlock
<1>4. CASE ~call.arg /\ Sending(TheCommand) /\ Silent
  <2>1. Native!Hears(TheCommand)
    BY <1>4 DEF Ended, WriteEnds, ReadEnds, Sending
  <2> QED BY <1>1, <1>2, <1>4, <2>1, CommandHeard
<1>5. CASE call.arg /\ ~call.block /\ Sending(TheArgument) /\ Waiting(<< "argument" >>)
  <2>1. Native!Hears(TheArgument)
    BY <1>5 DEF Ended, WriteEnds, ReadEnds, Sending
  <2> QED BY <1>1, <1>2, <1>3, <1>5, <2>1, PartHeard
<1>6. CASE call.block /\ Sending(TheBlock) /\ Waiting(<< "block" >>)
  <2>1. Native!Hears(TheBlock)
    BY <1>6 DEF Ended, WriteEnds, ReadEnds, Sending
  <2> QED BY <1>1, <1>2, <1>3, <1>6, <2>1, PartHeard
<1> QED BY <1>1, <1>4, <1>5, <1>6 DEF Sent

\* A command is heard, and its parts are waited for.
LEMMA TellingEnds ==
    ASSUME TypeInv, call.arg, Telling, Ended
    PROVE  Telling' /\ (firm.own => firm'.own)
<1>1. /\ UNCHANGED << idx, tx, call, calls >> /\ Busy /\ ~Busy'
      /\ TheArgument' = TheArgument
  BY EndedLink DEF Ended, Aside, TheArgument
<1>2. Sending(TheCommand) /\ Silent
  BY <1>1 DEF Telling
<1>3. Native!Hears(TheCommand)
  BY <1>2 DEF Ended, WriteEnds, ReadEnds, Sending
<1>4. Waiting(Native!Parts(call))' /\ (firm.own => firm'.own)
  BY <1>1, <1>2, <1>3, TheCall, CommandHeard
<1> QED BY <1>1, <1>4 DEF Telling

\* The argument is, and the block is waited for.
LEMMA TellingMoreEnds ==
    ASSUME TypeInv, TellingMore, Ended
    PROVE  TellingMore' /\ (firm.own => firm'.own)
<1>1. UNCHANGED << idx, tx, call, calls >> /\ Busy /\ ~Busy' /\ TheBlock' = TheBlock
  BY EndedLink DEF Ended, Aside, TheBlock
<1>2. Sending(TheArgument) /\ Waiting(<< "argument", "block" >>)
  BY <1>1 DEF TellingMore
<1>3. Native!Hears(TheArgument)
  BY <1>2 DEF Ended, WriteEnds, ReadEnds, Sending
<1>4. /\ TheArgument[1] = "argument" /\ TheArgument[2] = calls
      /\ Head(<< "argument", "block" >>) = "argument"
      /\ Tail(<< "argument", "block" >>) = << "block" >>
      /\ << "argument", "block" >> # << >> /\ << "block" >> # << >>
  BY DEF TheArgument
<1>5. Waiting(<< "block" >>)' /\ (firm.own => firm'.own)
  BY <1>1, <1>2, <1>3, <1>4, PartHeard
<1> QED BY <1>1, <1>5 DEF TellingMore

\* Of what the firmware owes, a transfer that waits gets what was answered.
LEMMA WaitedFor ==
    ASSUME TypeInv, Owes, Ended, flight.mode = "wait_read"
    PROVE  ReadEnds /\ \E err \in BOOLEAN : HeaderOK /\ Left(AnswerOf(err))
<1>1. ReadEnds /\ firm.out # << >>
  BY DEF Ended, WriteEnds, ReadEnds
<1>2. Answered
  BY <1>1 DEF Owes, Deaf, Silent, Working
<1> QED BY <1>1, <1>2 DEF Answered

\* An answer that was asked for in advance has come.
LEMMA StartedEnds ==
    ASSUME TypeInv, Started, Ended, call.how = "start"
    PROVE  Started' /\ (firm.own => firm'.own)
<1>1. UNCHANGED << call, calls >> /\ Busy /\ ~Busy'
  BY EndedLink DEF Ended, Aside
<1>2. Reading("wait_read", 1 + call.room) /\ Owes
  BY <1>1 DEF Started
<1>3. PICK err \in BOOLEAN : HeaderOK /\ Left(AnswerOf(err))
  BY <1>2, WaitedFor DEF Reading
<1>4. ReadEnds
  BY <1>2, WaitedFor DEF Reading
<1>5. /\ rx'[1 - idx'] = Units(firm.out, flight.n) /\ firm'.awake = firm.awake
      /\ firm'.cmd = firm.cmd /\ firm'.need = firm.need /\ firm'.work = firm.work
      /\ firm'.len = firm.len /\ firm'.flags = firm.flags /\ firm'.own = firm.own
      /\ firm'.out = After(firm.out, flight.n)
  BY <1>4, EndedLink
<1>6. firm.out = AnswerOf(err) /\ flight.n = 1 + call.room
  BY <1>2, <1>3 DEF Left, Reading
<1>7. firm.len \in Lengths /\ firm.flags \in Flags /\ firm.len <= call.room
  BY <1>3 DEF HeaderOK
<1>8. After(AnswerOf(err), 1 + call.room) = << >>
  <2>1. calls \in Nat /\ call.room \in Nat
    BY TheCall
  <2> DEFINE a == Native!Answer(calls, err, firm.len, firm.flags)
  <2>2. After(a, 1 + call.room) = << >>
    <3> HIDE DEF a
    <3> QED BY <1>7, <2>1, AnswerCut DEF a
  <2> QED BY <2>2 DEF AnswerOf
<1>9. AnswerOf(err)' = AnswerOf(err) /\ HeaderOK'
  BY <1>1, <1>3, <1>5 DEF AnswerOf, HeaderOK
<1>10. Left(<< >>)'
  BY <1>1, <1>3, <1>5, <1>6, <1>8 DEF Left, OfCall
<1>11. rx'[1 - idx'] = Units(AnswerOf(err)', 1 + call'.room)
  BY <1>1, <1>5, <1>6, <1>9
<1> QED BY <1>1, <1>5, <1>9, <1>10, <1>11 DEF Started

\* The header has come, and the data are left.
LEMMA HeadingEnds ==
    ASSUME TypeInv, Heading, Ended
    PROVE  Heading' /\ (firm.own => firm'.own)
<1>1. UNCHANGED << call, calls >> /\ Busy /\ ~Busy'
  BY EndedLink DEF Ended, Aside
<1>2. Reading("wait_read", 1) /\ Owes
  BY <1>1 DEF Heading
<1>3. PICK err \in BOOLEAN : HeaderOK /\ Left(AnswerOf(err))
  BY <1>2, WaitedFor DEF Reading
<1>4. ReadEnds
  BY <1>2, WaitedFor DEF Reading
<1>5. /\ rx'[1 - idx'] = Units(firm.out, flight.n) /\ firm'.awake = firm.awake
      /\ firm'.cmd = firm.cmd /\ firm'.need = firm.need /\ firm'.work = firm.work
      /\ firm'.len = firm.len /\ firm'.flags = firm.flags /\ firm'.own = firm.own
      /\ firm'.out = After(firm.out, flight.n)
  BY <1>4, EndedLink
<1>6. firm.out = AnswerOf(err) /\ flight.n = 1
  BY <1>2, <1>3 DEF Left, Reading
<1>7. firm.len \in Lengths /\ firm.flags \in Flags
  BY <1>3 DEF HeaderOK
<1>8. /\ Units(AnswerOf(err), 1) = << Header(err) >> /\ After(AnswerOf(err), 1) = Data
  <2>1. calls \in Nat /\ call.room \in Nat
    BY TheCall
  <2> DEFINE a == Native!Answer(calls, err, firm.len, firm.flags)
  <2>2. /\ Units(a, 1) = << << "header", err, firm.len, firm.flags >> >>
        /\ After(a, 1) = Native!Own(calls, firm.len)
    <3> HIDE DEF a
    <3> QED BY <1>7, <2>1, AnswerCut DEF a
  <2> QED BY <2>2 DEF AnswerOf, Header, Data
<1>9. Header(err)' = Header(err) /\ HeaderOK' /\ Data' = Data
  BY <1>1, <1>3, <1>5 DEF Header, HeaderOK, Data
<1>10. Left(Data)'
  BY <1>1, <1>3, <1>5, <1>6, <1>8, <1>9 DEF Left, OfCall
<1>11. rx'[1 - idx'] = << Header(err)' >>
  BY <1>5, <1>6, <1>8, <1>9
<1> QED BY <1>1, <1>5, <1>9, <1>10, <1>11 DEF Heading

\* What it is cut to is no more than there is, or there is room for.
LEMMA CutIs ==
    ASSUME TypeInv, IsCut
    PROVE  /\ room \in 0 .. firm.len /\ room <= call.room /\ left \in Nat
           /\ left = 0 <=> room = firm.len
           /\ Len(Rest) = left
           /\ left = 0 => Rest = << >>
           /\ room = 0 => Rest = Data
           /\ Units(Data, room) = Native!Own(calls, room)
           /\ firm.len \in Nat
<1>1. call.room \in Nat /\ firm.len \in Nat /\ calls \in Nat
  BY TheCall DEF IsCut
<1>2. /\ room \in 0 .. firm.len /\ room <= call.room /\ left \in Nat
      /\ left = firm.len - room
      /\ left = 0 <=> room = firm.len
  BY <1>1 DEF IsCut, Cut
<1> QED BY <1>1, <1>2, OwnCut DEF Rest, Data

\* The data have come that were asked for, and the rest is left.
LEMMA ComingEnds ==
    ASSUME TypeInv, IsCut, Coming, Ended
    PROVE  /\ Coming' /\ IsCut' /\ (firm.own => firm'.own)
           /\ firm'.flags = firm.flags
<1>1. UNCHANGED << call, calls, room, left >> /\ Busy /\ ~Busy'
  BY EndedLink DEF Ended, Aside
<1>2. Reading("read", room) /\ Left(Data)
  BY <1>1 DEF Coming
<1>3. ReadEnds
  BY <1>2 DEF Ended, WriteEnds, Reading
<1>4. /\ rx'[1 - idx'] = Units(firm.out, flight.n) /\ firm'.awake = firm.awake
      /\ firm'.cmd = firm.cmd /\ firm'.need = firm.need /\ firm'.work = firm.work
      /\ firm'.len = firm.len /\ firm'.flags = firm.flags /\ firm'.own = firm.own
      /\ firm'.out = After(firm.out, flight.n)
  BY <1>3, EndedLink
<1>5. firm.out = Data /\ flight.n = room
  BY <1>2 DEF Left, Reading
<1>6. Data' = Data /\ Rest' = Rest /\ IsCut'
  BY <1>1, <1>4 DEF Data, Rest, IsCut, Cut
<1>7. rx'[1 - idx'] = Native!Own(calls, room)
  BY <1>4, <1>5, CutIs
<1>8. Left(Rest)'
  BY <1>1, <1>2, <1>4, <1>5, <1>6 DEF Left, OfCall, Rest
<1> QED BY <1>1, <1>4, <1>6, <1>7, <1>8 DEF Coming

\* What returns something has a command behind it that is over.
LEMMA ReturnedIsOver ==
    ASSUME Along, Returned
    PROVE  Settled /\ ~firm.work
<1>1. pc \in { "idle", "restore" } /\ answer.phase = "none"
  BY DEF Along, ResultOK
<1>2. Settled
  BY <1>1 DEF Along, Stage, Between
<1> QED BY <1>2 DEF Settled, Silent

\* A transfer ends, at whatever point of a call.
LEMMA TransferEndsAlong ==
    ASSUME TypeInv, Along, runs = "firmware", Native!TransferEnds
    PROVE  Along'
<1>1. Ended /\ Busy /\ ~Busy'
  BY TransferEnded, EndedLink
<1>2. UNCHANGED << idx, device, tx, pc, calls, call, room, left, buffer, result,
                   answer >>
  BY <1>1 DEF Ended, Aside
<1>3. /\ Settled => Settled' /\ (firm.own => firm'.own)
      /\ Sent /\ call.how # "mode" => Sent' /\ (firm.own => firm'.own)
      /\ call.arg /\ Telling => Telling' /\ (firm.own => firm'.own)
      /\ TellingMore => TellingMore' /\ (firm.own => firm'.own)
      /\ Started /\ call.how = "start" => Started' /\ (firm.own => firm'.own)
      /\ Heading => Heading' /\ (firm.own => firm'.own)
      /\ IsCut /\ Coming => /\ Coming' /\ IsCut' /\ (firm.own => firm'.own)
                            /\ firm'.flags = firm.flags
  BY <1>1, SettledEnds, SentEnds, TellingEnds, TellingMoreEnds, StartedEnds,
     HeadingEnds,
     ComingEnds
<1>4. TheCommand' = TheCommand
  BY <1>2 DEF TheCommand
<1>5. Stage' /\ firm'.own
  <2> SUFFICES /\ pc # "reset_low" => Stage'
               /\ pc # "reset_low" /\ firm.own => firm'.own
    BY <1>1 DEF Along, TypeInv, ResetTypes
  <2>1. CASE pc \in { "idle", "reset" }
    <3>1. answer.phase \in { "none", "sent", "started" }
      BY DEF TypeInv, NativeTypes
    <3>2. Between
      BY <2>1 DEF Along, Stage
    <3>3. Between' /\ (firm.own => firm'.own)
      BY <1>2, <1>3, <3>1, <3>2 DEF Between
    <3> QED BY <1>2, <2>1, <3>3 DEF Stage
  <2>2. CASE pc \in { "control", "restore", "command" }
    BY <1>2, <1>3, <1>4, <2>2 DEF Along, Stage
  <2>3. CASE pc = "argument"
    BY <1>2, <1>3, <2>3 DEF Along, Stage
  <2>4. CASE pc = "block"
    BY <1>2, <1>3, <2>4 DEF Along, Stage
  <2>5. CASE pc \in { "request", "header" }
    BY <1>2, <1>3, <2>5 DEF Along, Stage
  <2>6. CASE pc = "finish"
    BY <1>2, <1>3, <2>6 DEF Along, Stage
  <2>7. CASE pc = "header_wait"
    BY <1>2, <1>3, <2>7 DEF Along, Stage
  <2>8. CASE pc = "data_wait"
    BY <1>2, <1>3, <2>8 DEF Along, Stage
  <2>9. pc \notin { "data", "skip", "header_abort", "data_abort" }
    BY <1>1 DEF Along, Stage
  <2> QED
    BY <2>1, <2>2, <2>3, <2>4, <2>5, <2>6, <2>7, <2>8, <2>9
    DEF TypeInv, ResetTypes, NativePCs
<1>6. ResultOK'
  <2> SUFFICES ASSUME Returned PROVE ResultOK'
    BY <1>2 DEF ResultOK, Returned
  <2>1. flight.mode # "write"
    BY DEF Along, ResultOK
  <2>2. ReadEnds
    BY <1>1, <2>1 DEF Ended, WriteEnds
  <2>3. firm'.cmd = firm.cmd /\ firm'.len = firm.len /\ firm'.flags = firm.flags
    BY <1>1, <2>2, EndedLink
  <2>4. flight'.mode # "write"
    BY <1>1 DEF Ended, NoFlight
  <2> QED BY <1>2, <2>3, <2>4 DEF Along, ResultOK, Cut, Returned
<1> QED BY <1>2, <1>5, <1>6 DEF Along
----------------------------------------------------------------------------
(***************************************************************************)
(* Calls are made, and go on.                                              *)
(***************************************************************************)
\* A call that goes on returns nothing.
LEMMA NothingYet ==
    ASSUME ResultOK, pc \notin { "idle", "restore" }, UNCHANGED result
    PROVE  ~Returned' /\ ResultOK'
BY DEF ResultOK, Returned

\* Nor does one that keeps the bits of its header.
LEMMA HeaderKept ==
    ASSUME NEW f, result' = << "header", f >>
    PROVE  ~Returned' /\ ResultOK'
BY DEF ResultOK, Returned

\* What was sent last, while nothing else is in flight.
LEMMA NothingInFlight ==
    ASSUME ~Busy
    PROVE  /\ Settled => Silent
           /\ Sent => device = "MCU" /\ Owes
           /\ Telling => Waiting(Native!Parts(call))
           /\ TellingMore => Waiting(<< "block" >>)
           /\ Started => /\ Left(<< >>)
                         /\ \E err \in BOOLEAN :
                              /\ HeaderOK
                              /\ rx[1 - idx] = Units(AnswerOf(err), 1 + call.room)
           /\ Heading => /\ Left(Data)
                         /\ \E err \in BOOLEAN :
                              HeaderOK /\ rx[1 - idx] = << Header(err) >>
           /\ Coming => Left(Rest) /\ rx[1 - idx] = Native!Own(calls, room)
BY DEF Busy, Settled, Sent, Telling, TellingMore, Started, Heading, Coming, Reading,
   Sending

\* A word is sent that was put in the current buffer, and another one put there.
LEMMA WordLeaves ==
    ASSUME TypeInv, StartSending("write", "MCU"), NEW next,
           tx' = tx \/ tx' = [ tx EXCEPT ![idx'] = next ]
    PROVE  /\ ~Busy /\ device' = "MCU" /\ flight'.mode = "write"
           /\ flight'.dev = "MCU" /\ tx'[flight'.buf] = tx[idx]
           /\ tx' = [ tx EXCEPT ![idx'] = next ] => tx'[idx'] = next
<1>1. idx \in { 0, 1 } /\ DOMAIN tx = { 0, 1 }
  BY DEF TypeInv, LinkInv
<1>2. /\ ~Busy /\ idx' = 1 - idx /\ device' = "MCU" /\ flight'.mode = "write"
      /\ flight'.dev = "MCU" /\ flight'.buf = idx
  BY DEF StartSending
<1> QED BY <1>1, <1>2

\* get_fattime turns to the MCU, and puts its command where it will be sent from.
LEMMA ControlAlong ==
    ASSUME TypeInv, Along, Native!Control
    PROVE  Along'
<1>1. \/ ~Busy /\ idx' = 0 /\ device' = "MCU"
      \/ Busy /\ UNCHANGED << idx, device >>
  BY SameLink DEF Native!Control, Native!Put, Native!Goto, SetControl
<1>2. /\ pc = "control" /\ pc' = "command"
      /\ tx' = [ tx EXCEPT ![idx'] = Native!Command(call, calls) ]
      /\ UNCHANGED << rx, flight, calls, call, room, left, buffer, result, answer,
                      saved, intact, firm >>
  BY DEF Native!Control, Native!Put, Native!Goto
<1>3. Settled /\ buffer = << >> /\ ResultOK /\ answer.phase = "none"
  BY <1>2 DEF Along, Stage, TypeInv, NativeTypes
<1>4. /\ idx \in { 0, 1 } /\ idx' \in { 0, 1 } /\ DOMAIN tx = { 0, 1 }
      /\ Busy => flight.buf = 1 - idx
  BY <1>1 DEF TypeInv, LinkInv
<1>5. Settled'
  BY <1>1, <1>2, <1>3, <1>4 DEF Settled, Silent, Busy, Reading
<1>6. tx'[idx'] = TheCommand'
  BY <1>2, <1>4 DEF TheCommand, Native!Command
<1>7. Stage'
  BY <1>2, <1>3, <1>5, <1>6 DEF Stage
<1>8. ResultOK'
  BY <1>2, <1>3, NothingYet
<1> QED BY <1>2, <1>3, <1>7, <1>8 DEF Along

\* And turns back; what is in flight stays.
LEMMA RestoreAlong ==
    ASSUME TypeInv, Along, Native!Restore
    PROVE  Along'
<1>1. /\ pc = "restore" /\ pc' = "idle"
      /\ UNCHANGED << tx, rx, flight, calls, call, room, left, buffer, result,
                      answer, intact, firm >>
  BY DEF Native!Restore, Native!Goto
<1>2. Settled /\ answer.phase = "none" /\ ResultOK
  BY <1>1 DEF Along, Stage, TypeInv, NativeTypes
<1>3. Settled'
  BY <1>1, <1>2 DEF Settled, Silent, Busy, Reading
<1>4. Stage'
  BY <1>1, <1>2, <1>3 DEF Stage, Between
<1>5. ResultOK'
  BY <1>1, <1>2 DEF ResultOK, Returned, Cut
<1> QED BY <1>1, <1>2, <1>4, <1>5 DEF Along

\* nile_mcu_native_send_cmd: the command leaves,
LEMMA CommandStartAlong ==
    ASSUME TypeInv, Along, Native!CommandStart
    PROVE  Along'
<1>1. /\ pc = "command" /\ StartSending("write", "MCU")
      /\ UNCHANGED << rx, calls, call, room, left, buffer, answer, saved, intact,
                      firm >>
      /\ IF call.arg
         THEN /\ pc' = "argument" /\ tx' = [ tx EXCEPT ![idx'] = TheArgument ]
              /\ UNCHANGED result
         ELSE /\ tx' = tx
              /\ IF call.how = "mode"
                 THEN result' = << "zero" >> /\ pc' = "idle"
                 ELSE /\ pc' = IF call.how = "start" THEN "request" ELSE "header"
                      /\ UNCHANGED result
  BY SameLink DEF Native!CommandStart, Native!Put, Native!Return, Native!Receive,
     TheArgument
<1>2. /\ Settled /\ tx[idx] = TheCommand /\ buffer = << >> /\ ResultOK
      /\ answer.phase = "none" /\ firm.own
  BY <1>1 DEF Along, Stage, TypeInv, NativeTypes
<1>3. /\ ~Busy /\ device' = "MCU" /\ flight'.mode = "write"
      /\ flight'.dev = "MCU" /\ tx'[flight'.buf] = TheCommand
      /\ call.arg => tx'[idx'] = TheArgument
  BY <1>1, <1>2, WordLeaves
<1>4. Silent' /\ Sending(TheCommand)' /\ TheArgument' = TheArgument
  BY <1>1, <1>2, <1>3, NothingInFlight
  DEF Silent, Sending, TheCommand, TheArgument
<1>5. call.arg \in BOOLEAN
  BY TheCall
<1>6. Stage' /\ ResultOK'
  <2>1. CASE call.arg
    <3>1. Telling'
      BY <1>3, <1>4, <2>1 DEF Telling
    <3> QED BY <1>1, <1>2, <2>1, <3>1, NothingYet DEF Stage
  <2>2. CASE ~call.arg /\ call.how = "mode"
    <3>1. Settled'
      BY <1>1, <1>3, <1>4, <2>2 DEF Settled, TheCommand
    <3> QED BY <1>1, <1>2, <2>2, <3>1 DEF Stage, Between, ResultOK, Returned
  <2>3. CASE ~call.arg /\ call.how # "mode"
    <3>1. Sent'
      BY <1>1, <1>3, <1>4, <2>3 DEF Sent
    <3> QED BY <1>1, <1>2, <2>3, <3>1, NothingYet DEF Stage
  <2> QED BY <1>5, <2>1, <2>2, <2>3
<1> QED BY <1>1, <1>2, <1>6 DEF Along

\* the argument,
LEMMA ArgumentStartAlong ==
    ASSUME TypeInv, Along, Native!ArgumentStart
    PROVE  Along'
<1>1. /\ pc = "argument" /\ StartSending("write", "MCU")
      /\ UNCHANGED << rx, calls, call, room, left, buffer, result, answer, saved,
                      intact, firm >>
      /\ IF call.block
         THEN pc' = "block" /\ tx' = [ tx EXCEPT ![idx'] = TheBlock ]
         ELSE /\ pc' = IF call.how = "start" THEN "request" ELSE "header"
              /\ tx' = tx
  BY SameLink DEF Native!ArgumentStart, Native!Put, Native!Receive, TheBlock
<1>2. /\ call.arg /\ Telling /\ tx[idx] = TheArgument /\ buffer = << >> /\ ResultOK
      /\ answer.phase = "none" /\ firm.own
  BY <1>1 DEF Along, Stage, TypeInv, NativeTypes, Telling
<1>3. /\ ~Busy /\ device' = "MCU" /\ flight'.mode = "write"
      /\ flight'.dev = "MCU" /\ tx'[flight'.buf] = TheArgument
      /\ call.block => tx'[idx'] = TheBlock
  BY <1>1, <1>2, WordLeaves
<1>4. /\ Sending(TheArgument)' /\ TheBlock' = TheBlock
      /\ Waiting(Native!Parts(call))
  BY <1>1, <1>2, <1>3, NothingInFlight DEF Sending, TheArgument, TheBlock
<1>5. /\ call.block \in BOOLEAN /\ call.how # "mode"
      /\ ~call.block => Native!Parts(call) = << "argument" >>
      /\ call.block => Native!Parts(call) = << "argument", "block" >>
  BY <1>2, TheCall
<1>6. ASSUME NEW parts PROVE Waiting(parts) => Waiting(parts)'
  BY <1>1 DEF Waiting, Deaf, Silent, OfCall
<1>7. Stage'
  <2>1. CASE call.block
    <3>1. Waiting(<< "argument", "block" >>)'
      BY <1>4, <1>5, <1>6, <2>1
    <3>2. TellingMore'
      BY <1>3, <1>4, <2>1, <3>1 DEF TellingMore
    <3> QED BY <1>1, <1>2, <1>3, <2>1, <3>2 DEF Stage
  <2>2. CASE ~call.block
    <3>1. Waiting(<< "argument" >>)'
      BY <1>4, <1>5, <1>6, <2>2
    <3>2. Sent'
      BY <1>1, <1>2, <1>3, <1>4, <2>2, <3>1 DEF Sent
    <3> QED BY <1>1, <1>2, <1>5, <2>2, <3>2 DEF Stage
  <2> QED BY <1>5, <2>1, <2>2
<1>8. ResultOK'
  BY <1>1, <1>2, NothingYet
<1> QED BY <1>1, <1>2, <1>7, <1>8 DEF Along

\* and the block.
LEMMA BlockStartAlong ==
    ASSUME TypeInv, Along, Native!BlockStart
    PROVE  Along'
<1>1. /\ pc = "block" /\ StartSending("write", device)
      /\ UNCHANGED << tx, rx, calls, call, room, left, buffer, result, answer, saved,
                      intact, firm >>
      /\ pc' = IF call.how = "start" THEN "request" ELSE "header"
  BY SameLink DEF Native!BlockStart, Native!Goto, Native!Receive
<1>2. /\ device = "MCU" /\ call.block /\ TellingMore /\ tx[idx] = TheBlock
      /\ buffer = << >> /\ ResultOK /\ answer.phase = "none" /\ firm.own
  BY <1>1 DEF Along, Stage, TypeInv, NativeTypes, TellingMore
<1>3. /\ ~Busy /\ device' = "MCU" /\ flight'.mode = "write"
      /\ flight'.dev = "MCU" /\ tx'[flight'.buf] = TheBlock
  BY <1>1, <1>2, WordLeaves
<1>4. Sending(TheBlock)' /\ Waiting(<< "block" >>)
  BY <1>1, <1>2, <1>3, NothingInFlight DEF Sending, TheBlock
<1>5. call.how # "mode"
  BY <1>2, TheCall
<1>6. Waiting(<< "block" >>)'
  BY <1>1, <1>4 DEF Waiting, Deaf, Silent, OfCall
<1>7. Sent'
  BY <1>1, <1>2, <1>3, <1>4, <1>6 DEF Sent
<1>8. Stage'
  BY <1>1, <1>2, <1>5, <1>7 DEF Stage
<1>9. ResultOK'
  BY <1>1, <1>2, NothingYet
<1> QED BY <1>1, <1>2, <1>8, <1>9 DEF Along

\* A call that could not send its first word has done nothing.
LEMMA SendTimesOutAlong ==
    ASSUME TypeInv, Along, Native!SendTimesOut, intact'
    PROVE  Along'
<1>1. /\ pc = "command" /\ result' = << "spi" >>
      /\ UNCHANGED << link, calls, call, room, left, buffer, answer, saved, firm >>
      /\ pc' \in { "idle", "restore" }
  <2>1. pc = "command"
    BY Zenon DEF Native!SendTimesOut
  <2>2. UNCHANGED link
    BY DEF Native!SendTimesOut, Native!link, link
  <2> QED BY <2>1, <2>2 DEF Native!SendTimesOut, Native!Return
<1>2. Settled /\ answer.phase = "none" /\ firm.own
  BY <1>1 DEF Along, Stage, TypeInv, NativeTypes
<1>3. Settled'
  BY <1>1, <1>2 DEF link, Settled, Silent, Busy, Reading
<1>4. Stage'
  BY <1>1, <1>2, <1>3 DEF Stage, Between
<1>5. ResultOK'
  BY <1>1 DEF ResultOK, Returned
<1> QED BY <1>1, <1>2, <1>4, <1>5 DEF Along
\* A transfer that asks for what fits asks for all of it.
LEMMA AskedFor ==
    ASSUME TypeInv, NEW mode, NEW n \in 1 .. Window, StartReading(mode, n)
    PROVE  /\ ~Busy /\ flight'.mode = mode /\ flight'.dev = device /\ flight'.n = n
           /\ flight'.buf = 1 - idx
BY LengthIs DEF StartReading

\* nile_mcu_native_recv_cmd waits for the header.
LEMMA HeaderStartAlong ==
    ASSUME TypeInv, Along, Native!HeaderStart
    PROVE  Along'
<1>1. /\ pc = "header" /\ pc' = "header_wait" /\ StartReading("wait_read", 1)
      /\ UNCHANGED << idx, device, tx, rx, calls, call, room, left, buffer,
                      result, answer, saved, intact, firm >>
  BY SameLink DEF Native!HeaderStart, Native!Goto
<1>2. /\ call.how \notin { "start", "mode" } /\ Sent /\ buffer = << >> /\ ResultOK
      /\ answer.phase = "none" /\ firm.own
  BY <1>1 DEF Along, Stage, TypeInv, NativeTypes
<1>3. /\ ~Busy /\ flight'.mode = "wait_read" /\ flight'.dev = device /\ flight'.n = 1
  BY <1>1, ConstantsNat, AskedFor
<1>4. device = "MCU" /\ Owes
  BY <1>2, <1>3, NothingInFlight
<1>5. Owes'
  BY <1>1, <1>4
  DEF Owes, Deaf, Silent, Working, Answered, OfCall, HeaderOK, Left, AnswerOf
<1>6. Heading'
  BY <1>3, <1>4, <1>5 DEF Heading, Reading
<1>7. Stage' /\ ResultOK'
  BY <1>1, <1>2, <1>4, <1>6, NothingYet DEF Stage
<1> QED BY <1>1, <1>2, <1>7 DEF Along

\* nile_mcu_native_recv_cmd_start asks for all of the answer.
LEMMA RequestStartAlong ==
    ASSUME TypeInv, Along, Roomy, Native!RequestStart
    PROVE  Along'
<1>1. /\ pc = "request" /\ pc' = "idle" /\ StartReading("wait_read", 1 + call.room)
      /\ result' = << "zero" >>
      /\ answer'.phase = "started" /\ answer'.room = call.room
      /\ UNCHANGED << idx, device, tx, rx, calls, call, room, left, buffer, saved,
                      intact, firm >>
  BY SameLink DEF Native!RequestStart, Native!Goto
<1>2. call.how = "start" /\ Sent /\ firm.own
  BY <1>1 DEF Along, Stage
<1>3. 1 + call.room \in 1 .. Window
  BY <1>2, CallsFit, TheCall DEF Fits
<1>4. /\ ~Busy /\ flight'.mode = "wait_read" /\ flight'.dev = device
      /\ flight'.n = 1 + call.room
  BY <1>1, <1>3, AskedFor
<1>5. device = "MCU" /\ Owes
  BY <1>2, <1>4, NothingInFlight
<1>6. Owes'
  BY <1>1, <1>5
  DEF Owes, Deaf, Silent, Working, Answered, OfCall, HeaderOK, Left, AnswerOf
<1>7. Started'
  BY <1>1, <1>4, <1>5, <1>6 DEF Started, Reading
<1>8. Stage' /\ ResultOK'
  BY <1>1, <1>2, <1>7 DEF Stage, Between, ResultOK, Returned
<1> QED BY <1>1, <1>2, <1>8 DEF Along

\* Nothing changes but who waits for it.
LEMMA SentStays ==
    ASSUME UNCHANGED << device, tx, flight, call, calls, firm >>, Sent
    PROVE  Sent'
<1>1. Owes => Owes'
  BY DEF Owes, Deaf, Silent, Working, Answered, OfCall, HeaderOK, Left, AnswerOf
<1>2. \A parts : Waiting(parts) => Waiting(parts)'
  BY DEF Waiting, Deaf, Silent, OfCall
<1> QED
  BY <1>1, <1>2
  DEF Sent, Sending, Silent, Busy, TheCommand, TheArgument, TheBlock

\* Nothing changes but who waits for the answer.
LEMMA StartedStays ==
    ASSUME UNCHANGED << idx, rx, flight, call, calls, firm >>, Started
    PROVE  Started'
<1>1. Owes => Owes'
  BY DEF Owes, Deaf, Silent, Working, Answered, OfCall, HeaderOK, Left, AnswerOf
<1> QED BY <1>1 DEF Started, Reading, Busy, Left, OfCall, HeaderOK, AnswerOf

\* Nothing changes where nothing is left.
LEMMA SettledStays ==
    ASSUME UNCHANGED << tx, flight, firm >>, Settled
    PROVE  Settled'
BY DEF Settled, Silent, Busy, Reading

\* Nothing changes between two calls.
LEMMA BetweenStays ==
    ASSUME UNCHANGED << link, call, calls, firm, answer >>, Between
    PROVE  Between'
<1>1. UNCHANGED << idx, device, tx, rx, flight >>
  BY DEF link
<1>2. /\ Sent => Sent'
      /\ Started => Started'
      /\ Settled => Settled'
  BY <1>1, SentStays, StartedStays, SettledStays
<1> QED BY <1>2 DEF Between

\* The answer could not be asked for, and is still owed.
LEMMA RequestTimesOutAlong ==
    ASSUME TypeInv, Along, Native!RequestTimesOut
    PROVE  Along'
<1>1. /\ pc = "request" /\ pc' = "idle" /\ result' = << "spi" >>
      /\ answer'.phase = "sent" /\ answer'.room = call.room
      /\ UNCHANGED << idx, device, tx, rx, flight, calls, call, room, left, buffer,
                      saved, intact, firm >>
  BY DEF Native!RequestTimesOut, Native!Goto, Native!link
<1>2. call.how = "start" /\ Sent /\ firm.own
  BY <1>1 DEF Along, Stage
<1>3. Sent'
  BY <1>1, <1>2, SentStays
<1>4. Stage' /\ ResultOK'
  BY <1>1, <1>2, <1>3 DEF Stage, Between, ResultOK, Returned
<1> QED BY <1>1, <1>2, <1>4 DEF Along

\* It is asked for again.
LEMMA RequestAgainAlong ==
    ASSUME TypeInv, Along, Native!RequestAgain
    PROVE  Along'
<1>1. /\ pc = "idle" /\ pc' = "request" /\ answer.phase = "sent"
      /\ UNCHANGED << idx, device, tx, rx, flight, calls, call, room, left, buffer,
                      result, answer, saved, intact, firm >>
  BY DEF Native!RequestAgain, Native!Goto, Native!link
<1>2. call.how = "start" /\ Sent /\ firm.own /\ ~Returned
  BY <1>1 DEF Along, Stage, Between, ResultOK
<1>3. Sent'
  BY <1>1, <1>2, SentStays
<1>4. Stage' /\ ResultOK'
  BY <1>1, <1>2, <1>3 DEF Stage, ResultOK, Returned
<1> QED BY <1>1, <1>2, <1>4 DEF Along

\* nile_mcu_native_recv_cmd_finish is called,
LEMMA FinishAlong ==
    ASSUME TypeInv, Along, Native!Finish
    PROVE  Along'
<1>1. /\ pc = "idle" /\ pc' = "finish" /\ answer.phase = "started"
      /\ UNCHANGED << idx, device, tx, rx, flight, calls, call, room, left, buffer,
                      result, answer, saved, intact, firm >>
  BY DEF Native!Finish, Native!Goto, Native!link
<1>2. call.how = "start" /\ Started /\ firm.own /\ ~Returned
  BY <1>1 DEF Along, Stage, Between, ResultOK
<1>3. Started'
  BY <1>1, <1>2, StartedStays
<1>4. Stage' /\ ResultOK'
  BY <1>1, <1>2, <1>3 DEF Stage, ResultOK, Returned
<1> QED BY <1>1, <1>2, <1>4 DEF Along

\* and may be called again when it timed out.
LEMMA FinishTimesOutAlong ==
    ASSUME TypeInv, Along, Native!FinishTimesOut
    PROVE  Along'
<1>1. /\ pc = "finish" /\ pc' = "idle" /\ result' = << "spi" >>
      /\ UNCHANGED << idx, device, tx, rx, flight, calls, call, room, left, buffer,
                      answer, saved, intact, firm >>
  BY DEF Native!FinishTimesOut, Native!Goto, Native!link
<1>2. call.how = "start" /\ Started /\ firm.own /\ answer.phase = "started"
  BY <1>1 DEF Along, Stage, TypeInv, NativeTypes
<1>3. Started'
  BY <1>1, <1>2, StartedStays
<1>4. Stage' /\ ResultOK'
  BY <1>1, <1>2, <1>3 DEF Stage, Between, ResultOK, Returned
<1> QED BY <1>1, <1>2, <1>4 DEF Along

\* A call is made: its command is put where it will be sent from.
LEMMA CallAlong ==
    ASSUME TypeInv, Along, NEW c \in Native!Calls, Native!Call(c)
    PROVE  Along'
<1>1. /\ pc = "idle" /\ answer.phase = "none" /\ calls' = calls + 1 /\ call' = c
      /\ buffer' = << >> /\ result' = << "none" >>
      /\ UNCHANGED << idx, device, flight, answer, intact, firm >>
      /\ IF c.how = "fat"
         THEN pc' = "control" /\ tx' = Forgotten(tx, Filler)
         ELSE /\ pc' = "command"
              /\ tx' = [ Forgotten(tx, Filler) EXCEPT ![idx] = << "cmd", calls', c >> ]
  BY SameLink DEF Native!Call, Native!Command
<1>2. Settled /\ firm.own
  BY <1>1 DEF Along, Stage, Between
<1>3. idx \in { 0, 1 } /\ DOMAIN Forgotten(tx, Filler) = { 0, 1 }
  BY DEF TypeInv, LinkInv, Forgotten
<1>4. Busy => /\ flight.buf \in { 0, 1 } /\ flight.buf # idx
              /\ Forgotten(tx, Filler)[flight.buf] = tx[flight.buf]
  <2>1. Busy => flight.buf = 1 - idx
    BY DEF TypeInv, LinkInv
  <2> QED BY <1>3, <2>1 DEF Forgotten
<1>5. Busy => tx'[flight.buf] = tx[flight.buf]
  BY <1>1, <1>3, <1>4
<1>6. Settled'
  BY <1>1, <1>2, <1>5 DEF Settled, Silent, Reading, Busy
<1>7. pc' = "command" => tx'[idx'] = TheCommand'
  BY <1>1, <1>3 DEF TheCommand
<1>8. Stage' /\ ResultOK'
  BY <1>1, <1>6, <1>7 DEF Stage, ResultOK, Returned
<1> QED BY <1>1, <1>2, <1>8 DEF Along

\* While other devices are turned to, nothing of an answer is lost.
LEMMA OthersAlong ==
    ASSUME TypeInv, Along, Native!Others
    PROVE  Along'
<1>1. /\ pc = "idle" /\ answer.phase # "sent" /\ ~Busy
      /\ UNCHANGED << idx, tx, rx, pc, calls, call, room, left, buffer, result, answer,
                      intact, firm >>
      /\ \/ UNCHANGED flight
         \/ answer.phase = "none" /\ flight'.mode = "read" /\ flight'.dev = "TF"
  BY SameLink DEF Native!Others, Native!nativeVars, Native!NoFlight
<1>2. Between
  BY <1>1 DEF Along, Stage
<1>3. answer.phase = "none" => Settled'
  <2> SUFFICES ASSUME answer.phase = "none" PROVE Settled'
    OBVIOUS
  <2>1. Silent
    BY <1>1, <1>2, NothingInFlight DEF Between
  <2> QED BY <1>1, <2>1 DEF Settled, Silent, Busy
<1>4. answer.phase = "started" => call.how = "start" /\ Started'
  BY <1>1, <1>2, StartedStays DEF Between
<1>5. Stage'
  BY <1>1, <1>3, <1>4 DEF Stage, Between
<1>6. ResultOK'
  BY <1>1 DEF Along, ResultOK, Returned, Cut
<1> QED BY <1>1, <1>5, <1>6 DEF Along
\* What a call gives of the data that came is the result there should be.
LEMMA GivenOK ==
    ASSUME TypeInv, IsCut, firm.cmd = calls, pc' \in { "idle", "restore" },
           answer.phase = "none", UNCHANGED << calls, call, answer, firm >>,
           flight'.mode # "write", buffer' = Native!Own(calls, room),
           NEW gives, result' = Native!Given(gives, buffer', firm.flags)
    PROVE  ResultOK'
<1> SUFFICES ASSUME Returned' PROVE ResultOK'
  BY DEF ResultOK
<1>1. room = Cut /\ room \in Nat /\ Cut' = Cut /\ firm.len \in Nat
  BY CutIs DEF IsCut, Cut
<1>2. result'[1] \in { "count", "value" }
  BY DEF Returned
<1>3. result' = IF result'[1] = "count"
                THEN << "count", Native!Received(room, firm.flags) >>
                ELSE << "value", Native!Value(buffer') >>
  BY <1>1, <1>2, GivenIs
<1> QED BY <1>1, <1>3 DEF ResultOK

\* A header that came is that of the answer.
LEMMA HeaderIs ==
    ASSUME TypeInv, NEW err \in BOOLEAN, NEW h \in Native!Headers(Header(err))
    PROVE  h = Header(err) /\ h[2] = err /\ h[3] = firm.len /\ h[4] = firm.flags
BY DEF Native!Headers, Header

\* The header has come, and the length in it is cut to the buffer of the caller.
LEMMA HeaderArrivesAlong ==
    ASSUME TypeInv, Along, Native!HeaderArrives, intact'
    PROVE  Along'
<1>1. /\ pc = "header_wait" /\ ~Busy /\ idx' = 1 - idx
      /\ UNCHANGED << device, tx, rx, flight, calls, call, buffer, answer, saved,
                      firm >>
  BY SameLink DEF Native!HeaderArrives, Flip
<1>2. /\ device = "MCU" /\ Heading /\ buffer = << >> /\ ResultOK /\ firm.own
      /\ answer.phase = "none" /\ call.how # "start"
  BY <1>1 DEF Along, Stage, TypeInv, NativeTypes
<1>3. PICK err \in BOOLEAN : HeaderOK /\ rx[1 - idx] = << Header(err) >>
  BY <1>1, <1>2, NothingInFlight
<1>4. Left(Data)
  BY <1>1, <1>2, NothingInFlight
<1>5. PICK h \in Native!Headers(rx[idx'][1]) : Native!Header(h)
  BY DEF Native!HeaderArrives
<1>6. rx[idx'][1] = Header(err)
  BY <1>1, <1>3
<1>7. h[2] = err /\ h[3] = firm.len /\ h[4] = firm.flags
  BY <1>5, <1>6, HeaderIs
<1>8. /\ firm.len \in Nat /\ call.room \in Nat /\ calls \in Nat /\ firm.cmd = calls
      /\ firm.need = << >> /\ ~firm.work /\ firm.out = Data
  BY <1>3, <1>4, TheCall, ConstantsNat DEF HeaderOK, Left, OfCall
<1>9. Native!Min({ h[3], call.room }) = Cut
  BY <1>7, <1>8, MinIs DEF Cut
<1>10. Cut \in Nat /\ Cut <= firm.len /\ Cut <= call.room /\ firm.len - Cut \in Nat
  BY <1>8 DEF Cut
<1>11. Data' = Data /\ Cut' = Cut /\ (Left(Data) => Left(Data)') /\ ~Busy'
  BY <1>1 DEF Data, Cut, Left, OfCall, Busy
<1>12. firm.len = 0 => Settled'
  <2>1. firm.len = 0 => Data = << >>
    BY <1>8, OwnIs DEF Data
  <2> QED BY <1>1, <1>8, <2>1 DEF Settled, Silent, Busy
<1>13. CASE err
  <2>1. /\ result' = << "mcu" >> /\ pc' \in { "idle", "restore" } /\ firm.len = 0
    BY <1>5, <1>7, <1>13 DEF Native!Header, Native!HeaderError, Native!Return
  <2>2. Settled'
    BY <1>12, <2>1
  <2>3. Stage' /\ ResultOK'
    BY <1>1, <1>2, <2>1, <2>2 DEF Stage, Between, ResultOK, Returned
  <2> QED BY <1>1, <1>2, <2>3 DEF Along
<1>14. CASE ~err
  <2>1. /\ room' = Cut /\ left' = firm.len - Cut
        /\ IF Cut > 0 THEN pc' = "data" /\ result' = << "header", firm.flags >>
           ELSE IF firm.len > 0 THEN pc' = "skip" /\ result' = << "header", firm.flags >>
           ELSE Native!Return(Native!Given(call.gives, << >>, firm.flags))
    BY <1>5, <1>7, <1>9, <1>14 DEF Native!Header
  <2>2. IsCut'
    BY <1>1, <1>8, <1>11, <2>1 DEF IsCut
  <2>3. CASE Cut > 0
    <3>1. pc' = "data" /\ result' = << "header", firm.flags >>
      BY <2>1, <2>3
    <3>2. Stage'
      BY <1>1, <1>2, <1>4, <1>11, <2>1, <2>2, <2>3, <3>1 DEF Stage
    <3>3. ResultOK'
      BY <3>1, HeaderKept
    <3> QED BY <1>1, <1>2, <3>2, <3>3 DEF Along
  <2>4. CASE ~(Cut > 0) /\ firm.len > 0
    <3>1. /\ pc' = "skip" /\ result' = << "header", firm.flags >>
          /\ room' = 0 /\ left' > 0
      <4>1. Cut = 0
        BY <1>10, <2>4
      <4>2. IF firm.len > 0 THEN pc' = "skip" /\ result' = << "header", firm.flags >>
            ELSE Native!Return(Native!Given(call.gives, << >>, firm.flags))
        BY <2>1, <2>4
      <4> QED BY <1>8, <2>1, <2>4, <4>1, <4>2
    <3>2. Rest' = Data
      <4>1. After(Data, 0) = Data
        BY <1>8, OwnCut DEF Data
      <4> QED BY <1>11, <3>1, <4>1 DEF Rest
    <3>3. Left(Rest)'
      BY <1>4, <1>11, <3>2
    <3>4. buffer' = Native!Own(calls', room')
      <4>1. Native!Own(calls, 0) = << >>
        BY OwnIs
      <4> QED BY <1>1, <1>2, <3>1, <4>1
    <3>5. Stage'
      BY <1>1, <1>2, <1>11, <2>2, <3>1, <3>3, <3>4 DEF Stage
    <3>6. ResultOK'
      BY <3>1, HeaderKept
    <3> QED BY <1>1, <1>2, <3>5, <3>6 DEF Along
  <2>5. CASE ~(Cut > 0) /\ ~(firm.len > 0)
    <3>1. Cut = 0 /\ firm.len = 0
      BY <1>8, <1>10, <2>5
    <3>2. /\ result' = Native!Given(call.gives, << >>, firm.flags)
          /\ pc' \in { "idle", "restore" }
      BY <2>1, <2>5 DEF Native!Return
    <3>3. Native!Own(calls, 0) = << >>
      BY OwnIs
    <3>4. ResultOK'
      <4> SUFFICES ASSUME Returned' PROVE ResultOK'
        BY DEF ResultOK
      <4>1. result' = IF result'[1] = "count"
                      THEN << "count", Native!Received(0, firm.flags) >>
                      ELSE << "value", Native!Value(<< >>) >>
        <5>1. 0 \in Nat
          OBVIOUS
        <5> QED BY <3>2, <3>3, <5>1, GivenIs DEF Returned
      <4>2. Cut' = 0 /\ buffer' = << >> /\ Native!Own(calls', Cut') = << >>
        BY <1>1, <1>2, <1>11, <3>1, <3>3
      <4>3. flight'.mode # "write"
        BY <1>1 DEF Busy
      <4> QED BY <1>1, <1>2, <1>8, <3>2, <4>1, <4>2, <4>3 DEF ResultOK
    <3>5. Settled'
      BY <1>12, <3>1
    <3>6. Stage'
      BY <1>1, <1>2, <3>2, <3>5 DEF Stage, Between
    <3> QED BY <1>1, <1>2, <3>4, <3>6 DEF Along
  <2> QED BY <2>3, <2>4, <2>5
<1> QED BY <1>13, <1>14

\* The data are asked for.
LEMMA DataStartAlong ==
    ASSUME TypeInv, Along, Roomy, Native!DataStart
    PROVE  Along'
<1>1. /\ pc = "data" /\ pc' = "data_wait" /\ StartReading("read", room)
      /\ UNCHANGED << idx, device, tx, rx, calls, call, room, left, buffer,
                      result, answer, saved, intact, firm >>
  BY SameLink DEF Native!DataStart, Native!Goto
<1>2. /\ device = "MCU" /\ IsCut /\ room > 0 /\ Left(Data) /\ ResultOK /\ firm.own
      /\ answer.phase = "none" /\ result = << "header", firm.flags >>
  BY <1>1 DEF Along, Stage, TypeInv, NativeTypes
<1>3. room \in 1 .. Window
  <2>1. call.room \in 0 .. Window /\ Window \in Nat
    BY CallsFit, TheCall, ConstantsNat DEF Fits
  <2>2. room <= call.room /\ room \in Nat
    BY <1>2, CutIs
  <2> QED BY <1>2, <2>1, <2>2
<1>4. flight'.mode = "read" /\ flight'.dev = device /\ flight'.n = room
  BY <1>1, <1>3, AskedFor
<1>5. IsCut' /\ Left(Data)'
  BY <1>1, <1>2 DEF IsCut, Cut, Left, OfCall, Data
<1>6. Coming'
  BY <1>1, <1>2, <1>4, <1>5 DEF Coming, Reading
<1>7. Stage' /\ ResultOK'
  BY <1>1, <1>2, <1>5, <1>6, NothingYet DEF Stage
<1> QED BY <1>1, <1>2, <1>7 DEF Along

\* The data have come: the call returns, or has to skip the rest.
LEMMA DataArrivesAlong ==
    ASSUME TypeInv, Along, Native!DataArrives
    PROVE  Along'
<1>1. /\ pc = "data_wait" /\ ~Busy /\ idx' = 1 - idx
      /\ buffer' = Units(rx[idx'], room)
      /\ IF left > 0 THEN pc' = "skip" /\ UNCHANGED result
         ELSE /\ result' = Native!Given(call.gives, buffer', result[2])
              /\ pc' \in { "idle", "restore" }
      /\ UNCHANGED << device, tx, rx, flight, calls, call, room, left, answer,
                      saved, intact, firm >>
  BY SameLink DEF Native!DataArrives, Native!Arrived, Native!Return, Flip
<1>2. /\ device = "MCU" /\ IsCut /\ room > 0 /\ Coming /\ ResultOK /\ firm.own
      /\ answer.phase = "none" /\ result = << "header", firm.flags >>
  BY <1>1 DEF Along, Stage, TypeInv, NativeTypes
<1>3. Left(Rest) /\ rx[1 - idx] = Native!Own(calls, room)
  BY <1>1, <1>2, NothingInFlight
<1>4. room \in Nat /\ left \in Nat
  BY <1>2, CutIs
<1>5. buffer' = Native!Own(calls, room)
  <2>1. Units(Native!Own(calls, room), room) = Native!Own(calls, room)
    BY <1>4, OwnCut
  <2> QED BY <1>1, <1>3, <2>1
<1>6. /\ Rest' = Rest /\ IsCut' /\ ~Busy' /\ (Left(Rest) => Left(Rest)')
      /\ Data' = Data
  BY <1>1, <1>2 DEF Rest, Data, IsCut, Cut, Busy, Left, OfCall
<1>7. CASE left > 0
  <2>1. Stage'
    BY <1>1, <1>2, <1>3, <1>5, <1>6, <1>7 DEF Stage
  <2>2. ResultOK'
    BY <1>1, <1>2, <1>7, NothingYet
  <2> QED BY <1>1, <1>2, <2>1, <2>2 DEF Along
<1>8. CASE ~(left > 0)
  <2>1. left = 0 /\ Rest = << >>
    BY <1>2, <1>4, <1>8, CutIs
  <2>2. Settled'
    BY <1>1, <1>3, <1>6, <2>1 DEF Settled, Silent, Left
  <2>3. ResultOK'
    <3>1. flight'.mode # "write"
      BY <1>1 DEF Busy
    <3> QED BY <1>1, <1>2, <1>3, <1>5, <1>8, <3>1, GivenOK DEF Left, OfCall
  <2>4. Stage'
    BY <1>1, <1>2, <1>8, <2>2 DEF Stage, Between
  <2> QED BY <1>1, <1>2, <2>3, <2>4 DEF Along
<1> QED BY <1>7, <1>8

\* What is left of the answer is asked for, and will not be looked at.
LEMMA SkipAlong ==
    ASSUME TypeInv, Along, Native!Skip, intact'
    PROVE  Along'
<1>1. /\ pc = "skip" /\ ~Busy /\ left <= Window
  <2>1. Native!Busy = Busy
    BY SameLink
  <2> QED BY <2>1, Zenon DEF Native!Skip
<1>2. /\ StartReading("read", left)
      /\ result' = Native!Given(call.gives, buffer, result[2])
      /\ pc' \in { "idle", "restore" }
      /\ UNCHANGED << idx, device, tx, rx, calls, call, room, left, buffer,
                      answer, saved, firm >>
  BY <1>1, SameLink DEF Native!Skip, Native!Return
<1>3. /\ device = "MCU" /\ IsCut /\ left > 0 /\ Left(Rest) /\ ResultOK /\ firm.own
      /\ answer.phase = "none" /\ buffer = Native!Own(calls, room)
      /\ result[2] = firm.flags
  BY <1>1 DEF Along, Stage, TypeInv, NativeTypes
<1>4. left \in 1 .. Window /\ Len(Rest) = left
  BY <1>1, <1>3, CutIs, ConstantsNat
<1>5. flight'.mode = "read" /\ flight'.dev = "MCU" /\ flight'.n = left
  BY <1>2, <1>3, <1>4, AskedFor
<1>6. Settled'
  BY <1>2, <1>3, <1>4, <1>5 DEF Settled, Reading, Left
<1>7. Stage'
  BY <1>2, <1>3, <1>6 DEF Stage, Between
<1>8. ResultOK'
  BY <1>2, <1>3, <1>5, GivenOK DEF Left, OfCall
<1> QED BY <1>2, <1>3, <1>7, <1>8 DEF Along

\* All of the answer has come that was asked for in advance.
LEMMA FinishArrivesAlong ==
    ASSUME TypeInv, Along, Native!FinishArrives
    PROVE  Along'
<1>1. /\ pc = "finish" /\ pc' = "idle" /\ ~Busy /\ idx' = 1 - idx
      /\ answer' = Native!NoAnswer
      /\ UNCHANGED << device, tx, rx, flight, calls, call, left, saved, intact, firm >>
  BY SameLink DEF Native!FinishArrives, Native!Goto, Flip
<1>2. /\ call.how = "start" /\ Started /\ ResultOK /\ firm.own
      /\ answer.phase = "started" /\ answer.room = call.room
  BY <1>1 DEF Along, Stage, TypeInv, NativeTypes
<1>3. PICK err \in BOOLEAN :
         HeaderOK /\ rx[1 - idx] = Units(AnswerOf(err), 1 + call.room)
  BY <1>1, <1>2, NothingInFlight
<1>4. Left(<< >>)
  BY <1>1, <1>2, NothingInFlight
<1>5. /\ firm.len \in Lengths /\ firm.len \in Nat /\ call.room \in Nat /\ calls \in Nat
      /\ firm.cmd = calls /\ firm.len <= call.room
      /\ firm.need = << >> /\ ~firm.work /\ firm.out = << >>
  BY <1>2, <1>3, <1>4, TheCall, ConstantsNat DEF HeaderOK, Left, OfCall
<1> DEFINE units == Units(AnswerOf(err), 1 + call.room)
<1>6. /\ units[1] = Header(err)
      /\ Units(After(units, 1), firm.len) = Native!Own(calls, firm.len)
  <2>1. LET a == Native!Answer(calls, err, firm.len, firm.flags) IN
        /\ Units(a, 1 + call.room)[1] = << "header", err, firm.len, firm.flags >>
        /\ firm.len <= call.room =>
             Units(After(Units(a, 1 + call.room), 1), firm.len)
                = Native!Own(calls, firm.len)
    <3> HIDE DEF units
    <3>1. /\ firm.len \in Lengths /\ call.room \in Nat /\ calls \in Nat
          /\ firm.flags \in Flags
      BY <1>3, <1>5 DEF HeaderOK
    <3> QED BY ONLY <3>1, AnswerCut
  <2> QED BY <1>5, <2>1 DEF AnswerOf, Header
<1>7. rx[idx'] = units
  BY <1>1, <1>3
<1> HIDE DEF units
<1>8. PICK h \in Native!Headers(rx[idx'][1]) :
         LET n == Native!Min({ h[3], answer.room }) IN
         IF h[2] THEN result' = << "mcu" >> /\ UNCHANGED << room, buffer >>
         ELSE /\ room' = n
              /\ buffer' = Units(After(rx[idx'], 1), n)
              /\ result' = Native!Given(Native!Gives(answer.room), buffer', h[4])
  BY SameLink DEF Native!FinishArrives
<1>9. h[2] = err /\ h[3] = firm.len /\ h[4] = firm.flags
  BY <1>6, <1>7, <1>8, HeaderIs
<1>10. Native!Min({ h[3], answer.room }) = Cut /\ Cut = firm.len /\ Cut' = Cut
  BY <1>1, <1>2, <1>5, <1>9, MinIs DEF Cut
<1>11. Settled' /\ flight'.mode # "write"
  BY <1>1, <1>5 DEF Settled, Silent, Busy
<1>12. Stage'
  BY <1>1, <1>11 DEF Stage, Between, Native!NoAnswer
<1>13. ResultOK'
  <2>1. CASE err
    BY <1>8, <1>9, <2>1 DEF ResultOK, Returned
  <2>2. CASE ~err
    <3> SUFFICES ASSUME Returned' PROVE ResultOK'
      BY DEF ResultOK
    <3>1. /\ buffer' = Native!Own(calls, firm.len)
          /\ result' = Native!Given(Native!Gives(answer.room),
                                    Native!Own(calls, firm.len), firm.flags)
      BY <1>6, <1>7, <1>8, <1>9, <1>10, <2>2
    <3>2. result' = IF result'[1] = "count"
                    THEN << "count", Native!Received(firm.len, firm.flags) >>
                    ELSE << "value", Native!Value(buffer') >>
      BY <1>5, <3>1, GivenIs DEF Returned
    <3> QED BY <1>1, <1>5, <1>10, <1>11, <3>1, <3>2 DEF ResultOK, Native!NoAnswer
  <2> QED BY <2>1, <2>2
<1> QED BY <1>1, <1>2, <1>12, <1>13 DEF Along, Native!NoAnswer
----------------------------------------------------------------------------
(***************************************************************************)
(* The firmware works, and everything together.                            *)
(***************************************************************************)
\* Nothing is worked on but what the firmware owes.
LEMMA FirmwareAnswersAlong ==
    ASSUME TypeInv, Along, runs = "firmware", Native!FirmwareAnswers
    PROVE  Along'
<1>1. /\ UNCHANGED << idx, device, tx, rx, flight, pc, calls, call, room, left, buffer,
                      result, answer, intact >>
      /\ firm.work
  BY DEF Native!FirmwareAnswers, Native!link
<1>2. /\ ~Settled /\ ~Telling /\ ~TellingMore /\ ~Coming
      /\ \A rest : ~Left(rest)
      /\ \A parts : ~Waiting(parts)
  BY <1>1
  DEF Settled, Silent, Telling, TellingMore, Coming, Left, Waiting, Deaf
<1>3. Owes => Owes' /\ (firm.own => firm'.own)
  BY FirmwareAnswered
<1>4. Sent => Sent' /\ (firm.own => firm'.own)
  BY <1>1, <1>2, <1>3 DEF Sent, Silent, Busy
<1>5. Started => Started' /\ (firm.own => firm'.own)
  BY <1>1, <1>2, <1>3 DEF Started, Reading
<1>6. Heading => Heading' /\ (firm.own => firm'.own)
  BY <1>1, <1>2, <1>3 DEF Heading, Reading
<1>7. ~Returned
  BY <1>2, ReturnedIsOver
<1>8. ResultOK'
  BY <1>1, <1>7 DEF ResultOK, Returned
<1>9. Stage' /\ firm'.own
  <2> SUFFICES /\ pc # "reset_low" => Stage'
               /\ pc # "reset_low" /\ firm.own => firm'.own
    <3>1. CASE pc # "reset_low"
      BY <3>1 DEF Along
    <3>2. CASE pc = "reset_low"
      <4>1. Stage'
        BY <1>1, <3>2 DEF Stage
      <4>2. firm'.own = firm.own
        BY TheCall DEF Native!FirmwareAnswers, Firms
      <4> QED BY <4>1, <4>2 DEF Along
    <3> QED BY <3>1, <3>2
  <2>1. CASE pc \in { "idle", "reset" }
    <3>1. answer.phase \in { "none", "sent", "started" }
      BY DEF TypeInv, NativeTypes
    <3>2. Between
      BY <2>1 DEF Along, Stage
    <3>3. Between' /\ (firm.own => firm'.own)
      BY <1>1, <1>2, <1>4, <1>5, <3>1, <3>2 DEF Between
    <3> QED BY <1>1, <2>1, <3>3 DEF Stage
  <2>2. pc \notin { "control", "restore", "command", "argument", "block", "data",
                    "data_wait", "skip", "header_abort", "data_abort" }
    BY <1>2 DEF Along, Stage
  <2>3. CASE pc \in { "request", "header" }
    BY <1>1, <1>4, <2>3 DEF Along, Stage
  <2>4. CASE pc = "finish"
    BY <1>1, <1>5, <2>4 DEF Along, Stage
  <2>5. CASE pc = "header_wait"
    BY <1>1, <1>6, <2>5 DEF Along, Stage
  <2> QED BY <2>1, <2>2, <2>3, <2>4, <2>5 DEF TypeInv, ResetTypes, NativePCs
<1> QED BY <1>1, <1>8, <1>9 DEF Along

\* What is in flight for others is so only where nothing of a command is left.
LEMMA OtherTransferEndsAlong ==
    ASSUME TypeInv, Along, runs = "firmware", Native!OtherTransferEnds
    PROVE  Along'
<1>1. /\ Busy /\ flight.dev # "MCU" /\ ~Busy' /\ flight'.mode # "write"
      /\ UNCHANGED << idx, device, tx, pc, calls, call, room, left, buffer,
                      result, answer, intact, firm >>
  <2>1. Busy /\ flight.dev # "MCU" /\ Ends(<< Filler >>) /\ UNCHANGED Native!nativeVars
    BY SameLink DEF Native!OtherTransferEnds
  <2>2. flight' = NoFlight
    BY <2>1 DEF Ends
  <2>3. flight'.mode = "none"
    BY <2>2 DEF NoFlight
  <2> QED BY <2>1, <2>3 DEF Ends, Native!nativeVars, Busy
<1>2. /\ ~Sent /\ ~Telling /\ ~TellingMore /\ ~Started /\ ~Heading /\ ~Coming
  BY <1>1 DEF Sent, Telling, TellingMore, Started, Heading, Coming, Sending, Reading
<1>3. Settled => Settled'
  BY <1>1 DEF Settled, Silent, Reading
<1>4. Stage'
  <2>1. CASE pc \in { "idle", "reset" }
    <3>1. answer.phase \in { "none", "sent", "started" }
      BY DEF TypeInv, NativeTypes
    <3>2. Between
      BY <2>1 DEF Along, Stage
    <3>3. Between'
      BY <1>1, <1>2, <1>3, <3>1, <3>2 DEF Between
    <3> QED BY <1>1, <2>1, <3>3 DEF Stage
  <2>2. pc \notin { "argument", "block", "request", "finish", "header", "header_wait",
                    "data", "data_wait", "skip", "header_abort", "data_abort" }
    BY <1>1, <1>2 DEF Along, Stage
  <2>3. CASE pc \in { "control", "restore", "command" }
    <3>1. TheCommand' = TheCommand
      BY <1>1 DEF TheCommand
    <3> QED BY <1>1, <1>3, <2>3, <3>1 DEF Along, Stage
  <2>4. CASE pc = "reset_low"
    BY <1>1, <2>4 DEF Stage
  <2> QED BY <2>1, <2>2, <2>3, <2>4 DEF TypeInv, ResetTypes, NativePCs
<1>5. ResultOK'
  BY <1>1 DEF Along, ResultOK, Returned, Cut
<1> QED BY <1>1, <1>4, <1>5 DEF Along

\* A step of a call, as long as nothing is cut off.
LEMMA DriverStepAlong ==
    ASSUME TypeInv, Along, Roomy, Native!DriverStep, intact, intact'
    PROVE  Along'
<1>1. ~Native!ReceiveTimesOut
  BY DEF Native!ReceiveTimesOut
<1>2. ~Native!ReceiveAborted
  BY DEF Native!ReceiveAborted, Along, Stage
<1> QED
  BY <1>1, <1>2, ControlAlong, RestoreAlong, CommandStartAlong, ArgumentStartAlong,
     BlockStartAlong, SendTimesOutAlong, HeaderStartAlong, HeaderArrivesAlong,
     DataStartAlong, DataArrivesAlong, SkipAlong, RequestStartAlong,
     RequestTimesOutAlong, FinishArrivesAlong, FinishTimesOutAlong
  DEF Native!DriverStep

\* What nile_mcu_reset and the boot loader's calls return is none of it.
LEMMA BootReturns ==
    ASSUME Boot!DriverStep \/ (\E o \in Boot!Operations : Boot!Call(o)), ~Returned
    PROVE  ~Returned'
<1>1. Boot!Proceed => result' \in { << "read" >>, << "true" >>, result }
  BY DEF Boot!Proceed, Boot!Done
<1>2. Boot!Fail => result' = << "false" >>
  BY DEF Boot!Fail
<1>3. result' \in { << "read" >>, << "true" >>, << "false" >>, << "none" >>, result }
  <2>1. CASE \E o \in Boot!Operations : Boot!Call(o)
    BY <2>1 DEF Boot!Call
  <2>2. CASE \/ Boot!FrameStart \/ Boot!SendStart \/ Boot!ExchangeStart
             \/ Boot!ReceiveStart
    BY <1>1, <2>2
    DEF Boot!FrameStart, Boot!SendStart, Boot!ExchangeStart, Boot!ReceiveStart
  <2>3. CASE \/ Boot!ExchangeArrives \/ Boot!ValueArrives \/ Boot!SizeArrives
             \/ Boot!ReceiveArrives \/ Boot!RefusedArrives
    BY <1>1, <1>2, <2>3
    DEF Boot!ExchangeArrives, Boot!ValueArrives, Boot!SizeArrives,
        Boot!ReceiveArrives, Boot!RefusedArrives
  <2>4. CASE Boot!PollArrives
    BY <1>1, <1>2, <2>4 DEF Boot!PollArrives
  <2>5. CASE Boot!TimesOut
    BY <1>1, <1>2, <2>5 DEF Boot!TimesOut
  <2>6. CASE Boot!ReceiveTimesOut \/ Boot!ReceiveAborted
    BY <1>1, <1>2, <2>6 DEF Boot!ReceiveTimesOut, Boot!ReceiveAborted
  <2> QED BY <2>1, <2>2, <2>3, <2>4, <2>5, <2>6 DEF Boot!DriverStep
<1> QED BY <1>3 DEF Returned

\* A step of a boot loader's call is taken at its points.
LEMMA BootPoints ==
    ASSUME Boot!DriverStep
    PROVE  pc \in BootPCs
BY DEF Boot!DriverStep, BootPCs, Boot!Arrives, Boot!FrameStart,
   Boot!SendStart, Boot!ExchangeStart, Boot!ReceiveStart, Boot!ExchangeArrives,
   Boot!ValueArrives, Boot!SizeArrives, Boot!ReceiveArrives, Boot!PollArrives,
   Boot!RefusedArrives, Boot!TimesOut, Boot!ReceiveTimesOut, Boot!ReceiveAborted

\* What was cut off stays so.
LEMMA StaysCutOff ==
    ASSUME Native!DriverStep, intact'
    PROVE  intact
<1>1. CASE Native!SendTimesOut \/ Native!Skip \/ Native!ReceiveTimesOut
  BY <1>1, Zenon DEF Native!SendTimesOut, Native!Skip, Native!ReceiveTimesOut
<1>2. ASSUME NEW h, Native!Header(h) PROVE intact
  BY <1>2, Zenon DEF Native!Header, Native!HeaderError
<1>3. CASE Native!HeaderArrives \/ Native!ReceiveAborted
  BY <1>2, <1>3 DEF Native!HeaderArrives, Native!ReceiveAborted
<1> QED
  BY <1>1, <1>3 DEF Native!DriverStep, Native!Goto, Native!Control, Native!Restore,
   Native!CommandStart, Native!ArgumentStart, Native!BlockStart,
   Native!HeaderStart, Native!DataStart, Native!DataArrives, Native!RequestStart,
   Native!RequestTimesOut, Native!FinishArrives, Native!FinishTimesOut

\* The steps of the program.
LEMMA ClientNative == TypeInv /\ NativeInv /\ Client => NativeInv'
<1> SUFFICES ASSUME TypeInv, NativeInv, Client PROVE NativeInv'
  OBVIOUS
<1>1. ASSUME NEW to \in BOOLEAN, Reset(to) PROVE NativeInv'
  <2>1. /\ pc = "idle" /\ pc' = "reset" /\ result' = << "none" >>
        /\ UNCHANGED << link, calls, intact, call, room, left, buffer, answer, saved,
                        firm, runs >>
    BY <1>1 DEF Reset, nativeOnly
  <2>2. ~Returned'
    BY <2>1 DEF Returned
  <2>3. Between => Between'
    BY <2>1, BetweenStays
  <2>4. Along => Along'
    BY <2>1, <2>2, <2>3 DEF Along, Stage, ResultOK
  <2> QED BY <2>1, <2>2, <2>4 DEF NativeInv
<1>2. CASE speaks = "firmware" /\ Native!Client /\ UNCHANGED << bootOnly, resetOnly >>
  <2>1. runs = "firmware" /\ runs' = runs
    BY <1>2 DEF TypeInv, ResetTypes, resetOnly
  <2>2. intact' = intact /\ pc' \notin { "reset", "reset_low" }
    BY <1>2 DEF Native!Client, Native!Call, Native!RequestAgain, Native!Finish,
       Native!Others, Native!Goto, Native!nativeVars
  <2>3. Along => Along'
    BY <1>2, CallAlong, RequestAgainAlong, FinishAlong, OthersAlong DEF Native!Client
  <2> QED BY <2>1, <2>2, <2>3 DEF NativeInv
<1>3. CASE /\ speaks = "loader" /\ \E o \in Boot!Operations : Boot!Call(o)
           /\ UNCHANGED << nativeOnly, resetOnly >>
  <2>1. runs = "loader" /\ runs' = runs /\ firm' = firm
    BY <1>3 DEF TypeInv, ResetTypes, resetOnly, nativeOnly
  <2>2. ~Returned'
    BY <1>3, <2>1, BootReturns DEF NativeInv
  <2> QED BY <2>1, <2>2 DEF NativeInv
<1>4. CASE speaks = "loader" /\ Native!Others /\ UNCHANGED << bootOnly, resetOnly >>
  <2>1. runs = "loader" /\ runs' = runs /\ firm' = firm /\ result' = result
    BY <1>4 DEF TypeInv, ResetTypes, resetOnly, Native!Others, Native!nativeVars
  <2> QED BY <2>1 DEF NativeInv, Returned
<1> QED BY <1>1, <1>2, <1>3, <1>4 DEF Client

\* The steps of a reset.
LEMMA ResetNative ==
    ASSUME TypeInv, NativeInv, ResetTimesOut \/ BootPin \/ Restart
    PROVE  NativeInv'
<1>1. CASE ResetTimesOut
  <2>1. /\ pc = "reset" /\ pc' = "idle" /\ result' = << "false" >>
        /\ UNCHANGED << link, calls, intact, call, room, left, buffer, answer, saved,
                        firm, runs >>
    BY <1>1 DEF ResetTimesOut, nativeOnly
  <2>2. ~Returned'
    BY <2>1 DEF Returned
  <2>3. Between => Between'
    BY <2>1, BetweenStays
  <2>4. Along => Along'
    BY <2>1, <2>2, <2>3 DEF Along, Stage, ResultOK
  <2> QED BY <2>1, <2>2, <2>4 DEF NativeInv
<1>2. CASE BootPin
  <2>1. /\ pc = "reset" /\ pc' = "reset_low"
        /\ UNCHANGED << calls, result, intact, call, room, left, buffer, answer, saved,
                        firm, runs >>
    BY <1>2 DEF BootPin, nativeOnly
  <2>2. ~Returned'
    BY <2>1 DEF NativeInv, Returned
  <2>3. Along => Along'
    BY <2>1, <2>2 DEF Along, Stage, ResultOK
  <2> QED BY <2>1, <2>2, <2>3 DEF NativeInv
<1>3. CASE Restart
  <2>1. /\ pc = "reset_low" /\ ~Busy /\ boot0 = want /\ want \in BOOLEAN
    BY <1>3 DEF Restart, TypeInv, ResetTypes
  <2>2. /\ runs' = (IF want THEN "loader" ELSE "firmware") /\ firm' = Native!Fresh
        /\ answer'.phase = "none" /\ flight' = flight
        /\ pc' = (IF want THEN "boot" ELSE "idle")
        /\ IF want THEN UNCHANGED result ELSE result' = << "true" >>
    BY <1>3, <2>1 DEF Restart, Restarted, Native!NoAnswer
  <2>3. ~Returned'
    BY <2>1, <2>2 DEF NativeInv, Returned
  <2>4. Settled' /\ firm'.own
    BY <2>1, <2>2 DEF Settled, Silent, Busy, Native!Fresh
  <2>5. ~want => Along'
    BY <2>2, <2>3, <2>4 DEF Along, Stage, Between, ResultOK
  <2> QED BY <2>1, <2>2, <2>3, <2>5 DEF NativeInv
<1> QED BY <1>1, <1>2, <1>3

\* The steps of calls, of either protocol.
LEMMA DriverNative == TypeInv /\ NativeInv /\ Roomy /\ DriverStep => NativeInv'
<1> SUFFICES ASSUME TypeInv, NativeInv, Roomy, DriverStep PROVE NativeInv'
  OBVIOUS
<1>1. CASE NativeStep
  <2>1. runs = "firmware" /\ runs' = runs
    BY <1>1, NativeBusyPC
    DEF NativeStep, TypeInv, ResetTypes, resetOnly, BootPCs, NativePCs
  <2>2. pc' \notin { "reset", "reset_low" } /\ (intact' => intact)
    BY <1>1, NativePCNext, StaysCutOff DEF NativeStep
  <2>3. Along /\ intact /\ intact' => Along'
    BY <1>1, DriverStepAlong DEF NativeStep
  <2> QED BY <2>1, <2>2, <2>3 DEF NativeInv
<1>2. CASE BootStep
  <2>1. /\ runs' = runs /\ firm' = firm
    BY <1>2 DEF BootStep, resetOnly, nativeOnly
  <2>2. runs = "loader"
    BY <1>2, BootPoints DEF BootStep, TypeInv, ResetTypes, BootPCs, NativePCs
  <2>3. ~Returned'
    BY <1>2, <2>2, BootReturns DEF NativeInv, BootStep
  <2> QED BY <2>1, <2>2, <2>3 DEF NativeInv
<1> QED BY <1>1, <1>2, ResetNative DEF DriverStep

\* The steps of the MCU and of the SPI controller.
LEMMA HardwareNative == TypeInv /\ NativeInv /\ HardwareStep => NativeInv'
<1> SUFFICES ASSUME TypeInv, NativeInv, HardwareStep PROVE NativeInv'
  OBVIOUS
<1>1. CASE /\ runs = "firmware" /\ Native!HardwareStep
           /\ UNCHANGED << bootOnly, resetOnly >>
  <2>1. UNCHANGED << pc, result, intact, runs >>
    BY <1>1 DEF Native!HardwareStep, Native!TransferEnds, Native!TransferStops,
       Native!OtherTransferEnds, Native!FirmwareAnswers, Native!nativeVars, resetOnly
  <2>2. intact => ~Native!TransferStops
    BY DEF TypeInv, LinkInv, Native!TransferStops
  <2>3. Along /\ intact => Along'
    BY <1>1, <2>2, TransferEndsAlong, FirmwareAnswersAlong, OtherTransferEndsAlong
    DEF Native!HardwareStep
  <2> QED BY <1>1, <2>1, <2>3 DEF NativeInv, Returned
<1>2. CASE /\ runs = "loader" /\ Boot!HardwareStep
           /\ UNCHANGED << nativeOnly, resetOnly >>
  <2>1. UNCHANGED << pc, result, runs, firm >>
    BY <1>2 DEF Boot!HardwareStep, Boot!TransferEnds, Boot!TransferStops, resetOnly,
       nativeOnly
  <2> QED BY <1>2, <2>1 DEF NativeInv, Returned
<1>3. CASE /\ runs = "loader" /\ Native!OtherTransferEnds
           /\ UNCHANGED << bootOnly, resetOnly >>
  <2>1. UNCHANGED << pc, result, runs, firm >>
    BY <1>3 DEF Native!OtherTransferEnds, Native!nativeVars, resetOnly
  <2> QED BY <1>3, <2>1 DEF NativeInv, Returned
<1> QED BY <1>1, <1>2, <1>3 DEF HardwareStep

\* A step that changes nothing.
LEMMA NativeStutters ==
    ASSUME NativeInv, UNCHANGED vars
    PROVE  NativeInv'
<1>1. UNCHANGED << idx, device, tx, rx, flight, pc, calls, result, intact, call, room,
                   left, buffer, answer, saved, firm, runs >>
  BY DEF vars, link, shared, nativeOnly, resetOnly
<1>2. Busy' = Busy /\ Cut' = Cut /\ Data' = Data /\ IsCut' = IsCut
  BY <1>1 DEF Busy, Cut, Data, IsCut
<1>3. Rest' = Rest
  BY <1>1, <1>2 DEF Rest
<1>4. Sent => Sent'
  BY <1>1, SentStays
<1>5. Started => Started'
  BY <1>1, StartedStays
<1>6. Settled => Settled'
  BY <1>1, SettledStays
<1>7. Owes => Owes'
  BY <1>1 DEF Owes, Deaf, Silent, Working, Answered, OfCall, HeaderOK, Left, AnswerOf
<1>8. \A parts : Waiting(parts) => Waiting(parts)'
  BY <1>1 DEF Waiting, Deaf, Silent, OfCall
<1>9. /\ Telling => Telling'
      /\ TellingMore => TellingMore'
  BY <1>1, <1>2, <1>8
  DEF Telling, TellingMore, Sending, Silent, TheCommand, TheArgument, TheBlock
<1>10. Left(Data) => Left(Data)'
  BY <1>1, <1>2 DEF Left, OfCall
<1>11. Left(Rest) => Left(Rest)'
  BY <1>1, <1>3 DEF Left, OfCall
<1>12. Heading => Heading'
  BY <1>1, <1>2, <1>7, <1>10 DEF Heading, Reading, HeaderOK, Header
<1>13. Coming => Coming'
  BY <1>1, <1>2, <1>10, <1>11 DEF Coming, Reading
<1>14. TheCommand' = TheCommand
  BY <1>1 DEF TheCommand
<1>15. Stage => Stage'
  BY <1>1, <1>2, <1>4, <1>5, <1>6, <1>9, <1>10, <1>11, <1>12, <1>13, <1>14
  DEF Stage, Between
<1>16. ResultOK => ResultOK'
  BY <1>1, <1>2 DEF ResultOK, Returned
<1> QED BY <1>1, <1>15, <1>16 DEF NativeInv, Along, Returned

\* Before the first call.
LEMMA NativeInit == Init => NativeInv
BY SameLink DEF Init, Native!Init, Native!LinkInit, Native!NoFlight, Native!NoAnswer,
   Native!Fresh, NativeInv, Along, Stage, Between, Settled, Silent, Busy, ResultOK,
      Returned

\* No step breaks the invariant.
LEMMA NativeStepKept == TypeInv /\ NativeInv /\ Roomy /\ [Next]_vars => NativeInv'
BY ClientNative, DriverNative, HardwareNative, NativeStutters DEF Next

\* The invariant says what AnswerIsOwn does, and what ArgumentsAreOwn does.
LEMMA NativeIsOwn ==
    TypeInv /\ NativeInv => AnswerIsOwn /\ Native!ArgumentsAreOwn
<1> SUFFICES ASSUME TypeInv, NativeInv PROVE AnswerIsOwn /\ Native!ArgumentsAreOwn
  OBVIOUS
<1>1. runs \in { "firmware", "loader" } /\ call.room \in Nat
  BY TheCall DEF TypeInv, ResetTypes
<1>2. Native!ArgumentsAreOwn
  BY <1>1 DEF NativeInv, Along, Native!ArgumentsAreOwn, Native!Fresh
<1>3. ASSUME pc = "idle", intact, Returned
      PROVE  LET n == Native!Min({ firm.len, call.room }) IN
             /\ firm.cmd = calls
             /\ buffer = Native!Own(calls, n)
             /\ result = IF result[1] = "count"
                         THEN << "count", Native!Received(n, firm.flags) >>
                         ELSE << "value", Native!Value(buffer) >>
  <2>1. ResultOK
    BY <1>1, <1>3 DEF NativeInv, Along
  <2>2. Native!Min({ firm.len, call.room }) = Cut
    BY <1>1, <1>3, <2>1, MinIs DEF ResultOK, Cut
  <2> QED BY <1>3, <2>1, <2>2 DEF ResultOK
<1>4. AnswerIsOwn
  BY <1>3 DEF AnswerIsOwn, Native!AnswerIsOwn, Returned
<1> QED BY <1>2, <1>4

\* A native call that returns something of an answer returns that of its own command,
\* from the first unit on, as many as there are or its buffer takes, however many calls
\* were made and waits repeated before it; and the number it returns is theirs, under
\* the bits that the firmware set in the header of this very answer, whatever the
\* headers before it had (src/core/mcu/nile_mcu_native_*.c).
THEOREM AnswersAreOwnCommands == Roomy => (Spec => []AnswerIsOwn)
<1> SUFFICES ASSUME Roomy PROVE Spec => []AnswerIsOwn
  OBVIOUS
<1>1. Init => NativeInv
  BY NativeInit
<1>2. TypeInv /\ NativeInv /\ [Next]_vars => NativeInv'
  BY NativeStepKept
<1>3. TypeInv /\ NativeInv => AnswerIsOwn
  BY NativeIsOwn
<1> QED BY <1>1, <1>2, <1>3, McuTypeInv, PTL DEF Spec

\* The firmware takes no word for an argument or block that is not of the command it
\* is at, unless a call was cut off half-way.
THEOREM FirmwareFollows == Roomy => (Spec => []Native!ArgumentsAreOwn)
<1> SUFFICES ASSUME Roomy PROVE Spec => []Native!ArgumentsAreOwn
  OBVIOUS
<1>1. Init => NativeInv
  BY NativeInit
<1>2. TypeInv /\ NativeInv /\ [Next]_vars => NativeInv'
  BY NativeStepKept
<1>3. TypeInv /\ NativeInv => Native!ArgumentsAreOwn
  BY NativeIsOwn
<1> QED BY <1>1, <1>2, <1>3, McuTypeInv, PTL DEF Spec

----------------------------------------------------------------------------
(***************************************************************************)
(* Every call ends: each step of a routine lowers StepsLeft.               *)
(***************************************************************************)
\* One step of a script less is more than any step takes.
LEMMA OneStepLess ==
    ASSUME NEW K \in Nat, NEW n \in Nat, NEW m \in Nat, m < n
    PROVE  K * m + K <= K * n /\ K * m \in Nat /\ K * n \in Nat
<1>1. PICK d \in Nat : n = m + 1 + d
  <2>1. n - m - 1 \in Nat /\ n = m + 1 + (n - m - 1)
    OBVIOUS
  <2> QED BY <2>1
<1>2. K * n = K * m + K + K * d
  BY <1>1
<1>3. K * m \in Nat /\ K * d \in Nat
  OBVIOUS
<1> QED BY <1>2, <1>3

\* What the step that a script is at still takes is less than one whole step.
LEMMA BootStepsBounded ==
    ASSUME retries \in 0 .. RetryMod - 1
    PROVE  /\ BootStepsLeft \in 0 .. StepsOfScript - 1 /\ StepsOfScript \in Nat
           /\ PollsLeft \in Nat /\ PollsLeft > 0
<1>1. RetryMod \in Nat /\ RetryMod > 0
  BY BootAssumption DEF BootAssumption
<1>2. PollsLeft \in 1 .. RetryMod
  BY <1>1 DEF PollsLeft
<1> HIDE DEF PollsLeft
<1>3. BootStepsLeft \in 0 .. 2 * RetryMod + 2
  BY <1>1, <1>2 DEF BootStepsLeft
<1> QED BY <1>1, <1>2, <1>3 DEF StepsOfScript

\* StepsLeft of a call of the boot loader.
LEMMA BootLeft ==
    ASSUME TypeInv, pc \in BootPCs
    PROVE  /\ StepsLeft = StepsOfScript * Len(todo) + BootStepsLeft
           /\ Len(todo) \in Nat /\ Len(todo) > 0 /\ StepsLeft \in Nat /\ StepsLeft > 0
<1>1. Len(todo) \in Nat /\ Len(todo) > 0
  BY HeadIs
<1>2. StepsLeft = StepsOfScript * Len(todo) + BootStepsLeft
  BY DEF BootPCs, StepsLeft
<1>3. BootStepsLeft \in 0 .. StepsOfScript - 1 /\ StepsOfScript \in Nat
  BY BootStepsBounded DEF TypeInv, BootTypes
<1>4. StepsOfScript * 0 + StepsOfScript <= StepsOfScript * Len(todo)
      /\ StepsOfScript * Len(todo) \in Nat
  BY ONLY <1>1, <1>3, OneStepLess
<1> QED BY <1>1, <1>2, <1>3, <1>4

\* A routine that goes on with fewer steps of its script, or ends, is nearer to its
\* end.
LEMMA FewerSteps ==
    ASSUME TypeInv, TypeInv', pc \in BootPCs,
           \/ pc' = "idle"
           \/ pc' \in BootPCs /\ Len(todo') < Len(todo)
    PROVE  StepsLeft' < StepsLeft
<1>1. /\ StepsLeft = StepsOfScript * Len(todo) + BootStepsLeft
      /\ Len(todo) \in Nat /\ StepsLeft \in Nat /\ StepsLeft > 0
  BY BootLeft
<1>2. CASE pc' = "idle"
  BY <1>1, <1>2 DEF StepsLeft
<1>3. CASE pc' \in BootPCs /\ Len(todo') < Len(todo)
  <2>1. StepsLeft' = StepsOfScript * Len(todo') + BootStepsLeft' /\ Len(todo') \in Nat
    <3>1. todo' \in Seq(Steps)
      BY DEF TypeInv, BootTypes
    <3>2. pc' \in BootPCs => StepsLeft' = StepsOfScript * Len(todo') + BootStepsLeft'
      BY DEF BootPCs, StepsLeft, StepsOfScript
    <3> QED BY <1>3, <3>1, <3>2, LenProperties
  <2>2. BootStepsLeft \in 0 .. StepsOfScript - 1 /\ StepsOfScript \in Nat
    BY BootStepsBounded DEF TypeInv, BootTypes
  <2>3. BootStepsLeft' \in 0 .. StepsOfScript - 1
    <3>1. retries' \in 0 .. RetryMod - 1
      BY DEF TypeInv, BootTypes
    <3>2. RetryMod \in Nat /\ RetryMod > 0
      BY BootAssumption DEF BootAssumption
    <3>3. PollsLeft' \in 1 .. RetryMod
      BY <3>1, <3>2 DEF PollsLeft
    <3> HIDE DEF PollsLeft
    <3> QED BY <3>2, <3>3 DEF BootStepsLeft, StepsOfScript
  <2>4. /\ StepsOfScript * Len(todo') + StepsOfScript <= StepsOfScript * Len(todo)
        /\ StepsOfScript * Len(todo') \in Nat /\ StepsOfScript * Len(todo) \in Nat
    BY ONLY <1>1, <1>3, <2>1, <2>2, OneStepLess
  <2> QED BY ONLY <1>1, <2>1, <2>2, <2>3, <2>4
<1> QED BY <1>2, <1>3

\* One that stays at its step is nearer to its end if it has less left of that one.
LEMMA LessOfStep ==
    ASSUME TypeInv, TypeInv', pc \in BootPCs, pc' \in BootPCs,
           Len(todo') <= Len(todo), BootStepsLeft' < BootStepsLeft
    PROVE  StepsLeft' < StepsLeft
<1>1. CASE Len(todo') < Len(todo)
  BY <1>1, FewerSteps
<1>2. CASE Len(todo') = Len(todo)
  <2>1. StepsLeft = StepsOfScript * Len(todo) + BootStepsLeft /\ Len(todo) \in Nat
    BY BootLeft
  <2>2. StepsLeft' = StepsOfScript * Len(todo') + BootStepsLeft'
    BY DEF BootPCs, StepsLeft, StepsOfScript
  <2>3. BootStepsLeft \in Int /\ StepsOfScript \in Nat
    BY BootStepsBounded DEF TypeInv, BootTypes
  <2>4. BootStepsLeft' \in Int
    <3>1. PollsLeft' \in Int
      BY BootAssumption DEF BootAssumption, TypeInv, BootTypes, PollsLeft
    <3> HIDE DEF PollsLeft
    <3> QED BY <3>1 DEF BootStepsLeft
  <2>5. StepsOfScript * Len(todo) \in Nat
    BY ONLY <2>1, <2>3
  <2> QED BY ONLY <1>2, <2>1, <2>2, <2>3, <2>4, <2>5, BootStepsLeft' < BootStepsLeft
<1>3. Len(todo') \in Nat /\ Len(todo) \in Nat
  <2>1. todo \in Seq(Steps) /\ todo' \in Seq(Steps)
    BY DEF TypeInv, BootTypes
  <2> QED BY <2>1, LenProperties
<1> QED BY <1>1, <1>2, <1>3

\* A step of a script that is done.
LEMMA ProceedAdvances ==
    ASSUME TypeInv, TypeInv', pc \in BootPCs, Boot!Proceed
    PROVE  StepsLeft' < StepsLeft
<1>1. todo \in Seq(Steps) /\ todo # << >> /\ Len(todo) \in Nat
  BY HeadIs
<1>2. Len(todo') = Len(todo) - 1
  BY <1>1, HeadTailProperties DEF Boot!Proceed
<1>3. pc' \in BootPCs \cup { "idle" }
  BY DEF Boot!Proceed, BootPCs
<1> QED BY <1>1, <1>2, <1>3, FewerSteps

\* Every step of a routine for the boot loader.
LEMMA BootAdvances ==
    ASSUME TypeInv, TypeInv', Boot!DriverStep
    PROVE  StepsLeft' < StepsLeft
<1>0. pc \in BootPCs
  BY DEF Boot!DriverStep, BootPCs, Boot!FrameStart, Boot!SendStart, Boot!ExchangeStart,
         Boot!ReceiveStart, Boot!ExchangeArrives, Boot!ValueArrives, Boot!SizeArrives,
         Boot!ReceiveArrives, Boot!PollArrives, Boot!RefusedArrives, Boot!Arrives,
         Boot!TimesOut, Boot!ReceiveTimesOut, Boot!ReceiveAborted
<1>1. /\ todo \in Seq(Steps) /\ todo # << >> /\ Len(todo) \in Nat /\ Len(todo) > 0
      /\ Head(todo) = todo[1] /\ ScriptOK(todo)
  BY <1>0, HeadIs
<1>2. /\ retries \in 0 .. RetryMod - 1 /\ RetryMod \in Nat /\ RetryMod > 0
      /\ PollsLeft \in Nat /\ PollsLeft > 0 /\ BootStepsLeft \in Nat
  BY BootStepsBounded, BootAssumption DEF BootAssumption, TypeInv, BootTypes
<1>3. ASSUME Boot!Fail PROVE StepsLeft' < StepsLeft
  BY <1>0, <1>3, FewerSteps DEF Boot!Fail
<1>4. CASE Boot!Proceed
  BY <1>0, <1>4, ProceedAdvances
<1>5. CASE \/ Boot!FrameStart \/ Boot!SendStart \/ Boot!ExchangeArrives
           \/ Boot!ValueArrives \/ Boot!ReceiveArrives
  BY <1>4, <1>5 DEF Boot!FrameStart, Boot!SendStart, Boot!ExchangeArrives,
                    Boot!ValueArrives, Boot!ReceiveArrives
<1>6. CASE Boot!ExchangeStart \/ Boot!ReceiveStart
  <2>1. pc = "boot" /\ pc' = "boot_wait" /\ todo' = todo /\ retries' = retries
    BY <1>6 DEF Boot!ExchangeStart, Boot!ReceiveStart
  <2>2. PollsLeft' = PollsLeft
    BY <2>1 DEF PollsLeft
  <2>3. BootStepsLeft' < BootStepsLeft
    <3> HIDE DEF PollsLeft
    <3> QED BY <1>2, <2>1, <2>2 DEF BootStepsLeft
  <2>4. pc' \in BootPCs /\ Len(todo') <= Len(todo)
    BY <1>1, <2>1 DEF BootPCs
  <2> QED BY <1>0, <2>3, <2>4, LessOfStep
<1>7. CASE Boot!SizeArrives
  <2>1. pc' = "boot" /\ Head(todo).what = "size"
    BY <1>7 DEF Boot!SizeArrives, Boot!Arrives
  <2>2. Len(todo) > 1 /\ 1 \in 1 .. Len(todo)
    BY <1>1, <2>1 DEF ScriptOK
  <2>3. PICK units :
          todo' = << Boot!Step("receive", units) >> \o SubSeq(todo, 3, Len(todo))
    BY <1>7 DEF Boot!SizeArrives
  <2> DEFINE rest == SubSeq(todo, 3, Len(todo))
             one  == << Boot!Step("receive", units) >>
  <2>4. rest \in Seq(Steps) /\ Len(rest) = Len(todo) - 2
    <3>1. \A i \in 3 .. Len(todo) : todo[i] \in Steps
      BY <1>1
    <3>2. rest \in Seq(Steps)
          /\ Len(rest) = IF 3 <= Len(todo) THEN Len(todo) - 3 + 1 ELSE 0
      BY <1>1, <3>1, SubSeqProperties
    <3> HIDE DEF rest
    <3>3. (IF 3 <= Len(todo) THEN Len(todo) - 3 + 1 ELSE 0) = Len(todo) - 2
      <4>1. PICK n \in Nat : n = Len(todo) /\ n > 1
        BY <1>1, <2>2
      <4>2. (IF 3 <= n THEN n - 3 + 1 ELSE 0) = n - 2
        BY <4>1
      <4> QED BY <4>1, <4>2
    <3> QED BY <3>2, <3>3
  <2>5. one \in Seq({ Boot!Step("receive", units) }) /\ Len(one) = 1
    OBVIOUS
  <2> HIDE DEF one, rest
  <2>6. Len(todo') = 1 + Len(rest)
    <3>1. rest \in Seq(Steps \cup { Boot!Step("receive", units) })
          /\ one \in Seq(Steps \cup { Boot!Step("receive", units) })
      BY <2>4, <2>5
    <3> QED BY <2>3, <2>5, <3>1, ConcatProperties DEF one, rest
  <2> QED BY <1>0, <1>1, <2>1, <2>4, <2>6, FewerSteps DEF BootPCs
<1>8. CASE Boot!PollArrives
  <2> DEFINE r == (retries - 1) % RetryMod
  <2>1. pc = "boot_wait" /\ Head(todo).what = "poll"
    BY <1>8 DEF Boot!PollArrives, Boot!Arrives
  <2>2. r # 0 => r = PollsLeft - 1
    <3>1. CASE retries = 0
      BY <1>2, <3>1 DEF PollsLeft
    <3>2. CASE retries > 0
      BY <1>2, <3>2 DEF PollsLeft
    <3> QED BY <1>2, <3>1, <3>2
  <2>3. \/ r = 0 /\ Boot!Fail
        \/ r # 0 /\ Boot!Proceed
        \/ /\ todo' = << Boot!Step("refused", Boot!Ack) >>
           /\ pc' = "boot"
        \/ r # 0 /\ retries' = r /\ pc' = "boot" /\ todo' = todo
    BY <1>8 DEF Boot!PollArrives
  <2>4. BootStepsLeft = 1 + 2 * PollsLeft
    BY <2>1 DEF BootStepsLeft
  <2>5. CASE todo' = << Boot!Step("refused", Boot!Ack) >> /\ pc' = "boot"
    <3>1. Len(todo') = 1 /\ Head(todo').what = "refused"
      BY <2>5 DEF Boot!Step
    <3>2. BootStepsLeft' = 2
      BY <2>5, <3>1 DEF BootStepsLeft
    <3>3. BootStepsLeft' < BootStepsLeft
      <4> HIDE DEF PollsLeft
      <4> QED BY <1>2, <2>4, <3>2
    <3>4. pc' \in BootPCs /\ Len(todo') <= Len(todo)
      BY <1>1, <2>5, <3>1 DEF BootPCs
    <3> QED BY <1>0, <3>3, <3>4, LessOfStep
  <2>6. CASE r # 0 /\ retries' = r /\ pc' = "boot" /\ todo' = todo
    <3>1. PollsLeft' = PollsLeft - 1
      <4>1. r = PollsLeft - 1 /\ retries' # 0
        BY <2>2, <2>6
      <4>2. PollsLeft' = retries'
        BY <4>1 DEF PollsLeft
      <4> QED BY <2>6, <4>1, <4>2
    <3>2. BootStepsLeft' = 2 + 2 * PollsLeft'
      BY <2>1, <2>6 DEF BootStepsLeft
    <3>3. BootStepsLeft' < BootStepsLeft
      BY ONLY <1>2, <2>4, <3>1, <3>2
    <3>4. pc' \in BootPCs /\ Len(todo') <= Len(todo)
      BY <1>1, <2>6 DEF BootPCs
    <3> QED BY <1>0, <3>3, <3>4, LessOfStep
  <2> QED BY <1>3, <1>4, <2>3, <2>5, <2>6
<1>9. CASE Boot!RefusedArrives
  BY <1>3, <1>9 DEF Boot!RefusedArrives
<1>10. CASE Boot!TimesOut
  BY <1>3, <1>4, <1>10 DEF Boot!TimesOut
<1>11. CASE Boot!ReceiveTimesOut
  <2>1. /\ pc \in { "boot", "boot_wait" } /\ pc' = "boot_abort"
        /\ todo' = todo /\ retries' = retries
    BY <1>11 DEF Boot!ReceiveTimesOut
  <2>2. PollsLeft' = PollsLeft
    BY <2>1 DEF PollsLeft
  <2>3. BootStepsLeft' < BootStepsLeft
    <3> HIDE DEF PollsLeft
    <3> QED BY <1>2, <2>1, <2>2 DEF BootStepsLeft
  <2>4. pc' \in BootPCs /\ Len(todo') <= Len(todo)
    BY <1>1, <2>1 DEF BootPCs
  <2> QED BY <1>0, <2>3, <2>4, LessOfStep
<1>12. CASE Boot!ReceiveAborted
  BY <1>3, <1>4, <1>12 DEF Boot!ReceiveAborted
<1> QED BY <1>5, <1>6, <1>7, <1>8, <1>9, <1>10, <1>11, <1>12 DEF Boot!DriverStep

\* Every step of a routine of the native protocol.
LEMMA NativeAdvances ==
    ASSUME Native!DriverStep
    PROVE  StepsLeft' < StepsLeft
<1> USE DEF StepsLeft, Native!Goto, Native!Return
<1>1. CASE Native!Control \/ Native!Restore
  BY <1>1 DEF Native!Control, Native!Restore
<1>2. CASE Native!CommandStart \/ Native!ArgumentStart \/ Native!BlockStart
  BY <1>2 DEF Native!CommandStart, Native!ArgumentStart, Native!BlockStart,
              Native!Receive
<1>3. CASE Native!SendTimesOut \/ Native!HeaderStart \/ Native!DataStart
  BY <1>3 DEF Native!SendTimesOut, Native!HeaderStart, Native!DataStart
<1>4. CASE Native!HeaderArrives
  <2>1. pc = "header_wait" /\ \E h : Native!Header(h)
    BY <1>4 DEF Native!HeaderArrives
  <2> QED BY <2>1 DEF Native!Header, Native!HeaderError
<1>5. CASE Native!DataArrives \/ Native!Skip
  BY <1>5 DEF Native!DataArrives, Native!Skip, Native!Arrived
<1>6. CASE Native!ReceiveTimesOut
  BY <1>6 DEF Native!ReceiveTimesOut
<1>7. CASE Native!ReceiveAborted
  <2>1. \/ pc \in { "header_abort", "data_abort" } /\ pc' \in { "idle", "restore" }
        \/ pc = "header_abort" /\ pc' \in { "idle", "restore", "data", "skip" }
        \/ pc = "data_abort" /\ pc' \in { "idle", "restore", "skip" }
    BY <1>7 DEF Native!ReceiveAborted, Native!Header, Native!HeaderError,
                Native!Arrived
  <2> QED BY <2>1
<1>8. CASE \/ Native!RequestStart \/ Native!RequestTimesOut \/ Native!FinishArrives
           \/ Native!FinishTimesOut
  BY <1>8 DEF Native!RequestStart, Native!RequestTimesOut, Native!FinishArrives,
              Native!FinishTimesOut
<1> QED BY <1>1, <1>2, <1>3, <1>4, <1>5, <1>6, <1>7, <1>8 DEF Native!DriverStep

\* The reset, and the script it gives to the boot loader.
LEMMA ResetAdvances ==
    ASSUME TypeInv', ResetTimesOut \/ BootPin \/ Restart
    PROVE  StepsLeft' < StepsLeft
<1>0. RetryMod \in Nat /\ RetryMod > 0
  BY BootAssumption DEF BootAssumption
<1>1. CASE ResetTimesOut
  BY <1>0, <1>1 DEF ResetTimesOut, StepsLeft, StepsOfScript
<1>2. CASE BootPin
  BY <1>0, <1>2 DEF BootPin, StepsLeft, StepsOfScript
<1>3. CASE Restart
  <2>1. StepsLeft = StepsOfScript * 5
    BY <1>3 DEF Restart, StepsLeft
  <2>2. CASE pc' = "idle"
    BY <1>0, <2>1, <2>2 DEF StepsLeft, StepsOfScript
  <2>3. CASE pc' = "boot"
    <3>1. Len(todo') = 4 /\ retries' = 0
      BY <1>3, <2>3 DEF Restart, Restarted, Boot!WaitAck
    <3>2. PollsLeft' = RetryMod
      BY <3>1 DEF PollsLeft
    <3>3. BootStepsLeft' \in 0 .. 2 * RetryMod + 2
      BY <1>0, <2>3, <3>2 DEF BootStepsLeft
    <3>4. StepsLeft' = StepsOfScript * 4 + BootStepsLeft'
      <4>1. StepsLeft' = StepsOfScript * Len(todo') + BootStepsLeft'
        BY <2>3 DEF StepsLeft, StepsOfScript
      <4> QED BY <3>1, <4>1
    <3>5. StepsOfScript \in Nat /\ StepsOfScript = 2 * RetryMod + 3
      BY <1>0 DEF StepsOfScript
    <3>6. PICK b \in 0 .. StepsOfScript - 1 : b = BootStepsLeft'
      BY <1>0, <3>3, <3>5
    <3>7. StepsOfScript * 4 + b < StepsOfScript * 5
      BY <3>5, <3>6
    <3> QED BY <2>1, <3>4, <3>6, <3>7
  <2> QED BY <1>3, <2>2, <2>3 DEF Restart
<1> QED BY <1>1, <1>2, <1>3

\* What the hardware does is no step of a routine.
LEMMA HardwareWaits ==
    ASSUME HardwareStep
    PROVE  StepsLeft' = StepsLeft
<1>1. UNCHANGED << pc, todo, retries >>
  BY DEF HardwareStep, bootOnly, nativeOnly, Native!HardwareStep, Boot!HardwareStep,
         Native!TransferEnds, Native!TransferStops, Native!OtherTransferEnds,
         Native!FirmwareAnswers, Native!nativeVars, Boot!TransferEnds,
         Boot!TransferStops
<1> QED BY <1>1 DEF StepsLeft, StepsOfScript, BootStepsLeft, PollsLeft

\* Every call of the native protocol, of the boot loader's and every reset ends after
\* a number of steps that is known when it starts, whatever the MCU answers, how
\* often it asks for patience, and whichever waits time out: what CallEnds says, but
\* for the fairness of the CPU (nile_mcu_boot_common.c, nile_mcu_native_recv_cmd.c,
\* nile_mcu_reset.c).
THEOREM McuCallsEnd == Spec => CallsAdvance /\ [](StepsLeft \in Nat)
<1>1. TypeInv /\ TypeInv' /\ [Next]_vars =>
        [ pc # "idle" => \/ StepsLeft' < StepsLeft
                         \/ HardwareStep /\ StepsLeft' = StepsLeft ]_vars
  <2> SUFFICES ASSUME TypeInv, TypeInv', Next, pc # "idle"
               PROVE  \/ StepsLeft' < StepsLeft
                      \/ HardwareStep /\ StepsLeft' = StepsLeft
    OBVIOUS
  <2>1. ~Client
    BY DEF Client, Reset, Native!Client, Native!Call, Native!RequestAgain,
           Native!Finish,
           Native!Others, Native!Goto, Boot!Call
  <2>2. CASE DriverStep
    BY <2>2, NativeAdvances, BootAdvances, ResetAdvances
       DEF DriverStep, NativeStep, BootStep
  <2> QED BY <2>1, <2>2, HardwareWaits DEF Next
<1>2. TypeInv => StepsLeft \in Nat
  <2> SUFFICES ASSUME TypeInv PROVE StepsLeft \in Nat
    OBVIOUS
  <2>1. CASE pc \in BootPCs
    BY <2>1, BootLeft
  <2>2. CASE pc \notin BootPCs
    BY <2>2, BootAssumption DEF BootAssumption, BootPCs, StepsLeft, StepsOfScript
  <2> QED BY <2>1, <2>2
<1> QED BY <1>1, <1>2, McuTypeInv, PTL DEF Spec, CallsAdvance

==============================================================================
