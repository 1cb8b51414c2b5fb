---------------------------- MODULE McuBootProofs ----------------------------
(***************************************************************************)
(* Proofs about the calls of the boot loader (McuBoot, in Mcu):            *)
(* src/core/mcu/nile_mcu_boot_*.c.                                         *)
(*                                                                         *)
(* The routine has a script of steps, the boot loader a sequence of what   *)
(* it expects.  The invariant (BootInv) says how many steps of the script  *)
(* the boot loader has been through at each point of a call, from which a  *)
(* call that succeeds was carried out, and the boot loader never loses     *)
(* track.  The lemmas say, in this order, what the steps of every script   *)
(* are, what the boot loader expects after each of them, what it makes of  *)
(* each word, and what each action of the routine and of the hardware does *)
(* to the invariant.                                                       *)
(***************************************************************************)
EXTENDS McuProofs

----------------------------------------------------------------------------
\* The buffers of the SPI controller, of 512 bytes, take an identity, and as many
\* bytes as are read or written at a time: 1 to 256 of them (mcu.h, lines 109 and 125),
\* since their number less one is sent in a byte.
Readable == Window >= 2 /\ Sizes \subseteq 1 .. Window

\* The script of the call in progress, and the bytes it has the boot loader told.
Whole == Boot!Script(op, calls)
Told ==
    CASE op.kind \in { "version", "id" } -> << >>
      [] op.kind = "read" -> << Boot!Address(calls), << "length", op.n - 1, 1 >> >>
      [] OTHER -> Boot!Meant(op, calls)

\* How many of these it has been told after h steps of the script, and of how many
\* it has already agreed to the checksum.
Gone(h) ==
    IF h < 5 \/ Told = << >> THEN 0
    ELSE IF h < 10 THEN 1
    ELSE IF h - 8 < Len(Told) THEN h - 8 ELSE Len(Told)
Agreed(h) ==
    IF h < 8 \/ Told = << >> THEN 0
    ELSE IF h < 11 + Len(Told) THEN 1 ELSE Len(Told)

\* What a step of a script is for the boot loader.
Token(step) ==
    CASE step.what \in { "skip", "poll", "echo", "frame", "receive" } -> step.what
      [] step.what = "size" -> "two"
      [] step.what = "value" -> "version"
      [] OTHER -> IF step.v[1] = "zero" THEN "dummy" ELSE step.v[1]
Tokens == [ i \in 1 .. Len(Whole) |-> Token(Whole[i]) ]

\* How far ahead it knows what comes, after h steps, and what it expects then: of an
\* erase it does not know the number of sectors until it is told.
Horizon(h) == IF op.kind = "erase" /\ h < 5 THEN 9 ELSE Len(Whole)
Awaited(h) == IF h \in { 0, Len(Whole) } THEN << "frame" >>
              ELSE SubSeq(Tokens, h + 1, Horizon(h))

\* The boot loader has been through h steps of the script.
LoaderAt(h) ==
    /\ loader.expect = Awaited(h)
    /\ h > 0 =>
          /\ loader.kind = op.kind /\ loader.cmd = calls
          /\ loader.got = SubSeq(Told, 1, Gone(h))
          /\ loader.part = SubSeq(Told, Agreed(h) + 1, Gone(h))
    /\ h >= Len(Whole) - 1 /\ op.kind # "read" =>
          loader.did = << op.kind, calls, Told >>

\* A word is on its way to it, or it is asked for data.
Carries(word) ==
    /\ flight.mode \in { "write", "exchange" } /\ flight.dev = "MCU"
    /\ tx[flight.buf] = word
\* The next step of the script is in flight.
Making(h) ==
    /\ LoaderAt(h)
    /\ IF Whole[h + 1].what = "receive"
       THEN flight.mode = "read" /\ flight.dev = "MCU" /\ flight.n = Whole[h + 1].v
       ELSE Carries(Whole[h + 1].v)

\* What comes of it when it has been made.
Bytes0(n) == [ i \in 1 .. n |-> << "stored", calls, i >> ]
Made(h) ==
    LET what == Whole[h + 1].what
        got  == rx[1 - idx]
    IN  /\ what # "poll" => LoaderAt(h + 1)
        /\ what = "poll" =>
              \/ got[1] = Boot!Ack /\ LoaderAt(h + 1)
              \/ got[1] = Boot!Nack /\ ExpectsEcho
              \/ got[1] \notin { Boot!Ack, Boot!Nack } /\ LoaderAt(h)
        /\ what = "value" => got[1] = << "value", calls >>
        /\ what = "size" => got[1] = << "size", 1 >>
        /\ what = "receive" => got = Bytes0(Whole[h + 1].v)

\* The data that have been received after j steps.
DataAt(j) ==
    /\ op.kind = "version" /\ j >= 6 => data = << << "value", calls >> >>
    /\ op.kind = "id" /\ j >= 7 => data = Bytes0(2)
    /\ op.kind = "read" /\ j >= 16 => data = Bytes0(op.n)

\* Between two calls it expects a frame, once the last word has arrived.
AtRest ==
    \/ ExpectsFrame /\ (Busy => flight.dev # "MCU")
    \/ ExpectsEcho /\ Carries(Boot!Ack)

\* The routine is about to take the step behind the first j, or has come back from it.
About(j) ==
    \/ j = 0 /\ AtRest
    \/ /\ j > 0 /\ device = "MCU"
       /\ \/ ~Busy /\ LoaderAt(j)
          \/ ~Busy /\ Whole[j].what = "skip" /\ LoaderAt(j - 1)
          \/ Making(j - 1) /\ Whole[j].what \in { "frame", "send", "skip", "echo" }
          \/ j > 1 /\ Whole[j].what = "skip" /\ Making(j - 2)
\* It waits for that step.
Waits(j) ==
    /\ j > 0 /\ device = "MCU"
    /\ \/ Making(j)
       \/ Whole[j + 1].what = "poll" /\ Making(j - 1)
       \/ ~Busy /\ Made(j)
\* It has been refused.
Refused ==
    /\ todo = Refusing /\ device = "MCU"
    /\ \/ pc = "boot" /\ ~Busy /\ ExpectsEcho
       \/ pc = "boot_wait" /\ ~Busy /\ ExpectsFrame
       \/ pc = "boot_wait" /\ Carries(Boot!Ack) /\ ExpectsEcho

\* Where the two sides are in the script of a call.
InCall ==
    \/ \E j \in 0 .. Len(Whole) - 1 :
          /\ todo = SubSeq(Whole, j + 1, Len(Whole)) /\ DataAt(j)
          /\ (pc = "boot" /\ About(j)) \/ (pc = "boot_wait" /\ Waits(j))
    \/ Refused

\* The call that returned was carried out.
Executed ==
    /\ op.kind \in { "write", "erase", "jump" } =>
          loader.did = << op.kind, calls, Told >>
    /\ DataAt(Len(Whole))

\* The firmware runs and no call of the boot loader's counts, or the boot loader does
\* and, unless a call was given up half-way, is where the routine takes it to be.
BootInv ==
    /\ runs = "firmware" =>
          ~loader.lost /\ ~loader.wrong /\ op.kind \notin OpKinds
    /\ op.kind \in OpKinds => op \in Boot!Operations
    /\ pc \in BootPCs => op.kind \in OpKinds \cup { "reset" }
    /\ runs = "loader" /\ intact =>
          /\ ~loader.lost /\ ~loader.wrong
          /\ pc \notin BootPCs => AtRest
          /\ pc \in BootPCs /\ op.kind \in OpKinds => InCall
          /\ pc = "idle" /\ op.kind \in OpKinds /\ result[1] \in { "true", "read" } =>
                Executed

----------------------------------------------------------------------------
(***************************************************************************)
(* The scripts, step by step, and what the boot loader is told in them.    *)
(***************************************************************************)
\* Three steps wait for an acknowledgement, and two send a word.
AckAt(s, k) == s[k + 1] = SkipStep /\ s[k + 2] = PollStep /\ s[k + 3] = EchoStep
Says(step, word) == step.what \in { "send", "exchange" } /\ step.v = word

\* What a step is made of.
LEMMA StepIs ==
    /\ \A what, v : Boot!Step(what, v).what = what /\ Boot!Step(what, v).v = v
    /\ SkipStep.what = "skip" /\ SkipStep.v = Boot!Zero
    /\ PollStep.what = "poll" /\ PollStep.v = Boot!Zero
    /\ EchoStep.what = "echo" /\ EchoStep.v = Boot!Ack
BY DEF Boot!Step, SkipStep, PollStep, EchoStep

\* Waiting for an acknowledgement takes three steps.
LEMMA WaitAckIs ==
    Boot!WaitAck \in Seq(Steps) /\ Len(Boot!WaitAck) = 3 /\ AckAt(Boot!WaitAck, 0)
<1>1. Boot!WaitAck = << SkipStep, PollStep, EchoStep >>
  BY DEF Boot!WaitAck, SkipStep, PollStep, EchoStep
<1>2. Boot!WaitAck \in Seq(Steps)
  BY WaitAckPlain DEF Plain
<1> HIDE DEF SkipStep, PollStep, EchoStep
<1>3. /\ Len(<< SkipStep, PollStep, EchoStep >>) = 3
      /\ << SkipStep, PollStep, EchoStep >>[1] = SkipStep
      /\ << SkipStep, PollStep, EchoStep >>[2] = PollStep
      /\ << SkipStep, PollStep, EchoStep >>[3] = EchoStep
  OBVIOUS
<1> QED BY <1>1, <1>2, <1>3 DEF AckAt

\* A sequence of steps that ends with them.
LEMMA AckBehind ==
    ASSUME NEW s \in Seq(Steps)
    PROVE  /\ s \o Boot!WaitAck \in Seq(Steps) /\ Len(s) \in Nat
           /\ Len(s \o Boot!WaitAck) = Len(s) + 3
           /\ \A i \in 1 .. Len(s) : (s \o Boot!WaitAck)[i] = s[i]
           /\ AckAt(s \o Boot!WaitAck, Len(s))
<1> DEFINE w == Boot!WaitAck
<1>1. w \in Seq(Steps) /\ Len(w) = 3 /\ AckAt(w, 0)
  BY WaitAckIs
<1> HIDE DEF w, Steps
<1>2. /\ s \o w \in Seq(Steps) /\ Len(s \o w) = Len(s) + Len(w) /\ Len(s) \in Nat
      /\ \A i \in 1 .. Len(s) : (s \o w)[i] = s[i]
      /\ \A i \in 1 .. Len(w) : (s \o w)[Len(s) + i] = w[i]
  BY <1>1, Joined
<1>3. /\ (s \o w)[Len(s) + 1] = w[1] /\ (s \o w)[Len(s) + 2] = w[2]
      /\ (s \o w)[Len(s) + 3] = w[3]
  BY <1>1, <1>2
<1>4. w[1] = SkipStep /\ w[2] = PollStep /\ w[3] = EchoStep
  BY <1>1 DEF AckAt
<1>5. AckAt(s \o w, Len(s))
  BY <1>3, <1>4 DEF AckAt
<1> QED BY <1>1, <1>2, <1>5 DEF w

\* The frame of a call.
LEMMA FrameIs ==
    ASSUME NEW o \in Boot!Operations, NEW k \in Nat
    PROVE  LET s == Boot!SendCmd(o, k)
           IN  /\ s \in Seq(Steps) /\ Len(s) = 4
               /\ s[1] = Boot!Step("frame", << "frame", o.kind, k >>) /\ AckAt(s, 1)
<1> DEFINE a == Boot!Step("frame", << "frame", o.kind, k >>)
<1>1. a \in Steps
  <2>1. << "frame", o.kind, k >> \in Words
    BY OperationsOK, Words1 DEF OpKinds, Names
  <2> QED BY <2>1 DEF Boot!Step, Steps, Whats
<1>2. Boot!SendCmd(o, k) = << a >> \o Boot!WaitAck
  BY DEF Boot!SendCmd
<1> HIDE DEF a
<1>3. << a >> \in Seq(Steps) /\ Len(<< a >>) = 1 /\ << a >>[1] = a
  BY <1>1
<1> DEFINE f == << a >>
<1> HIDE DEF f
<1>4. /\ f \o Boot!WaitAck \in Seq(Steps) /\ Len(f \o Boot!WaitAck) = Len(f) + 3
      /\ \A i \in 1 .. Len(f) : (f \o Boot!WaitAck)[i] = f[i]
      /\ AckAt(f \o Boot!WaitAck, Len(f))
  <2>1. f \in Seq(Steps)
    BY <1>3 DEF f
  <2> QED BY <2>1, AckBehind
<1>5. Len(f) = 1 /\ f[1] = a
  BY <1>3 DEF f
<1> QED BY <1>2, <1>4, <1>5 DEF f, a

\* Two steps and an acknowledgement.
LEMMA PairIs ==
    ASSUME NEW a \in Steps, NEW b \in Steps
    PROVE  LET s == << a, b >> \o Boot!WaitAck
           IN  /\ s \in Seq(Steps) /\ Len(s) = 5 /\ s[1] = a /\ s[2] = b /\ AckAt(s, 2)
<1> DEFINE f == << a, b >>
<1>1. f \in Seq(Steps) /\ Len(f) = 2 /\ f[1] = a /\ f[2] = b
  OBVIOUS
<1> HIDE DEF f
<1>2. /\ f \o Boot!WaitAck \in Seq(Steps) /\ Len(f \o Boot!WaitAck) = Len(f) + 3
      /\ \A i \in 1 .. Len(f) : (f \o Boot!WaitAck)[i] = f[i]
      /\ AckAt(f \o Boot!WaitAck, Len(f))
  BY <1>1, AckBehind
<1> QED BY <1>1, <1>2 DEF f

\* Three steps and an acknowledgement.
LEMMA TripleIs ==
    ASSUME NEW a \in Steps, NEW b \in Steps, NEW c \in Steps
    PROVE  LET s == << a, b, c >> \o Boot!WaitAck
           IN  /\ s \in Seq(Steps) /\ Len(s) = 6 /\ s[1] = a /\ s[2] = b /\ s[3] = c
               /\ AckAt(s, 3)
<1> DEFINE f == << a, b, c >>
<1>1. f \in Seq(Steps) /\ Len(f) = 3 /\ f[1] = a /\ f[2] = b /\ f[3] = c
  OBVIOUS
<1> HIDE DEF f
<1>2. /\ f \o Boot!WaitAck \in Seq(Steps) /\ Len(f \o Boot!WaitAck) = Len(f) + 3
      /\ \A i \in 1 .. Len(f) : (f \o Boot!WaitAck)[i] = f[i]
      /\ AckAt(f \o Boot!WaitAck, Len(f))
  BY <1>1, AckBehind
<1> QED BY <1>1, <1>2 DEF f

\* A single word and its checksum are sent and acknowledged.
LEMMA SendIs ==
    ASSUME NEW b \in Bytes
    PROVE  LET s == Boot!SendData(FALSE, b)
           IN  /\ s \in Seq(Steps) /\ Len(s) = 5 /\ Says(s[1], b)
               /\ Says(s[2], Boot!Sum(b[3] = 1, << b >>)) /\ AckAt(s, 2)
<1> DEFINE sum == Boot!Sum(b[3] = 1, << b >>)
           p == Boot!Step("send", b)
           q == Boot!Step("exchange", sum)
<1>1. p \in Steps
  BY BytesWord DEF Boot!Step, Steps, Whats
<1>2. q \in Steps
  <2>1. (b[3] = 1) \in BOOLEAN /\ << b >> \in Covered
    BY BytesWord DEF Covered
  <2>2. sum \in Words
    BY <2>1, SumWord
  <2> QED BY <2>2 DEF Boot!Step, Steps, Whats
<1>3. Says(p, b) /\ Says(q, sum)
  BY StepIs DEF Says
<1>4. Boot!SendData(FALSE, b) = << >> \o << p, q >> \o Boot!WaitAck
  BY DEF Boot!SendData
<1> HIDE DEF p, q, sum
<1>5. << >> \o << p, q >> = << p, q >>
  <2>1. << p, q >> \in Seq(Steps)
    BY <1>1, <1>2
  <2> HIDE DEF Steps
  <2> QED BY <2>1, ConcatEmptySeq
<1>6. Boot!SendData(FALSE, b) = << p, q >> \o Boot!WaitAck
  BY <1>4, <1>5
<1>7. LET s == << p, q >> \o Boot!WaitAck
      IN  /\ s \in Seq(Steps) /\ Len(s) = 5 /\ s[1] = p /\ s[2] = q /\ AckAt(s, 2)
  BY <1>1, <1>2, PairIs
<1> QED BY <1>3, <1>6, <1>7 DEF sum

\* A word is sent behind its size, with a checksum over both.
LEMMA SendSizedIs ==
    ASSUME NEW b \in Bytes
    PROVE  LET s == Boot!SendData(TRUE, b)
               size == << "size", b[3] >>
           IN  /\ s \in Seq(Steps) /\ Len(s) = 6 /\ Says(s[1], size) /\ Says(s[2], b)
               /\ Says(s[3], Boot!Sum(FALSE, << size, b >>)) /\ AckAt(s, 3)
<1> DEFINE size == << "size", b[3] >>
           sum == Boot!Sum(FALSE, << size, b >>)
           o == Boot!Step("exchange", size)
           p == Boot!Step("send", b)
           q == Boot!Step("exchange", sum)
<1>1. size \in Words /\ size \in Seq(Atoms)
  BY BytesWord DEF Words, Atoms, Names
<1>2. p \in Steps
  BY BytesWord DEF Boot!Step, Steps, Whats
<1>3. o \in Steps
  BY <1>1 DEF Boot!Step, Steps, Whats
<1>4. q \in Steps
  <2>1. << size, b >> \in Covered
    BY <1>1, BytesWord DEF Covered
  <2>2. sum \in Words
    BY <2>1, SumWord
  <2> QED BY <2>2 DEF Boot!Step, Steps, Whats
<1>5. Says(o, size) /\ Says(p, b) /\ Says(q, sum)
  BY StepIs DEF Says
<1>6. Boot!SendData(TRUE, b) = << o >> \o << p, q >> \o Boot!WaitAck
  BY DEF Boot!SendData
<1> HIDE DEF o, p, q, sum, size
<1>7. << o >> \o << p, q >> = << o, p, q >>
  <2>1. << o >> \in Seq(Steps) /\ << p, q >> \in Seq(Steps)
            /\ << o, p, q >> \in Seq(Steps)
    BY <1>2, <1>3, <1>4
  <2>2. /\ Len(<< o >>) = 1 /\ Len(<< p, q >>) = 2 /\ Len(<< o, p, q >>) = 3
        /\ << o >>[1] = o /\ << p, q >>[1] = p /\ << p, q >>[2] = q
        /\ << o, p, q >>[1] = o /\ << o, p, q >>[2] = p /\ << o, p, q >>[3] = q
    OBVIOUS
  <2> DEFINE x == << o >>
             y == << p, q >>
             z == << o, p, q >>
  <2>0. x \in Seq(Steps) /\ y \in Seq(Steps)
    BY <2>1
  <2> HIDE DEF x, y, z, Steps
  <2>3. /\ x \o y \in Seq(Steps) /\ Len(x \o y) = Len(x) + Len(y)
        /\ \A i \in 1 .. Len(x) : (x \o y)[i] = x[i]
        /\ \A i \in 1 .. Len(y) : (x \o y)[Len(x) + i] = y[i]
    BY ONLY <2>0, Joined
  <2>4. Len(x) = 1 /\ Len(y) = 2 /\ Len(z) = 3 /\ z \in Seq(Steps)
    BY <2>1, <2>2 DEF x, y, z
  <2>5. (x \o y)[1] = x[1] /\ (x \o y)[2] = y[1] /\ (x \o y)[3] = y[2]
    BY <2>3, <2>4
  <2>6. x[1] = z[1] /\ y[1] = z[2] /\ y[2] = z[3]
    BY <2>2 DEF x, y, z
  <2>7. \A i \in 1 .. 3 : (x \o y)[i] = z[i]
    <3>1. \A i \in 1 .. 3 : i = 1 \/ i = 2 \/ i = 3
      OBVIOUS
    <3> QED BY <2>5, <2>6, <3>1
  <2>8. x \o y = z
    BY <2>3, <2>4, <2>7, SeqEqual
  <2> QED BY <2>8 DEF x, y, z
<1>8. Boot!SendData(TRUE, b) = << o, p, q >> \o Boot!WaitAck
  BY <1>6, <1>7
<1>9. LET s == << o, p, q >> \o Boot!WaitAck
      IN  /\ s \in Seq(Steps) /\ Len(s) = 6 /\ s[1] = o /\ s[2] = p /\ s[3] = q
          /\ AckAt(s, 3)
  BY <1>2, <1>3, <1>4, TripleIs
<1> QED BY <1>5, <1>8, <1>9 DEF size, sum

\* The numbers of a call.
LEMMA OpNumbers ==
    ASSUME op \in Boot!Operations
    PROVE  /\ op.kind \in OpKinds
           /\ op.kind \in { "read", "write" } => op.n \in Nat \ { 0 } /\ op.n \in Sizes
           /\ op.kind = "erase" => op.n \in 1 .. CountMod - 1 /\ op.s \in Nat
           /\ CountMod \in Nat /\ CountMod > 0 /\ AllCounts \in 1 .. CountMod - 1
<1>1. /\ op.kind \in OpKinds
      /\ op.kind \in { "read", "write" } => op.n \in Nat \ { 0 }
      /\ op.kind = "erase" => op.n \in 1 .. CountMod - 1 /\ op.s \in Nat
  BY OperationsOK
<1>2. op.kind \in { "read", "write" } => op.n \in Sizes
  <2>1. CASE op \in { [ kind |-> k, n |-> 0, s |-> 0 ] :
                       k \in { "version", "id", "jump" } }
    BY <2>1
  <2>2. CASE \E k \in { "read", "write" }, n \in Sizes :
             op = [ [ kind |-> k, n |-> 0, s |-> 0 ] EXCEPT !.n = n ]
    BY <2>2
  <2>3. CASE op \in { [ kind |-> "erase", n |-> n, s |-> s ] :
                       n \in Counts, s \in Sectors }
    BY <2>3
  <2> QED BY <2>1, <2>2, <2>3 DEF Boot!Operations
<1>3. CountMod \in Nat /\ AllCounts \in 1 .. CountMod - 1
  BY BootAssumption
<1> QED BY <1>1, <1>2, <1>3

\* The pages of an erase, as the boot loader is told them behind their number.
Page(i) == << "page", (op.s + i - 1) % CountMod, 2 >>

\* What the boot loader is told in each call.
LEMMA ToldIs ==
    ASSUME op \in Boot!Operations, calls \in Nat
    PROVE  /\ Told \in Seq(Bytes \cup Seq(Atoms)) /\ Told \in Covered
           /\ op.kind \in { "version", "id" } => Told = << >>
           /\ op.kind = "read" =>
                /\ Len(Told) = 2 /\ Told[1] = Boot!Address(calls)
                /\ Told[2] = << "length", op.n - 1, 1 >>
           /\ op.kind = "write" =>
                /\ Len(Told) = 3 /\ Told[1] = Boot!Address(calls)
                /\ Told[2] = << "size", op.n >> /\ Told[3] = << "data", calls, op.n >>
           /\ op.kind = "jump" => Len(Told) = 1 /\ Told[1] = Boot!Address(calls)
           /\ op.kind = "erase" /\ op.n < AllCounts =>
                /\ Len(Told) = op.n + 1 /\ Told[1] = << "count", op.n - 1, 2 >>
                /\ \A i \in 1 .. op.n : Told[1 + i] = Page(i)
           /\ op.kind = "erase" /\ op.n >= AllCounts =>
                Len(Told) = 1 /\ Told[1] = << "count", op.n, 2 >>
<1> DEFINE a == Boot!Address(calls)
<1>1. a \in Bytes /\ a \in Seq(Atoms)
  <2>1. a \in Bytes
    BY DEF Boot!Address, Bytes, Names
  <2> QED BY <2>1, BytesWord
<1> HIDE DEF a
<1>2. CASE op.kind \in { "version", "id" }
  BY <1>2 DEF Told, Covered
<1>3. CASE op.kind = "read"
  <2>1. op.n \in Nat \ { 0 }
    BY <1>3, OpNumbers
  <2> DEFINE b == << "length", op.n - 1, 1 >>
  <2>2. b \in Bytes
    BY <2>1 DEF Bytes, Names
  <2>3. b \in Seq(Atoms)
    BY <2>2, BytesWord
  <2>4. Told = << a, b >>
    BY <1>3 DEF Told, a
  <2> HIDE DEF b
  <2>5. << a, b >> \in Seq(Seq(Atoms)) /\ << a, b >> \in Seq(Bytes \cup Seq(Atoms))
    BY <1>1, <2>3
  <2>6. Len(<< a, b >>) = 2 /\ << a, b >>[1] = a /\ << a, b >>[2] = b
    OBVIOUS
  <2> QED BY <1>3, <2>4, <2>5, <2>6 DEF a, b, Covered
<1>4. CASE op.kind = "write"
  <2>1. op.n \in Nat \ { 0 }
    BY <1>4, OpNumbers
  <2> DEFINE b == << "size", op.n >>
             c == << "data", calls, op.n >>
  <2>2. c \in Bytes
    BY <2>1 DEF Bytes, Names
  <2>3. c \in Seq(Atoms)
    BY <2>2, BytesWord
  <2>4. b \in Seq(Atoms)
    BY <2>1 DEF Atoms, Names
  <2>5. Told = << a, b, c >>
    BY <1>4 DEF Told, a, Boot!Meant
  <2> HIDE DEF b, c
  <2>6. << a, b, c >> \in Seq(Seq(Atoms))
            /\ << a, b, c >> \in Seq(Bytes \cup Seq(Atoms))
    BY <1>1, <2>3, <2>4
  <2>7. Len(<< a, b, c >>) = 3 /\ << a, b, c >>[1] = a /\ << a, b, c >>[2] = b
        /\ << a, b, c >>[3] = c
    OBVIOUS
  <2> QED BY <1>4, <2>5, <2>6, <2>7 DEF a, b, c, Covered
<1>5. CASE op.kind = "jump"
  <2>1. Told = << a >>
    BY <1>5 DEF Told, a, Boot!Meant
  <2>2. << a >> \in Seq(Seq(Atoms)) /\ << a >> \in Seq(Bytes \cup Seq(Atoms))
    BY <1>1
  <2>3. Len(<< a >>) = 1 /\ << a >>[1] = a
    OBVIOUS
  <2> QED BY <1>5, <2>1, <2>2, <2>3 DEF a, Covered
<1>6. CASE op.kind = "erase" /\ op.n >= AllCounts
  <2>1. op.n \in Nat
    BY <1>6, OpNumbers
  <2> DEFINE b == << "count", op.n, 2 >>
  <2>2. b \in Bytes
    BY <2>1 DEF Bytes, Names
  <2>3. b \in Seq(Atoms)
    BY <2>2, BytesWord
  <2>4. ~(op.n < AllCounts)
    BY <1>6, OpNumbers
  <2>5. Told = << b >>
    BY <1>6, <2>4 DEF Told, Boot!Meant
  <2> HIDE DEF b
  <2>6. << b >> \in Seq(Seq(Atoms)) /\ << b >> \in Seq(Bytes \cup Seq(Atoms))
    BY <2>3
  <2>7. Len(<< b >>) = 1 /\ << b >>[1] = b
    OBVIOUS
  <2> QED BY <1>6, <2>4, <2>5, <2>6, <2>7 DEF b, Covered
<1>7. CASE op.kind = "erase" /\ op.n < AllCounts
  <2>1. op.n \in Nat \ { 0 } /\ op.s \in Nat /\ CountMod \in Nat /\ CountMod > 0
        /\ AllCounts \in Nat
    BY <1>7, OpNumbers
  <2> DEFINE b == << "count", op.n - 1, 2 >>
             p == [ i \in 1 .. op.n |-> Page(i) ]
             S == Bytes \cup Seq(Atoms)
             T == Seq(Atoms)
  <2>2. b \in Bytes
    BY <2>1 DEF Bytes, Names
  <2>3. b \in T /\ b \in S
    BY <2>2, BytesWord
  <2>4. \A i \in 1 .. op.n : Page(i) \in Bytes /\ Page(i) \in T /\ Page(i) \in S
    <3> SUFFICES ASSUME NEW i \in 1 .. op.n PROVE Page(i) \in Bytes
      BY BytesWord
    <3>1. op.s + i - 1 \in Nat
      BY <2>1
    <3>2. (op.s + i - 1) % CountMod \in Nat
      BY <3>1, <2>1
    <3> QED BY <3>2 DEF Page, Bytes, Names
  <2>5. p \in Seq(S) /\ p \in Seq(T) /\ Len(p) = op.n
            /\ \A i \in 1 .. op.n : p[i] = Page(i)
    BY <2>1, <2>4
  <2>6. Told = << b >> \o p
    <3>1. Told = Boot!Meant(op, calls)
      BY <1>7 DEF Told
    <3>2. ~(op.n >= AllCounts)
      BY <1>7, <2>1
    <3>3. Boot!Meant(op, calls) = << << "count", op.n - 1, 2 >> >> \o
                 [ i \in 1 .. op.n |-> << "page", (op.s + i - 1) % CountMod, 2 >> ]
      BY <1>7, <3>2 DEF Boot!Meant
    <3> QED BY <3>1, <3>3 DEF Page
  <2> HIDE DEF b, p, S, T
  <2>7. << b >> \in Seq(S) /\ << b >> \in Seq(T) /\ Len(<< b >>) = 1 /\ << b >>[1] = b
    BY <2>3
  <2> DEFINE q == << b >>
  <2> HIDE DEF q
  <2>8. q \in Seq(S) /\ q \in Seq(T) /\ Len(q) = 1 /\ q[1] = b
    BY <2>7 DEF q
  <2>9. /\ q \o p \in Seq(S) /\ Len(q \o p) = Len(q) + Len(p)
        /\ \A i \in 1 .. Len(q) : (q \o p)[i] = q[i]
        /\ \A i \in 1 .. Len(p) : (q \o p)[Len(q) + i] = p[i]
    <3>1. q \in Seq(S) /\ p \in Seq(S)
      BY ONLY <2>5, <2>8
    <3> QED BY ONLY <3>1, Joined
  <2>10. q \o p \in Seq(T)
    <3>1. q \in Seq(T) /\ p \in Seq(T)
      BY ONLY <2>5, <2>8
    <3> QED BY ONLY <3>1, Joined
  <2>11. /\ Len(q \o p) = op.n + 1 /\ (q \o p)[1] = b
         /\ \A i \in 1 .. op.n : (q \o p)[1 + i] = Page(i)
    BY <2>1, <2>5, <2>8, <2>9
  <2>12. Told = q \o p
    BY <2>6 DEF q
  <2>13. Told \in Seq(S) /\ Told \in Seq(T)
    BY <2>9, <2>10, <2>12
  <2>14. Len(Told) = op.n + 1 /\ Told[1] = b
             /\ \A i \in 1 .. op.n : Told[1 + i] = Page(i)
    BY <2>11, <2>12
  <2>15. Told \in Seq(Bytes \cup Seq(Atoms)) /\ Told \in Covered
    BY <2>13 DEF S, T, Covered
  <2>16. ~(op.n >= AllCounts)
    BY <1>7, <2>1
  <2> HIDE DEF Page, Covered
  <2> QED BY <1>7, <2>14, <2>15, <2>16 DEF b
<1> QED BY <1>2, <1>3, <1>4, <1>5, <1>6, <1>7, OpNumbers DEF OpKinds

\* Three sequences of one.
LEMMA ThreeJoined ==
    ASSUME NEW a, NEW b, NEW c
    PROVE  << a >> \o << b >> \o << c >> = << a, b, c >>
<1> DEFINE S == { a, b, c }
           x == << a >>
           y == << b >>
           w == << c >>
           z == << a, b, c >>
<1>1. /\ x \in Seq(S) /\ y \in Seq(S) /\ w \in Seq(S) /\ z \in Seq(S)
      /\ Len(x) = 1 /\ Len(y) = 1 /\ Len(w) = 1 /\ Len(z) = 3
      /\ x[1] = a /\ y[1] = b /\ w[1] = c /\ z[1] = a /\ z[2] = b /\ z[3] = c
  OBVIOUS
<1> HIDE DEF S, x, y, w, z
<1>0. x \in Seq(S) /\ y \in Seq(S) /\ w \in Seq(S)
  BY ONLY <1>1
<1>2. /\ x \o y \in Seq(S) /\ Len(x \o y) = Len(x) + Len(y)
      /\ \A i \in 1 .. Len(x) : (x \o y)[i] = x[i]
      /\ \A i \in 1 .. Len(y) : (x \o y)[Len(x) + i] = y[i]
  BY ONLY <1>0, Joined
<1>3. Len(x \o y) = 2 /\ (x \o y)[1] = a /\ (x \o y)[2] = b
  BY <1>1, <1>2
<1> DEFINE v == x \o y
<1>4. v \in Seq(S) /\ Len(v) = 2 /\ v[1] = a /\ v[2] = b
  BY <1>2, <1>3
<1> HIDE DEF v
<1>4a. v \in Seq(S)
  BY ONLY <1>4
<1>5. /\ v \o w \in Seq(S) /\ Len(v \o w) = Len(v) + Len(w)
      /\ \A i \in 1 .. Len(v) : (v \o w)[i] = v[i]
      /\ \A i \in 1 .. Len(w) : (v \o w)[Len(v) + i] = w[i]
  BY ONLY <1>0, <1>4a, Joined
<1>6. Len(v \o w) = 3 /\ (v \o w)[1] = a /\ (v \o w)[2] = b /\ (v \o w)[3] = c
  BY <1>1, <1>4, <1>5
<1>7. \A i \in 1 .. 3 : (v \o w)[i] = z[i]
  <2>1. \A i \in 1 .. 3 : i = 1 \/ i = 2 \/ i = 3
    OBVIOUS
  <2> QED BY <1>1, <1>6, <2>1
<1>8. v \o w = z
  BY <1>1, <1>5, <1>6, <1>7, SeqEqual
<1> QED BY <1>8 DEF v, x, y, w, z

\* One script behind another.
LEMMA Behind ==
    ASSUME NEW s \in Seq(Steps), NEW t \in Seq(Steps), NEW k \in Nat, Len(s) = k
    PROVE  /\ s \o t \in Seq(Steps) /\ Len(t) \in Nat /\ Len(s \o t) = k + Len(t)
           /\ \A i \in 1 .. k : (s \o t)[i] = s[i]
           /\ \A i \in 1 .. Len(t) : (s \o t)[k + i] = t[i]
<1>0. s \in Seq(Steps) /\ t \in Seq(Steps)
  OBVIOUS
<1> HIDE DEF Steps
<1>1. /\ s \o t \in Seq(Steps) /\ Len(s \o t) = Len(s) + Len(t)
      /\ Len(s) \in Nat /\ Len(t) \in Nat
      /\ \A i \in 1 .. Len(s) : (s \o t)[i] = s[i]
      /\ \A i \in 1 .. Len(t) : (s \o t)[Len(s) + i] = t[i]
  BY ONLY <1>0, Joined
<1> QED BY <1>1

\* Where in a script that stands behind another an acknowledgement is awaited.
LEMMA AckMoves ==
    ASSUME NEW s \in Seq(Steps), NEW t \in Seq(Steps), NEW k \in Nat, Len(s) = k,
           NEW j \in Nat
    PROVE  /\ AckAt(s, j) /\ j + 3 <= k => AckAt(s \o t, j)
           /\ AckAt(t, j) /\ j + 3 <= Len(t) => AckAt(s \o t, k + j)
<1>1. /\ Len(t) \in Nat
      /\ \A i \in 1 .. k : (s \o t)[i] = s[i]
      /\ \A i \in 1 .. Len(t) : (s \o t)[k + i] = t[i]
  BY Behind
<1>2. ASSUME AckAt(s, j), j + 3 <= k PROVE AckAt(s \o t, j)
  <2>1. /\ (s \o t)[j + 1] = s[j + 1] /\ (s \o t)[j + 2] = s[j + 2]
        /\ (s \o t)[j + 3] = s[j + 3]
    BY <1>1, <1>2
  <2> QED BY <1>2, <2>1 DEF AckAt
<1>3. ASSUME AckAt(t, j), j + 3 <= Len(t) PROVE AckAt(s \o t, k + j)
  <2>1. /\ (s \o t)[k + (j + 1)] = t[j + 1] /\ (s \o t)[k + (j + 2)] = t[j + 2]
        /\ (s \o t)[k + (j + 3)] = t[j + 3]
    BY <1>1, <1>3
  <2>2. k + (j + 1) = k + j + 1 /\ k + (j + 2) = k + j + 2 /\ k + (j + 3) = k + j + 3
    OBVIOUS
  <2>3. /\ (s \o t)[k + j + 1] = t[j + 1] /\ (s \o t)[k + j + 2] = t[j + 2]
        /\ (s \o t)[k + j + 3] = t[j + 3]
    BY ONLY <2>1, <2>2
  <2> QED BY <1>3, <2>3 DEF AckAt
<1> QED BY <1>2, <1>3

\* How every call begins.
Framed ==
    /\ Whole \in Seq(Steps) /\ Len(Whole) \in Nat
    /\ Whole[1] = Boot!Step("frame", << "frame", op.kind, calls >>) /\ AckAt(Whole, 1)

\* What comes behind its frame.
Body ==
    CASE op.kind = "version" -> Boot!GetVersion
      [] op.kind = "id"      -> Boot!GetId
      [] op.kind = "read"    -> Boot!ReadMemory(op, calls)
      [] op.kind = "write"   -> Boot!WriteMemory(op, calls)
      [] op.kind = "erase"   -> Boot!EraseMemory(op)
      [] op.kind = "jump"    -> Boot!Jump(calls)

\* The steps behind the frame are those of the script behind the fourth.
LEMMA BodyIs ==
    ASSUME op \in Boot!Operations, calls \in Nat, Body \in Seq(Steps)
    PROVE  /\ Framed /\ Len(Body) \in Nat /\ Len(Whole) = 4 + Len(Body)
           /\ \A i \in 1 .. Len(Body) : Whole[4 + i] = Body[i]
           /\ \A j \in Nat : AckAt(Body, j) /\ j + 3 <= Len(Body) => AckAt(Whole, 4 + j)
<1> DEFINE f == Boot!SendCmd(op, calls)
<1>1. /\ f \in Seq(Steps) /\ Len(f) = 4 /\ AckAt(f, 1)
      /\ f[1] = Boot!Step("frame", << "frame", op.kind, calls >>)
  BY FrameIs
<1>2. Whole = f \o Body
  BY DEF Whole, Boot!Script, Body
<1> HIDE DEF f, Body, Steps
<1>2a. f \in Seq(Steps) /\ Len(f) = 4 /\ 4 \in Nat
  BY <1>1
<1>3. /\ f \o Body \in Seq(Steps) /\ Len(Body) \in Nat /\ Len(f \o Body) = 4 + Len(Body)
      /\ \A i \in 1 .. 4 : (f \o Body)[i] = f[i]
      /\ \A i \in 1 .. Len(Body) : (f \o Body)[4 + i] = Body[i]
  BY ONLY <1>2a, Body \in Seq(Steps), Behind
<1>4. /\ AckAt(f, 1) /\ 1 + 3 <= 4 => AckAt(f \o Body, 1)
      /\ \A j \in Nat : AckAt(Body, j) /\ j + 3 <= Len(Body) => AckAt(f \o Body, 4 + j)
  BY <1>1, AckMoves
<1>5. (f \o Body)[1] = f[1]
  BY <1>3
<1>6. AckAt(Whole, 1)
  BY <1>1, <1>2, <1>4
<1> QED BY <1>1, <1>2, <1>3, <1>4, <1>5, <1>6 DEF Framed

\* Words of the protocol that are always the same are steps.
LEMMA PlainSteps ==
    /\ Boot!Step("exchange", Boot!Zero) \in Steps
    /\ Boot!Step("value", Boot!Zero) \in Steps
    /\ Boot!Step("size", Boot!Zero) \in Steps
    /\ \A n \in Nat : Boot!Step("receive", n) \in Steps
BY ShortWords DEF Boot!Step, Steps, Whats

\* The script of nile_mcu_boot_get_version.
LEMMA VersionIs ==
    ASSUME op \in Boot!Operations, calls \in Nat, op.kind = "version"
    PROVE  /\ Framed /\ Len(Whole) = 9 /\ Whole[5] = Boot!Step("exchange", Boot!Zero)
           /\ Whole[6] = Boot!Step("value", Boot!Zero) /\ AckAt(Whole, 6)
<1> DEFINE a == Boot!Step("exchange", Boot!Zero)
           b == Boot!Step("value", Boot!Zero)
<1>1. a \in Steps /\ b \in Steps
  BY PlainSteps
<1>2. Body = << a, b >> \o Boot!WaitAck
  BY DEF Body, Boot!GetVersion
<1> HIDE DEF a, b
<1>3. /\ Body \in Seq(Steps) /\ Len(Body) = 5 /\ Body[1] = a /\ Body[2] = b
      /\ AckAt(Body, 2)
  BY <1>1, <1>2, PairIs
<1>4. /\ Framed /\ Len(Whole) = 4 + Len(Body)
      /\ \A i \in 1 .. Len(Body) : Whole[4 + i] = Body[i]
      /\ AckAt(Body, 2) /\ 2 + 3 <= Len(Body) => AckAt(Whole, 4 + 2)
  BY <1>3, BodyIs
<1>5. Whole[4 + 1] = Body[1] /\ Whole[4 + 2] = Body[2]
  BY <1>3, <1>4
<1> QED BY <1>3, <1>4, <1>5 DEF a, b

\* The script of nile_mcu_boot_get_id.
LEMMA IdIs ==
    ASSUME op \in Boot!Operations, calls \in Nat, op.kind = "id"
    PROVE  /\ Framed /\ Len(Whole) = 10 /\ Whole[5] = Boot!Step("exchange", Boot!Zero)
           /\ Whole[6] = Boot!Step("size", Boot!Zero)
           /\ Whole[7] = Boot!Step("receive", 2) /\ AckAt(Whole, 7)
<1> DEFINE a == Boot!Step("exchange", Boot!Zero)
           b == Boot!Step("size", Boot!Zero)
           c == Boot!Step("receive", 2)
<1>1. a \in Steps /\ b \in Steps /\ c \in Steps
  BY PlainSteps
<1>2. Body = << a >> \o << b >> \o << c >> \o Boot!WaitAck
  BY DEF Body, Boot!GetId, Boot!RecvData
<1> HIDE DEF a, b, c
<1>3. << a >> \o << b >> \o << c >> = << a, b, c >>
  BY ThreeJoined
<1>3a. Body = << a, b, c >> \o Boot!WaitAck
  BY <1>2, <1>3
<1>4. /\ Body \in Seq(Steps) /\ Len(Body) = 6 /\ Body[1] = a /\ Body[2] = b
      /\ Body[3] = c /\ AckAt(Body, 3)
  BY <1>1, <1>3a, TripleIs
<1>5. /\ Framed /\ Len(Whole) = 4 + Len(Body)
      /\ \A i \in 1 .. Len(Body) : Whole[4 + i] = Body[i]
      /\ AckAt(Body, 3) /\ 3 + 3 <= Len(Body) => AckAt(Whole, 4 + 3)
  BY <1>4, BodyIs
<1>6. Whole[4 + 1] = Body[1] /\ Whole[4 + 2] = Body[2] /\ Whole[4 + 3] = Body[3]
  BY <1>4, <1>5
<1> QED BY <1>4, <1>5, <1>6 DEF a, b, c

\* The script of nile_mcu_boot_jump.
LEMMA JumpIs ==
    ASSUME op \in Boot!Operations, calls \in Nat, op.kind = "jump"
    PROVE  /\ Framed /\ Len(Whole) = 9 /\ Says(Whole[5], Told[1])
           /\ Says(Whole[6], Boot!Sum(FALSE, << Told[1] >>)) /\ AckAt(Whole, 6)
<1> DEFINE a == Boot!Address(calls)
<1>1. a \in Bytes /\ (a[3] = 1) = FALSE
  BY DEF Boot!Address, Bytes, Names
<1>2. Body = Boot!SendData(FALSE, a)
  BY DEF Body, Boot!Jump
<1>3. Told[1] = a
  BY ToldIs
<1> HIDE DEF a
<1>4. /\ Body \in Seq(Steps) /\ Len(Body) = 5 /\ Says(Body[1], a)
      /\ Says(Body[2], Boot!Sum(a[3] = 1, << a >>)) /\ AckAt(Body, 2)
  BY <1>1, <1>2, SendIs
<1>5. /\ Framed /\ Len(Whole) = 4 + Len(Body)
      /\ \A i \in 1 .. Len(Body) : Whole[4 + i] = Body[i]
      /\ AckAt(Body, 2) /\ 2 + 3 <= Len(Body) => AckAt(Whole, 4 + 2)
  BY <1>4, BodyIs
<1>6. Whole[4 + 1] = Body[1] /\ Whole[4 + 2] = Body[2]
  BY <1>4, <1>5
<1>7. Says(Body[2], Boot!Sum(FALSE, << a >>))
  BY <1>1, <1>4
<1>8. Says(Whole[5], a) /\ Says(Whole[6], Boot!Sum(FALSE, << a >>))
  <2>1. Whole[5] = Body[1] /\ Whole[6] = Body[2]
    BY ONLY <1>6
  <2> QED BY ONLY <2>1, <1>4, <1>7
<1>9. Len(Whole) = 9 /\ AckAt(Whole, 6)
  <2>1. 4 + 2 = 6 /\ 4 + 5 = 9 /\ 2 + 3 <= 5
    OBVIOUS
  <2> QED BY ONLY <2>1, <1>4, <1>5
<1>10. Framed
  BY ONLY <1>5
<1> QED BY ONLY <1>3, <1>8, <1>9, <1>10

\* The steps of two scripts, the first of which sends one word.
LEMMA FirstIs ==
    ASSUME op \in Boot!Operations, calls \in Nat, NEW b \in Bytes, b[3] # 1,
           NEW t \in Seq(Steps), Body = Boot!SendData(FALSE, b) \o t
    PROVE  /\ Framed /\ Len(t) \in Nat /\ Len(Whole) = 9 + Len(t) /\ Says(Whole[5], b)
           /\ Says(Whole[6], Boot!Sum(FALSE, << b >>)) /\ AckAt(Whole, 6)
           /\ \A i \in 1 .. Len(t) : Whole[9 + i] = t[i]
           /\ \A j \in Nat : AckAt(t, j) /\ j + 3 <= Len(t) => AckAt(Whole, 9 + j)
<1> DEFINE s == Boot!SendData(FALSE, b)
<1>1. /\ s \in Seq(Steps) /\ Len(s) = 5 /\ Says(s[1], b)
      /\ Says(s[2], Boot!Sum(b[3] = 1, << b >>)) /\ AckAt(s, 2)
  BY SendIs
<1>2. (b[3] = 1) = FALSE
  OBVIOUS
<1> HIDE DEF s, Steps, Body
<1>3. s \in Seq(Steps) /\ t \in Seq(Steps) /\ 5 \in Nat /\ Len(s) = 5
  BY <1>1
<1>4. /\ s \o t \in Seq(Steps) /\ Len(t) \in Nat /\ Len(s \o t) = 5 + Len(t)
      /\ \A i \in 1 .. 5 : (s \o t)[i] = s[i]
      /\ \A i \in 1 .. Len(t) : (s \o t)[5 + i] = t[i]
  BY ONLY <1>3, Behind
<1>5. /\ AckAt(s, 2) /\ 2 + 3 <= 5 => AckAt(s \o t, 2)
      /\ \A j \in Nat : AckAt(t, j) /\ j + 3 <= Len(t) => AckAt(s \o t, 5 + j)
  BY <1>3, AckMoves
<1>6. Body = s \o t
  BY DEF s
<1>7. /\ Body \in Seq(Steps) /\ Len(Body) = 5 + Len(t)
      /\ \A i \in 1 .. 5 : Body[i] = s[i]
      /\ \A i \in 1 .. Len(t) : Body[5 + i] = t[i]
      /\ AckAt(Body, 2)
      /\ \A j \in Nat : AckAt(t, j) /\ j + 3 <= Len(t) => AckAt(Body, 5 + j)
  <2>1. AckAt(s \o t, 2)
    <3>1. 2 + 3 <= 5
      OBVIOUS
    <3> QED BY ONLY <1>1, <1>5, <3>1
  <2> QED BY ONLY <1>4, <1>5, <1>6, <2>1
<1>7a. Len(t) \in Nat /\ Len(Body) = 5 + Len(t)
  BY ONLY <1>4, <1>7
<1>8. /\ Framed /\ Len(Body) \in Nat /\ Len(Whole) = 4 + Len(Body)
      /\ \A i \in 1 .. Len(Body) : Whole[4 + i] = Body[i]
      /\ \A j \in Nat : AckAt(Body, j) /\ j + 3 <= Len(Body) => AckAt(Whole, 4 + j)
  BY <1>7, BodyIs
<1>9. Whole[4 + 1] = s[1] /\ Whole[4 + 2] = s[2]
  <2>1. 1 \in 1 .. 5 /\ 2 \in 1 .. 5 /\ 1 \in 1 .. Len(Body) /\ 2 \in 1 .. Len(Body)
    BY ONLY <1>7a
  <2> QED BY ONLY <1>7, <1>8, <2>1
<1>10. AckAt(Whole, 4 + 2)
  <2>1. 2 + 3 <= Len(Body) /\ 2 \in Nat
    BY ONLY <1>7a
  <2> QED BY ONLY <1>7, <1>8, <2>1
<1>11. ASSUME NEW i \in 1 .. Len(t) PROVE Whole[9 + i] = t[i]
  <2>1. 5 + i \in 1 .. Len(Body) /\ 4 + (5 + i) = 9 + i
    BY ONLY <1>7a, i \in 1 .. Len(t)
  <2>2. Whole[4 + (5 + i)] = Body[5 + i]
    BY ONLY <1>8, <2>1
  <2>3. Body[5 + i] = t[i]
    BY ONLY <1>7, i \in 1 .. Len(t)
  <2> QED BY ONLY <2>1, <2>2, <2>3
<1>12. ASSUME NEW j \in Nat, AckAt(t, j), j + 3 <= Len(t) PROVE AckAt(Whole, 9 + j)
  <2>1. (5 + j) + 3 <= Len(Body) /\ 5 + j \in Nat /\ 4 + (5 + j) = 9 + j
    BY ONLY <1>7a, <1>12, j \in Nat
  <2>2. AckAt(Body, 5 + j)
    BY ONLY <1>7, <1>12, j \in Nat
  <2>3. AckAt(Whole, 4 + (5 + j))
    BY ONLY <1>8, <2>1, <2>2
  <2> QED BY ONLY <2>1, <2>3
<1>13. Says(s[2], Boot!Sum(FALSE, << b >>))
  BY <1>1, <1>2
<1>14. Says(Whole[5], b) /\ Says(Whole[6], Boot!Sum(FALSE, << b >>))
  <2>1. Whole[5] = s[1] /\ Whole[6] = s[2]
    BY ONLY <1>9
  <2> QED BY ONLY <2>1, <1>1, <1>13
<1>15. Len(Whole) = 9 + Len(t)
  BY ONLY <1>7a, <1>8
<1>16. AckAt(Whole, 6)
  <2>1. 4 + 2 = 6
    OBVIOUS
  <2> QED BY ONLY <1>10, <2>1
<1>17. Framed
  BY ONLY <1>8
<1> QED BY ONLY <1>7a, <1>11, <1>12, <1>14, <1>15, <1>16, <1>17

\* The script of nile_mcu_boot_write_memory.
LEMMA WriteIs ==
    ASSUME op \in Boot!Operations, calls \in Nat, op.kind = "write"
    PROVE  /\ Framed /\ Len(Whole) = 15 /\ Says(Whole[5], Told[1])
           /\ Says(Whole[6], Boot!Sum(FALSE, << Told[1] >>)) /\ AckAt(Whole, 6)
           /\ Says(Whole[10], Told[2]) /\ Says(Whole[11], Told[3])
           /\ Says(Whole[12], Boot!Sum(FALSE, << Told[2], Told[3] >>))
           /\ AckAt(Whole, 12)
<1> DEFINE a == Boot!Address(calls)
           b == << "data", calls, op.n >>
           t == Boot!SendData(TRUE, b)
<1>1. a \in Bytes /\ a[3] # 1
  BY DEF Boot!Address, Bytes, Names
<1>2. b \in Bytes /\ b[3] = op.n
  BY OpNumbers DEF Bytes, Names
<1>3. Body = Boot!SendData(FALSE, a) \o t
  BY DEF Body, Boot!WriteMemory
<1>4. Told[1] = a /\ Told[2] = << "size", b[3] >> /\ Told[3] = b
  BY <1>2, ToldIs
<1> HIDE DEF a, b
<1>5. /\ t \in Seq(Steps) /\ Len(t) = 6 /\ Says(t[1], << "size", b[3] >>)
      /\ Says(t[2], b)
      /\ Says(t[3], Boot!Sum(FALSE, << << "size", b[3] >>, b >>)) /\ AckAt(t, 3)
  BY <1>2, SendSizedIs
<1> HIDE DEF t
<1>6. /\ Framed /\ Len(Whole) = 9 + Len(t) /\ Says(Whole[5], a)
      /\ Says(Whole[6], Boot!Sum(FALSE, << a >>)) /\ AckAt(Whole, 6)
      /\ \A i \in 1 .. Len(t) : Whole[9 + i] = t[i]
      /\ AckAt(t, 3) /\ 3 + 3 <= Len(t) => AckAt(Whole, 9 + 3)
  BY <1>1, <1>3, <1>5, FirstIs
<1>7. Whole[9 + 1] = t[1] /\ Whole[9 + 2] = t[2] /\ Whole[9 + 3] = t[3]
  BY <1>5, <1>6
<1>8. /\ Says(Whole[10], << "size", b[3] >>) /\ Says(Whole[11], b)
      /\ Says(Whole[12], Boot!Sum(FALSE, << << "size", b[3] >>, b >>))
  <2>1. Whole[10] = t[1] /\ Whole[11] = t[2] /\ Whole[12] = t[3]
    BY ONLY <1>7
  <2> QED BY ONLY <2>1, <1>5
<1>9. Len(Whole) = 15 /\ AckAt(Whole, 12)
  <2>1. 9 + 3 = 12 /\ 9 + 6 = 15 /\ 3 + 3 <= 6
    OBVIOUS
  <2> QED BY ONLY <2>1, <1>5, <1>6
<1> QED BY ONLY <1>4, <1>6, <1>8, <1>9

\* The script of nile_mcu_boot_read_memory.
LEMMA ReadIs ==
    ASSUME op \in Boot!Operations, calls \in Nat, op.kind = "read"
    PROVE  /\ Framed /\ Len(Whole) = 16 /\ Says(Whole[5], Told[1])
           /\ Says(Whole[6], Boot!Sum(FALSE, << Told[1] >>)) /\ AckAt(Whole, 6)
           /\ Says(Whole[10], Told[2])
           /\ Says(Whole[11], Boot!Sum(TRUE, << Told[2] >>)) /\ AckAt(Whole, 11)
           /\ Whole[15] = Boot!Step("exchange", Boot!Zero)
           /\ Whole[16] = Boot!Step("receive", op.n)
<1> DEFINE a == Boot!Address(calls)
           b == << "length", op.n - 1, 1 >>
           u == Boot!SendData(FALSE, b)
           w == Boot!RecvData(FALSE, op.n)
           x == Boot!Step("exchange", Boot!Zero)
           y == Boot!Step("receive", op.n)
<1>1. a \in Bytes /\ a[3] # 1
  BY DEF Boot!Address, Bytes, Names
<1>2. op.n \in Nat \ { 0 }
  BY OpNumbers
<1>3. b \in Bytes /\ b[3] = 1
  BY <1>2 DEF Bytes, Names
<1>4. Body = Boot!SendData(FALSE, a) \o u \o w
  BY DEF Body, Boot!ReadMemory
<1>5. Told[1] = a /\ Told[2] = b
  BY ToldIs
<1>6. x \in Steps /\ y \in Steps
  BY <1>2, PlainSteps
<1>7. w = << x >> \o << >> \o << y >>
  BY DEF Boot!RecvData
<1> HIDE DEF a, b, x, y, w
<1>8. w \in Seq(Steps) /\ Len(w) = 2 /\ w[1] = x /\ w[2] = y
  <2> DEFINE p == << x >>
             q == << y >>
  <2>1. p \in Seq(Steps) /\ q \in Seq(Steps) /\ Len(p) = 1 /\ Len(q) = 1 /\ p[1] = x
        /\ q[1] = y
    BY <1>6
  <2>2. w = p \o << >> \o q
    BY <1>7
  <2> HIDE DEF p, q, Steps
  <2>3. p \o << >> = p
    BY <2>1, ConcatEmptySeq
  <2>4. p \in Seq(Steps) /\ q \in Seq(Steps) /\ 1 \in Nat /\ Len(p) = 1
    BY <2>1
  <2>5. /\ p \o q \in Seq(Steps) /\ Len(q) \in Nat /\ Len(p \o q) = 1 + Len(q)
        /\ \A i \in 1 .. 1 : (p \o q)[i] = p[i]
        /\ \A i \in 1 .. Len(q) : (p \o q)[1 + i] = q[i]
    BY ONLY <2>4, Behind
  <2>6. (p \o q)[1] = p[1] /\ (p \o q)[1 + 1] = q[1]
    BY <2>1, <2>5
  <2> QED BY <2>1, <2>2, <2>3, <2>5, <2>6
<1>9. /\ u \in Seq(Steps) /\ Len(u) = 5 /\ Says(u[1], b)
      /\ Says(u[2], Boot!Sum(b[3] = 1, << b >>)) /\ AckAt(u, 2)
  BY <1>3, SendIs
<1>10. Says(u[2], Boot!Sum(TRUE, << b >>))
  <2>1. (b[3] = 1) = TRUE
    BY <1>3
  <2> QED BY <1>9, <2>1
<1> DEFINE s == Boot!SendData(FALSE, a)
           t == u \o w
<1>11. s \in Seq(Steps)
  BY <1>1, SendIs
<1> HIDE DEF u, s
<1>12. u \in Seq(Steps) /\ w \in Seq(Steps) /\ 5 \in Nat /\ Len(u) = 5
  BY <1>8, <1>9
<1>13. /\ u \o w \in Seq(Steps) /\ Len(w) \in Nat /\ Len(u \o w) = 5 + Len(w)
       /\ \A i \in 1 .. 5 : (u \o w)[i] = u[i]
       /\ \A i \in 1 .. Len(w) : (u \o w)[5 + i] = w[i]
  BY ONLY <1>12, Behind
<1>14. AckAt(u, 2) /\ 2 + 3 <= 5 => AckAt(u \o w, 2)
  BY ONLY <1>12, AckMoves, 2 \in Nat
<1>15. /\ t \in Seq(Steps) /\ Len(t) = 7 /\ t[1] = u[1] /\ t[2] = u[2] /\ AckAt(t, 2)
       /\ t[6] = x /\ t[7] = y
  <2>1. (u \o w)[5 + 1] = w[1] /\ (u \o w)[5 + 2] = w[2]
    BY <1>8, <1>13
  <2> QED BY <1>8, <1>9, <1>13, <1>14, <2>1
<1>16. Body = s \o t
  <2>1. Body = (s \o u) \o w
    BY <1>4 DEF s, u
  <2>2. (s \o u) \o w = s \o (u \o w)
    BY ONLY <1>11, <1>12, ConcatAssociative
  <2> QED BY <2>1, <2>2
<1> HIDE DEF t
<1>17. /\ Framed /\ Len(Whole) = 9 + Len(t) /\ Says(Whole[5], a)
       /\ Says(Whole[6], Boot!Sum(FALSE, << a >>)) /\ AckAt(Whole, 6)
       /\ \A i \in 1 .. Len(t) : Whole[9 + i] = t[i]
       /\ AckAt(t, 2) /\ 2 + 3 <= Len(t) => AckAt(Whole, 9 + 2)
  BY <1>1, <1>15, <1>16, FirstIs DEF s
<1>18. /\ Whole[9 + 1] = t[1] /\ Whole[9 + 2] = t[2] /\ Whole[9 + 6] = t[6]
       /\ Whole[9 + 7] = t[7]
  BY <1>15, <1>17
<1>19. /\ Says(Whole[10], b) /\ Says(Whole[11], Boot!Sum(TRUE, << b >>))
       /\ Whole[15] = x /\ Whole[16] = y
  <2>1. Whole[10] = u[1] /\ Whole[11] = u[2] /\ Whole[15] = x /\ Whole[16] = y
    BY ONLY <1>15, <1>18
  <2> QED BY ONLY <2>1, <1>9, <1>10
<1>20. Len(Whole) = 16 /\ AckAt(Whole, 11)
  <2>1. 9 + 2 = 11 /\ 9 + 7 = 16 /\ 2 + 3 <= 7
    OBVIOUS
  <2> QED BY ONLY <2>1, <1>15, <1>17
<1> QED BY ONLY <1>5, <1>17, <1>19, <1>20 DEF x, y

\* The script of nile_mcu_boot_erase_memory, when everything is erased.
LEMMA EraseAllIs ==
    ASSUME op \in Boot!Operations, calls \in Nat, op.kind = "erase", op.n >= AllCounts
    PROVE  /\ Framed /\ Len(Whole) = 12 /\ Says(Whole[5], Told[1])
           /\ Says(Whole[6], Boot!Sum(FALSE, << Told[1] >>)) /\ AckAt(Whole, 6)
           /\ AckAt(Whole, 9)
<1> DEFINE a == << "count", op.n, 2 >>
           s == Boot!SendData(FALSE, a)
           t == Boot!WaitAck
<1>1. ~(op.n < AllCounts) /\ op.n \in Nat
  BY OpNumbers
<1>2. a \in Bytes /\ a[3] # 1
  BY <1>1 DEF Bytes, Names
<1>3. Told[1] = a
  BY ToldIs
<1>4. Boot!SentCount(op.n) = op.n
  BY <1>1 DEF Boot!SentCount
<1>5. Body = s \o << >> \o t
  <2>1. Body = Boot!EraseMemory(op)
    BY DEF Body
  <2>2. Boot!EraseMemory(op) = s \o << >> \o t
    BY <1>1, <1>4 DEF Boot!EraseMemory
  <2> QED BY ONLY <2>1, <2>2
<1>6. s \in Seq(Steps)
  BY <1>2, SendIs
<1> HIDE DEF a
<1>7. t \in Seq(Steps) /\ Len(t) = 3 /\ AckAt(t, 0)
  BY WaitAckIs
<1> HIDE DEF s, t
<1>8. Body = s \o t
  <2>1. s \o << >> = s
    BY ONLY <1>6, ConcatEmptySeq
  <2> QED BY ONLY <1>5, <2>1
<1>9. /\ Framed /\ Len(Whole) = 9 + Len(t) /\ Says(Whole[5], a)
      /\ Says(Whole[6], Boot!Sum(FALSE, << a >>)) /\ AckAt(Whole, 6)
      /\ AckAt(t, 0) /\ 0 + 3 <= Len(t) => AckAt(Whole, 9 + 0)
  BY <1>2, <1>7, <1>8, FirstIs DEF s
<1>10. Len(Whole) = 12 /\ AckAt(Whole, 9)
  <2>1. 9 + 0 = 9 /\ 9 + 3 = 12 /\ 0 + 3 <= 3
    OBVIOUS
  <2> QED BY ONLY <2>1, <1>7, <1>9
<1> QED BY ONLY <1>3, <1>9, <1>10

\* The same, sector by sector.
LEMMA EraseIs ==
    ASSUME op \in Boot!Operations, calls \in Nat, op.kind = "erase", op.n < AllCounts
    PROVE  /\ Framed /\ Len(Whole) = 13 + op.n /\ Says(Whole[5], Told[1])
           /\ Says(Whole[6], Boot!Sum(FALSE, << Told[1] >>)) /\ AckAt(Whole, 6)
           /\ \A i \in 1 .. op.n : Says(Whole[9 + i], Told[1 + i])
           /\ Says(Whole[10 + op.n],
                   Boot!Sum(FALSE, [ i \in 1 .. op.n |-> Told[1 + i] ]))
           /\ AckAt(Whole, 10 + op.n)
<1> DEFINE n == op.n
           a == << "count", op.n - 1, 2 >>
           s == Boot!SendData(FALSE, a)
           pages == Boot!Pages(op)
           p == [ i \in 1 .. Len(pages) |-> Boot!Step("send", pages[i]) ]
           sum == Boot!Sum(FALSE, pages)
           z == Boot!Step("send", sum)
           w == Boot!WaitAck
           t == (p \o << z >>) \o w
<1>1. n \in Nat /\ n > 0 /\ n < CountMod /\ op.s \in Nat /\ CountMod \in Nat
          /\ CountMod > 0
  BY OpNumbers
<1>2. a \in Bytes /\ a[3] # 1
  BY <1>1 DEF Bytes, Names
<1>3. Told[1] = a
  BY ToldIs
<1>4. Boot!SentCount(op.n) = op.n - 1
  <2>1. (op.n - 1) % CountMod = op.n - 1
    BY <1>1
  <2> QED BY <2>1 DEF Boot!SentCount
<1>5. Body = s \o (p \o << z >>) \o w
  <2>1. Body = Boot!EraseMemory(op)
    BY DEF Body
  <2>2. Boot!EraseMemory(op) = s \o (p \o << z >>) \o w
    BY <1>4 DEF Boot!EraseMemory
  <2> QED BY ONLY <2>1, <2>2
<1>6. s \in Seq(Steps)
  BY <1>2, SendIs
<1>7. Len(pages) = n /\ pages = [ i \in 1 .. n |-> Page(i) ]
          /\ \A i \in 1 .. n : pages[i] = Page(i)
  <2>1. pages = [ i \in 1 .. n |-> Page(i) ]
    BY DEF Boot!Pages, Page
  <2> HIDE DEF pages, Page
  <2>2. Len(pages) = n
    BY <1>1, <2>1
  <2> QED BY <2>1, <2>2
<1>8. pages = [ i \in 1 .. n |-> Told[1 + i] ]
  <2>1. \A i \in 1 .. n : Told[1 + i] = Page(i)
    BY ToldIs
  <2> QED BY ONLY <1>7, <2>1
<1>9. \A i \in 1 .. n : Page(i) \in Bytes
  <2> SUFFICES ASSUME NEW i \in 1 .. n PROVE Page(i) \in Bytes
    OBVIOUS
  <2>1. op.s + i - 1 \in Nat
    BY <1>1
  <2>2. (op.s + i - 1) % CountMod \in Nat
    BY <2>1, <1>1
  <2> QED BY <2>2 DEF Page, Bytes, Names
<1> HIDE DEF pages, Page, a, n
<1>10. z \in Steps
  <2>1. \A i \in 1 .. n : pages[i] \in Seq(Atoms)
    BY <1>7, <1>9, BytesWord
  <2>2. pages \in Covered
    BY <1>1, <1>7, <2>1 DEF Covered
  <2>3. sum \in Words
    BY <2>2, SumWord
  <2> QED BY <2>3 DEF Boot!Step, Steps, Whats
<1>11. \A i \in 1 .. n : Boot!Step("send", pages[i]) \in Steps
  <2> SUFFICES ASSUME NEW i \in 1 .. n PROVE Boot!Step("send", pages[i]) \in Steps
    OBVIOUS
  <2>1. pages[i] \in Words
    BY <1>7, <1>9, BytesWord
  <2> QED BY <2>1 DEF Boot!Step, Steps, Whats
<1>12. p \in Seq(Steps) /\ Len(p) = n /\ \A i \in 1 .. n : Says(p[i], Told[1 + i])
  <2>1. p = [ i \in 1 .. n |-> Boot!Step("send", pages[i]) ]
    BY <1>7
  <2>2. p \in Seq(Steps) /\ Len(p) = n
    BY <1>1, <1>11, <2>1
  <2>3. ASSUME NEW i \in 1 .. n PROVE Says(p[i], Told[1 + i])
    <3>1. p[i] = Boot!Step("send", pages[i]) /\ pages[i] = Told[1 + i]
      BY <1>8, <2>1
    <3> QED BY <3>1, StepIs DEF Says
  <2> QED BY ONLY <2>2, <2>3
<1>13. Says(z, sum)
  BY StepIs DEF Says
<1>14. w \in Seq(Steps) /\ Len(w) = 3 /\ AckAt(w, 0)
  BY WaitAckIs
<1> HIDE DEF z
<1> DEFINE y == << z >>
<1>15. y \in Seq(Steps) /\ Len(y) = 1 /\ y[1] = z
  BY <1>10
<1> DEFINE x == p \o y
<1>16. t = x \o w
  OBVIOUS
<1>17. Body = s \o x \o w
  BY <1>5
<1> HIDE DEF p, y, w, t, s, sum
<1>18. p \in Seq(Steps) /\ y \in Seq(Steps) /\ n \in Nat /\ Len(p) = n
  BY ONLY <1>1, <1>12, <1>15
<1>19. /\ p \o y \in Seq(Steps) /\ Len(y) \in Nat /\ Len(p \o y) = n + Len(y)
       /\ \A i \in 1 .. n : (p \o y)[i] = p[i]
       /\ \A i \in 1 .. Len(y) : (p \o y)[n + i] = y[i]
  BY ONLY <1>18, Behind
<1>20. x \in Seq(Steps) /\ Len(x) = n + 1 /\ x[n + 1] = z
           /\ \A i \in 1 .. n : x[i] = p[i]
  <2>1. 1 \in 1 .. Len(y)
    BY ONLY <1>15
  <2>2. (p \o y)[n + 1] = y[1]
    BY ONLY <1>19, <2>1
  <2> QED BY ONLY <1>15, <1>19, <2>2
<1> HIDE DEF x
<1>21. x \in Seq(Steps) /\ w \in Seq(Steps) /\ n + 1 \in Nat /\ Len(x) = n + 1
  BY ONLY <1>1, <1>14, <1>20
<1>22. /\ x \o w \in Seq(Steps) /\ Len(w) \in Nat /\ Len(x \o w) = (n + 1) + Len(w)
       /\ \A i \in 1 .. n + 1 : (x \o w)[i] = x[i]
       /\ \A i \in 1 .. Len(w) : (x \o w)[(n + 1) + i] = w[i]
  BY ONLY <1>21, Behind
<1>23. AckAt(w, 0) /\ 0 + 3 <= Len(w) => AckAt(x \o w, (n + 1) + 0)
  BY ONLY <1>21, AckMoves, 0 \in Nat
<1>24. /\ t \in Seq(Steps) /\ Len(t) = n + 4 /\ AckAt(t, n + 1) /\ t[n + 1] = z
       /\ \A i \in 1 .. n : t[i] = p[i]
  <2>1. 0 + 3 <= 3 /\ (n + 1) + 0 = n + 1 /\ (n + 1) + 3 = n + 4
        /\ n + 1 \in 1 .. n + 1 /\ \A i \in 1 .. n : i \in 1 .. n + 1
    BY ONLY <1>1
  <2>2. AckAt(x \o w, n + 1)
    BY ONLY <1>14, <1>23, <2>1
  <2>3. Len(x \o w) = n + 4
    BY ONLY <1>14, <1>22, <2>1
  <2>4. (x \o w)[n + 1] = z /\ \A i \in 1 .. n : (x \o w)[i] = p[i]
    BY ONLY <1>20, <1>22, <2>1
  <2> QED BY ONLY <1>16, <1>22, <2>2, <2>3, <2>4
<1>25. Body = s \o t
  <2>1. (s \o x) \o w = s \o (x \o w)
    BY ONLY <1>6, <1>21, ConcatAssociative
  <2> QED BY ONLY <1>16, <1>17, <2>1
<1>26. /\ Framed /\ Len(Whole) = 9 + Len(t) /\ Says(Whole[5], a)
       /\ Says(Whole[6], Boot!Sum(FALSE, << a >>)) /\ AckAt(Whole, 6)
       /\ \A i \in 1 .. Len(t) : Whole[9 + i] = t[i]
       /\ \A j \in Nat : AckAt(t, j) /\ j + 3 <= Len(t) => AckAt(Whole, 9 + j)
  BY <1>2, <1>24, <1>25, FirstIs DEF s
<1>27. Len(Whole) = 13 + n
  <2>1. 9 + (n + 4) = 13 + n
    BY ONLY <1>1
  <2> QED BY ONLY <1>24, <1>26, <2>1
<1>28. \A i \in 1 .. n : Says(Whole[9 + i], Told[1 + i])
  <2> SUFFICES ASSUME NEW i \in 1 .. n PROVE Says(Whole[9 + i], Told[1 + i])
    OBVIOUS
  <2>1. i \in 1 .. Len(t)
    BY ONLY <1>1, <1>24, i \in 1 .. n
  <2>2. Whole[9 + i] = p[i]
    BY ONLY <1>24, <1>26, <2>1, i \in 1 .. n
  <2> QED BY ONLY <1>12, <2>2, i \in 1 .. n
<1>29. Whole[10 + n] = z /\ AckAt(Whole, 10 + n)
  <2>1. /\ n + 1 \in 1 .. n + 4 /\ n + 1 \in Nat /\ (n + 1) + 3 <= n + 4
        /\ 9 + (n + 1) = 10 + n
    BY ONLY <1>1
  <2>2. n + 1 \in 1 .. Len(t) /\ (n + 1) + 3 <= Len(t)
    BY ONLY <1>24, <2>1
  <2>3. Whole[9 + (n + 1)] = t[n + 1] /\ AckAt(Whole, 9 + (n + 1))
    BY ONLY <1>24, <1>26, <2>1, <2>2
  <2> QED BY ONLY <1>24, <2>1, <2>3
<1>30. Says(Whole[10 + n], Boot!Sum(FALSE, [ i \in 1 .. n |-> Told[1 + i] ]))
  <2>1. sum = Boot!Sum(FALSE, [ i \in 1 .. n |-> Told[1 + i] ])
    BY <1>8 DEF sum
  <2> QED BY ONLY <1>13, <1>29, <2>1
<1> QED BY ONLY <1>3, <1>26, <1>27, <1>28, <1>29, <1>30 DEF n

\* The calls in which the boot loader is told something.
Talks == op.kind \in { "read", "write", "erase", "jump" }

\* What it is told.
ToldNames == { "addr", "length", "size", "data", "count", "page" }

\* The script of a call in which it is: a word with its checksum, and then for most
\* calls more of them with theirs.
TalkLayout ==
    /\ Len(Told) \in Nat \ { 0 }
    /\ Says(Whole[5], Told[1]) /\ AckAt(Whole, 6)
    /\ Says(Whole[6], Boot!Sum(FALSE, SubSeq(Told, 1, 1)))
    /\ \A i \in 2 .. Len(Told) : Says(Whole[8 + i], Told[i])
    /\ Len(Told) > 1 =>
          /\ Says(Whole[9 + Len(Told)],
                  Boot!Sum(op.kind = "read", SubSeq(Told, 2, Len(Told))))
          /\ AckAt(Whole, 9 + Len(Told))
          /\ op.kind = "read" \/ Len(Whole) = 12 + Len(Told)
    /\ Len(Told) = 1 =>
          \/ op.kind = "jump" /\ Len(Whole) = 9
          \/ op.kind = "erase" /\ Len(Whole) = 12 /\ AckAt(Whole, 9)
    /\ op.kind = "read" =>
          /\ Len(Told) = 2 /\ Len(Whole) = 16
          /\ Whole[15] = Boot!Step("exchange", Boot!Zero)
          /\ Whole[16] = Boot!Step("receive", op.n)
    /\ \A i \in 1 .. Len(Told) :
          /\ Told[i][1] \in ToldNames
          /\ Told[i][1] = "length" <=> op.kind = "read" /\ i = 2
          /\ Told[i][1] = "count" <=> op.kind = "erase" /\ i = 1

\* A part of one of a sequence.
LEMMA OneIs ==
    ASSUME NEW S, NEW s \in Seq(S), NEW k \in 1 .. Len(s)
    PROVE  << s[k] >> = SubSeq(s, k, k)
<1> DEFINE f == SubSeq(s, k, k)
           g == << s[k] >>
<1>1. k \in Int /\ Len(s) \in Nat
  BY LenProperties
<1>2. \A i \in k .. k : s[i] \in S
  BY <1>1, ElementOfSeq
<1>3. /\ f \in Seq(S) /\ Len(f) = (IF k <= k THEN k - k + 1 ELSE 0)
      /\ \A i \in 1 .. k - k + 1 : f[i] = s[k + i - 1]
  BY <1>1, <1>2, SubSeqProperties
<1> HIDE DEF f
<1>4. Len(f) = 1 /\ f[1] = s[k]
  <2>1. k - k + 1 = 1 /\ k + 1 - 1 = k /\ k <= k
    BY ONLY <1>1
  <2>2. f[1] = s[k + 1 - 1]
    BY ONLY <1>3, <2>1
  <2> QED BY ONLY <1>3, <2>1, <2>2
<1>5. s[k] \in S
  BY ElementOfSeq
<1>6. g \in Seq(S) /\ Len(g) = 1 /\ g[1] = s[k]
  BY <1>5
<1> HIDE DEF g
<1>7. \A i \in 1 .. 1 : f[i] = g[i]
  BY ONLY <1>4, <1>6
<1>8. f = g
  BY ONLY <1>3, <1>4, <1>6, <1>7, SeqEqual
<1> QED BY <1>8 DEF f, g

\* What is behind the first of a sequence.
LEMMA RestIs ==
    ASSUME NEW S, NEW s \in Seq(S), NEW n \in Nat, Len(s) = n + 1
    PROVE  SubSeq(s, 2, n + 1) = [ i \in 1 .. n |-> s[1 + i] ]
<1> DEFINE f == SubSeq(s, 2, n + 1)
           g == [ i \in 1 .. n |-> s[1 + i] ]
<1>1. \A i \in 2 .. n + 1 : s[i] \in S
  BY ElementOfSeq
<1>2. /\ f \in Seq(S) /\ Len(f) = (IF 2 <= n + 1 THEN (n + 1) - 2 + 1 ELSE 0)
      /\ \A i \in 1 .. (n + 1) - 2 + 1 : f[i] = s[2 + i - 1]
  BY <1>1, SubSeqProperties
<1> HIDE DEF f
<1>3. /\ Len(f) = n
      /\ \A i \in 1 .. n : f[i] = s[1 + i]
  <2>1. /\ (n + 1) - 2 + 1 = n /\ (~(2 <= n + 1) => n = 0)
        /\ \A i \in 1 .. n : 2 + i - 1 = 1 + i
    OBVIOUS
  <2> QED BY ONLY <1>2, <2>1
<1>4. \A i \in 1 .. n : s[1 + i] \in S
  BY ElementOfSeq
<1>5. g \in Seq(S) /\ Len(g) = n /\ \A i \in 1 .. n : g[i] = s[1 + i]
  BY <1>4
<1> HIDE DEF g
<1>6. \A i \in 1 .. n : f[i] = g[i]
  BY ONLY <1>3, <1>5
<1>7. f = g
  BY ONLY <1>2, <1>3, <1>5, <1>6, SeqEqual
<1> QED BY <1>7 DEF f, g

\* Every such call has such a script.
LEMMA TalkIs ==
    ASSUME op \in Boot!Operations, calls \in Nat, Talks
    PROVE  Framed /\ TalkLayout
<1> DEFINE T == Bytes \cup Seq(Atoms)
<1>00. Told \in Seq(T)
  BY ToldIs
<1> HIDE DEF T
<1>01. \A k \in 1 .. Len(Told) : << Told[k] >> = SubSeq(Told, k, k)
  BY ONLY <1>00, OneIs
<1>02. ASSUME Len(Told) \in Nat \ { 0 } PROVE << Told[1] >> = SubSeq(Told, 1, 1)
  <2>1. 1 \in 1 .. Len(Told)
    BY ONLY <1>02
  <2> QED BY ONLY <1>01, <2>1
<1>03. ASSUME Len(Told) = 2 PROVE << Told[2] >> = SubSeq(Told, 2, 2)
  <2>1. 2 \in 1 .. Len(Told)
    BY ONLY <1>03
  <2> QED BY ONLY <1>01, <2>1
<1>1. CASE op.kind = "jump"
  <2>1. Len(Told) = 1 /\ Told[1] = Boot!Address(calls)
    BY <1>1, ToldIs
  <2>2. Told[1][1] = "addr"
    BY <2>1 DEF Boot!Address
  <2>3. /\ Framed /\ Len(Whole) = 9 /\ Says(Whole[5], Told[1])
        /\ Says(Whole[6], Boot!Sum(FALSE, << Told[1] >>)) /\ AckAt(Whole, 6)
    BY <1>1, JumpIs
  <2>4. /\ ~(Len(Told) > 1) /\ Len(Told) \in Nat \ { 0 }
        /\ \A i \in 1 .. Len(Told) : i = 1
        /\ \A i \in 2 .. Len(Told) : FALSE
    BY ONLY <2>1
  <2> HIDE DEF Told
  <2>5. Says(Whole[6], Boot!Sum(FALSE, SubSeq(Told, 1, 1)))
    BY ONLY <1>02, <2>3, <2>4
  <2>6. op.kind # "read" /\ op.kind # "erase"
    BY ONLY <1>1
  <2> QED BY ONLY <1>1, <2>1, <2>2, <2>3, <2>4, <2>5, <2>6 DEF TalkLayout, ToldNames
<1>2. CASE op.kind = "erase" /\ op.n >= AllCounts
  <2>1. Len(Told) = 1 /\ Told[1] = << "count", op.n, 2 >>
    BY <1>2, ToldIs
  <2>2. Told[1][1] = "count"
    BY <2>1
  <2>3. /\ Framed /\ Len(Whole) = 12 /\ Says(Whole[5], Told[1])
        /\ Says(Whole[6], Boot!Sum(FALSE, << Told[1] >>)) /\ AckAt(Whole, 6)
        /\ AckAt(Whole, 9)
    BY <1>2, EraseAllIs
  <2>4. /\ ~(Len(Told) > 1) /\ Len(Told) \in Nat \ { 0 }
        /\ \A i \in 1 .. Len(Told) : i = 1
        /\ \A i \in 2 .. Len(Told) : FALSE
    BY ONLY <2>1
  <2>5. Says(Whole[6], Boot!Sum(FALSE, SubSeq(Told, 1, 1)))
    BY ONLY <1>02, <2>3, <2>4
  <2>6. op.kind # "read"
    BY ONLY <1>2
  <2> QED BY ONLY <1>2, <2>1, <2>2, <2>3, <2>4, <2>5, <2>6 DEF TalkLayout, ToldNames
<1>3. CASE op.kind = "erase" /\ op.n < AllCounts
  <2> DEFINE n == op.n
  <2>0. n \in Nat /\ n > 0
    BY <1>3, OpNumbers
  <2>1. /\ Len(Told) = n + 1 /\ Told[1] = << "count", op.n - 1, 2 >>
        /\ \A i \in 1 .. n : Told[1 + i] = Page(i)
    BY <1>3, ToldIs
  <2>2. Told[1][1] = "count" /\ \A i \in 1 .. n : Page(i)[1] = "page"
    BY <2>1 DEF Page
  <2>3. /\ Framed /\ Len(Whole) = 13 + n /\ Says(Whole[5], Told[1])
        /\ Says(Whole[6], Boot!Sum(FALSE, << Told[1] >>)) /\ AckAt(Whole, 6)
        /\ \A i \in 1 .. n : Says(Whole[9 + i], Told[1 + i])
        /\ Says(Whole[10 + n], Boot!Sum(FALSE, [ i \in 1 .. n |-> Told[1 + i] ]))
        /\ AckAt(Whole, 10 + n)
    BY <1>3, EraseIs
  <2> HIDE DEF n
  <2>4. /\ Len(Told) > 1 /\ Len(Told) \in Nat \ { 0 } /\ Len(Told) # 1
        /\ 9 + Len(Told) = 10 + n /\ 13 + n = 12 + Len(Told)
    BY ONLY <2>0, <2>1
  <2>5. SubSeq(Told, 2, Len(Told)) = [ i \in 1 .. n |-> Told[1 + i] ]
    BY ONLY <1>00, <2>0, <2>1, RestIs
  <2>6. ASSUME NEW i \in 2 .. Len(Told)
        PROVE  Says(Whole[8 + i], Told[i]) /\ Told[i][1] = "page"
    <3>1. i - 1 \in 1 .. n /\ 9 + (i - 1) = 8 + i /\ 1 + (i - 1) = i
      BY ONLY <2>0, <2>1, i \in 2 .. Len(Told)
    <3>2. Says(Whole[9 + (i - 1)], Told[1 + (i - 1)]) /\ Told[1 + (i - 1)] = Page(i - 1)
      BY ONLY <2>1, <2>3, <3>1
    <3>3. Page(i - 1)[1] = "page"
      BY ONLY <2>2, <3>1
    <3> QED BY ONLY <3>1, <3>2, <3>3
  <2>7. (op.kind = "read") = FALSE
    BY <1>3
  <2>8. Says(Whole[9 + Len(Told)],
             Boot!Sum(op.kind = "read", SubSeq(Told, 2, Len(Told))))
    BY ONLY <2>3, <2>4, <2>5, <2>7
  <2>9. Says(Whole[6], Boot!Sum(FALSE, SubSeq(Told, 1, 1)))
    BY ONLY <1>02, <2>3, <2>4
  <2>11. ASSUME NEW i \in 1 .. Len(Told)
         PROVE  /\ Told[i][1] \in ToldNames
                /\ Told[i][1] = "length" <=> op.kind = "read" /\ i = 2
                /\ Told[i][1] = "count" <=> op.kind = "erase" /\ i = 1
    <3>1. CASE i = 1
      BY ONLY <1>3, <2>2, <3>1 DEF ToldNames
    <3>2. CASE i \in 2 .. Len(Told) /\ i # 1
      <4>1. Told[i][1] = "page"
        BY ONLY <2>6, <3>2
      <4> QED BY ONLY <1>3, <3>2, <4>1 DEF ToldNames
    <3>3. i = 1 \/ (i \in 2 .. Len(Told) /\ i # 1)
      BY ONLY <2>4, i \in 1 .. Len(Told)
    <3> QED BY ONLY <3>1, <3>2, <3>3
  <2>12. op.kind # "read"
    BY ONLY <1>3
  <2> QED BY ONLY <2>3, <2>4, <2>6, <2>8, <2>9, <2>11, <2>12 DEF TalkLayout
<1>4. CASE op.kind = "write"
  <2>1. /\ Len(Told) = 3 /\ Told[1] = Boot!Address(calls)
        /\ Told[2] = << "size", op.n >> /\ Told[3] = << "data", calls, op.n >>
    BY <1>4, ToldIs
  <2>2. Told[1][1] = "addr" /\ Told[2][1] = "size" /\ Told[3][1] = "data"
    BY <2>1 DEF Boot!Address
  <2>3. /\ Framed /\ Len(Whole) = 15 /\ Says(Whole[5], Told[1])
        /\ Says(Whole[6], Boot!Sum(FALSE, << Told[1] >>)) /\ AckAt(Whole, 6)
        /\ Says(Whole[10], Told[2]) /\ Says(Whole[11], Told[3])
        /\ Says(Whole[12], Boot!Sum(FALSE, << Told[2], Told[3] >>))
        /\ AckAt(Whole, 12)
    BY <1>4, WriteIs
  <2>4. << Told[2], Told[3] >> = SubSeq(Told, 2, 3)
    <3>1. SubSeq(Told, 2, 2 + 1) = [ i \in 1 .. 2 |-> Told[1 + i] ]
      BY ONLY <1>00, <2>1, 2 \in Nat, RestIs
    <3>2. [ i \in 1 .. 2 |-> Told[1 + i] ] = << Told[2], Told[3] >>
      BY ONLY TRUE
    <3> QED BY ONLY <3>1, <3>2
  <2>5. (op.kind = "read") = FALSE
    BY <1>4
  <2>6. /\ Len(Told) > 1 /\ Len(Told) \in Nat \ { 0 } /\ Len(Told) # 1
        /\ 9 + Len(Told) = 12 /\ 15 = 12 + Len(Told)
        /\ \A i \in 1 .. Len(Told) : i = 1 \/ i = 2 \/ i = 3
        /\ \A i \in 2 .. Len(Told) : i = 2 \/ i = 3
    BY ONLY <2>1
  <2>7. Says(Whole[9 + Len(Told)],
             Boot!Sum(op.kind = "read", SubSeq(Told, 2, Len(Told))))
    BY ONLY <2>1, <2>3, <2>4, <2>5, <2>6
  <2>8. Says(Whole[6], Boot!Sum(FALSE, SubSeq(Told, 1, 1)))
    BY ONLY <1>02, <2>3, <2>6
  <2>9. \A i \in 2 .. Len(Told) : Says(Whole[8 + i], Told[i])
    <3>1. 8 + 2 = 10 /\ 8 + 3 = 11
      OBVIOUS
    <3>2. Says(Whole[8 + 2], Told[2]) /\ Says(Whole[8 + 3], Told[3])
      BY ONLY <2>3, <3>1
    <3> QED BY ONLY <2>6, <3>2
  <2>10. op.kind # "read" /\ op.kind # "erase"
    BY ONLY <1>4
  <2> QED BY ONLY <2>2, <2>3, <2>6, <2>7, <2>8, <2>9, <2>10 DEF TalkLayout, ToldNames
<1>5. CASE op.kind = "read"
  <2>1. /\ Len(Told) = 2 /\ Told[1] = Boot!Address(calls)
        /\ Told[2] = << "length", op.n - 1, 1 >>
    BY <1>5, ToldIs
  <2>2. Told[1][1] = "addr" /\ Told[2][1] = "length"
    BY <2>1 DEF Boot!Address
  <2>3. /\ Framed /\ Len(Whole) = 16 /\ Says(Whole[5], Told[1])
        /\ Says(Whole[6], Boot!Sum(FALSE, << Told[1] >>)) /\ AckAt(Whole, 6)
        /\ Says(Whole[10], Told[2])
        /\ Says(Whole[11], Boot!Sum(TRUE, << Told[2] >>)) /\ AckAt(Whole, 11)
        /\ Whole[15] = Boot!Step("exchange", Boot!Zero)
        /\ Whole[16] = Boot!Step("receive", op.n)
    BY <1>5, ReadIs
  <2>5. (op.kind = "read") = TRUE
    BY <1>5
  <2>6. /\ Len(Told) > 1 /\ Len(Told) \in Nat \ { 0 } /\ Len(Told) # 1
        /\ 9 + Len(Told) = 11
        /\ \A i \in 1 .. Len(Told) : i = 1 \/ i = 2
        /\ \A i \in 2 .. Len(Told) : i = 2
    BY ONLY <2>1
  <2>7. Says(Whole[9 + Len(Told)],
             Boot!Sum(op.kind = "read", SubSeq(Told, 2, Len(Told))))
    BY ONLY <1>03, <2>1, <2>3, <2>5, <2>6
  <2>8. Says(Whole[6], Boot!Sum(FALSE, SubSeq(Told, 1, 1)))
    BY ONLY <1>02, <2>3, <2>6
  <2>9. \A i \in 2 .. Len(Told) : Says(Whole[8 + i], Told[i])
    <3>1. 8 + 2 = 10
      OBVIOUS
    <3>2. Says(Whole[8 + 2], Told[2])
      BY ONLY <2>3, <3>1
    <3> QED BY ONLY <2>6, <3>2
  <2>10. op.kind # "erase"
    BY ONLY <1>5
  <2> QED BY ONLY <1>5, <2>1, <2>2, <2>3, <2>6, <2>7, <2>8, <2>9, <2>10
          DEF TalkLayout, ToldNames
<1>6. op.kind = "erase" => op.n >= AllCounts \/ op.n < AllCounts
  BY OpNumbers
<1> QED BY ONLY <1>1, <1>2, <1>3, <1>4, <1>5, <1>6, Talks DEF Talks

\* The numbers of words it has been told, and agreed to.
LEMMA GoneIs ==
    ASSUME NEW h \in Nat, Len(Told) \in Nat \ { 0 }
    PROVE  /\ h < 5 => Gone(h) = 0
           /\ h \in 5 .. 9 => Gone(h) = 1
           /\ h >= 10 /\ h - 8 < Len(Told) => Gone(h) = h - 8
           /\ h >= 10 /\ h - 8 >= Len(Told) => Gone(h) = Len(Told)
           /\ h < 8 => Agreed(h) = 0
           /\ h >= 8 /\ h < 11 + Len(Told) => Agreed(h) = 1
           /\ h >= 11 + Len(Told) => Agreed(h) = Len(Told)
<1>1. Told # << >>
  <2>1. Len(<< >>) = 0
    OBVIOUS
  <2> QED BY <2>1
<1> DEFINE m == Len(Told)
<1>2. m \in Nat /\ m > 0
  OBVIOUS
<1>3. /\ Gone(h) = IF h < 5 THEN 0 ELSE IF h < 10 THEN 1 ELSE IF h - 8 < m THEN h - 8
                   ELSE m
      /\ Agreed(h) = IF h < 8 THEN 0 ELSE IF h < 11 + m THEN 1 ELSE m
  BY <1>1 DEF Gone, Agreed
<1> HIDE DEF m
<1>4. /\ h < 5 => Gone(h) = 0
      /\ h \in 5 .. 9 => Gone(h) = 1
      /\ h >= 10 /\ h - 8 < m => Gone(h) = h - 8
      /\ h >= 10 /\ h - 8 >= m => Gone(h) = m
      /\ h < 8 => Agreed(h) = 0
      /\ h >= 8 /\ h < 11 + m => Agreed(h) = 1
      /\ h >= 11 + m => Agreed(h) = m
  BY ONLY <1>2, <1>3, h \in Nat
<1> QED BY <1>4 DEF m

\* What is covered by a checksum names a length.
HasLength(s) == \E i \in DOMAIN s : s[i][1] = "length"

\* What the checksum behind h steps covers.
Covers(h) == SubSeq(Told, Agreed(h) + 1, Gone(h))

\* Only the length that a read names is, of the single bytes.
LEMMA LengthsCovered ==
    ASSUME op \in Boot!Operations, calls \in Nat, TalkLayout
    PROVE  /\ HasLength(SubSeq(Told, 1, 1)) = FALSE
           /\ Len(Told) > 1 =>
                HasLength(SubSeq(Told, 2, Len(Told))) = (op.kind = "read")
<1> DEFINE T == Bytes \cup Seq(Atoms)
<1>1. Told \in Seq(T)
  BY ToldIs
<1>2. /\ Len(Told) \in Nat \ { 0 } /\ (op.kind = "read" => Len(Told) = 2)
      /\ \A i \in 1 .. Len(Told) : Told[i][1] = "length" <=> op.kind = "read" /\ i = 2
  BY DEF TalkLayout
<1> HIDE DEF T, Told
<1>3. \A i \in 1 .. Len(Told) : Told[i] \in T
  BY <1>1, ElementOfSeq
<1>4. HasLength(SubSeq(Told, 1, 1)) = FALSE
  <2> DEFINE f == SubSeq(Told, 1, 1)
  <2>0. \A i \in 1 .. 1 : Told[i] \in T
    BY ONLY <1>2, <1>3
  <2>1. /\ f \in Seq(T) /\ Len(f) = (IF 1 <= 1 THEN 1 - 1 + 1 ELSE 0)
        /\ \A i \in 1 .. 1 - 1 + 1 : f[i] = Told[1 + i - 1]
    BY <2>0, SubSeqProperties
  <2> HIDE DEF f
  <2>2. Len(f) = 1 /\ f[1] = Told[1] /\ DOMAIN f = 1 .. 1
    <3>1. 1 - 1 + 1 = 1 /\ 1 <= 1
      OBVIOUS
    <3>2. DOMAIN f = 1 .. Len(f)
      BY ONLY <2>1, LenProperties
    <3>3. f[1] = Told[1 + 1 - 1]
      BY ONLY <2>1, <3>1
    <3> QED BY ONLY <2>1, <3>1, <3>2, <3>3
  <2>3. Told[1][1] # "length"
    BY ONLY <1>2
  <2>4. ~HasLength(f)
    BY ONLY <2>2, <2>3 DEF HasLength
  <2> QED BY <2>4 DEF f, HasLength
<1>5. ASSUME Len(Told) > 1
      PROVE  HasLength(SubSeq(Told, 2, Len(Told))) = (op.kind = "read")
  <2> DEFINE m == Len(Told)
             f == SubSeq(Told, 2, m)
  <2>0. m \in Nat /\ m > 1
    BY ONLY <1>2, <1>5
  <2>00. \A i \in 2 .. m : Told[i] \in T
    BY ONLY <1>2, <1>3, <2>0
  <2> HIDE DEF m
  <2>1. /\ f \in Seq(T) /\ Len(f) = (IF 2 <= m THEN m - 2 + 1 ELSE 0)
        /\ \A i \in 1 .. m - 2 + 1 : f[i] = Told[2 + i - 1]
    BY <2>0, <2>00, SubSeqProperties
  <2> HIDE DEF f
  <2>2. DOMAIN f = 1 .. m - 1 /\ \A i \in 1 .. m - 1 : f[i] = Told[1 + i]
    <3>1. 2 <= m /\ m - 2 + 1 = m - 1 /\ \A i \in 1 .. m - 1 : 2 + i - 1 = 1 + i
      BY ONLY <2>0
    <3>2. DOMAIN f = 1 .. Len(f)
      BY ONLY <2>1, LenProperties
    <3> QED BY ONLY <2>1, <3>1, <3>2
  <2>3. \A i \in 1 .. m : Told[i][1] = "length" <=> op.kind = "read" /\ i = 2
    BY <1>2 DEF m
  <2>4. CASE op.kind = "read"
    <3>1. m = 2
      BY <1>2, <2>4 DEF m
    <3>2. 1 \in DOMAIN f /\ f[1] = Told[2] /\ Told[2][1] = "length"
      BY ONLY <2>2, <2>3, <2>4, <3>1
    <3>3. HasLength(f)
      BY ONLY <3>2 DEF HasLength
    <3> QED BY <2>4, <3>3 DEF f, m, HasLength
  <2>5. CASE op.kind # "read"
    <3>1. \A i \in 1 .. m - 1 : Told[1 + i][1] # "length"
      <4>1. \A i \in 1 .. m - 1 : 1 + i \in 1 .. m
        BY ONLY <2>0
      <4> QED BY ONLY <2>3, <2>5, <4>1
    <3>2. ~HasLength(f)
      BY ONLY <2>2, <3>1 DEF HasLength
    <3> QED BY <2>5, <3>2 DEF f, m, HasLength
  <2> QED BY ONLY <2>4, <2>5 DEF f, m
<1> QED BY ONLY <1>4, <1>5

----------------------------------------------------------------------------
(***************************************************************************)
(* What each step of a script can be.                                      *)
(***************************************************************************)
\* What a step of a script can be, and what it changes: the frame, the three steps
\* of an acknowledgement, and those between two acknowledgements, behind which there
\* is another one, except for a read.
Still(h) == Gone(h + 1) = Gone(h) /\ Agreed(h + 1) = Agreed(h)
Inside(h) == h > 0 /\ h + 1 < Len(Whole) /\ (op.kind # "read" => h + 4 <= Len(Whole))
FrameNext(h) ==
    h = 0 /\ Whole[h + 1] = Boot!Step("frame", << "frame", op.kind, calls >>)
SkipNext(h) ==
    /\ h > 0 /\ h + 3 <= Len(Whole) /\ Still(h)
    /\ Whole[h + 1] = SkipStep /\ Whole[h + 2] = PollStep /\ Whole[h + 3] = EchoStep
PollNext(h) ==
    /\ h > 1 /\ h + 2 <= Len(Whole)
    /\ Whole[h] = SkipStep /\ Whole[h + 1] = PollStep /\ Whole[h + 2] = EchoStep
    /\ Gone(h + 1) = Gone(h) /\ Agreed(h + 1) = Gone(h)
    /\ h + 2 = Len(Whole) => Gone(h) = Len(Told)
    /\ Still(h - 1)
EchoNext(h) ==
    /\ h > 2 /\ Whole[h] = PollStep /\ Whole[h + 1] = EchoStep /\ Still(h)
DummyNext(h) ==
    Inside(h) /\ Whole[h + 1] = Boot!Step("exchange", Boot!Zero) /\ Still(h)
ValueNext(h) ==
    /\ Inside(h) /\ Whole[h + 1] = Boot!Step("value", Boot!Zero) /\ Still(h)
    /\ h = 5 /\ op.kind = "version"
SizeNext(h) ==
    /\ Inside(h) /\ Whole[h + 1] = Boot!Step("size", Boot!Zero) /\ Still(h)
    /\ h = 5 /\ op.kind = "id" /\ Whole[h + 2] = Boot!Step("receive", 2)
ReceiveNext(h) ==
    /\ Still(h)
    /\ \/ /\ h = 6 /\ op.kind = "id" /\ Whole[h + 1] = Boot!Step("receive", 2)
          /\ Inside(h)
       \/ /\ h = 15 /\ op.kind = "read" /\ Whole[h + 1] = Boot!Step("receive", op.n)
          /\ Len(Whole) = 16
TellNext(h) ==
    /\ Inside(h) /\ Gone(h) < Len(Told) /\ Says(Whole[h + 1], Told[Gone(h) + 1])
    /\ Gone(h + 1) = Gone(h) + 1 /\ Agreed(h + 1) = Agreed(h)
    /\ Agreed(h) <= Gone(h)
    /\ Told[Gone(h) + 1][1] = "count" <=> op.kind = "erase" /\ h = 4
    /\ Told[Gone(h) + 1][1] \in ToldNames
SumNext(h) ==
    /\ Inside(h) /\ Still(h)
    /\ Says(Whole[h + 1], Boot!Sum(HasLength(Covers(h)), Covers(h)))

\* Any of these.
AckStep(h) == SkipNext(h) \/ PollNext(h) \/ EchoNext(h)
DataStep(h) == DummyNext(h) \/ ValueNext(h) \/ SizeNext(h) \/ ReceiveNext(h)
TalkStep(h) == TellNext(h) \/ SumNext(h)
Known(h) == FrameNext(h) \/ AckStep(h) \/ DataStep(h) \/ TalkStep(h)

\* The numbers fit an acknowledgement behind k steps.
AckFits(k) ==
    /\ Gone(k + 1) = Gone(k) /\ Gone(k + 2) = Gone(k) /\ Gone(k + 3) = Gone(k)
    /\ Agreed(k + 1) = Agreed(k) /\ Agreed(k + 2) = Gone(k) /\ Agreed(k + 3) = Gone(k)
    /\ k + 3 = Len(Whole) => Gone(k) = Len(Told)

\* The steps of an acknowledgement.
LEMMA AckSteps ==
    ASSUME NEW k \in Nat \ { 0 }, AckAt(Whole, k), k + 3 <= Len(Whole), AckFits(k)
    PROVE  AckStep(k) /\ AckStep(k + 1) /\ AckStep(k + 2)
<1>1. /\ Whole[k + 1] = SkipStep /\ Whole[k + 2] = PollStep /\ Whole[k + 3] = EchoStep
  BY DEF AckAt
<1>2. /\ (k + 1) + 1 = k + 2 /\ (k + 1) + 2 = k + 3 /\ (k + 2) + 1 = k + 3
      /\ (k + 1) - 1 = k /\ k > 0 /\ k + 1 > 1 /\ k + 2 > 2 /\ (k + 1) + 2 <= k + 3
  OBVIOUS
<1>3. SkipNext(k)
  BY <1>1, <1>2 DEF SkipNext, Still, AckFits
<1>4. PollNext(k + 1)
  <2>1. Still((k + 1) - 1)
    BY ONLY <1>2, AckFits(k) DEF Still, AckFits
  <2>2. /\ Gone((k + 1) + 1) = Gone(k + 1) /\ Agreed((k + 1) + 1) = Gone(k + 1)
        /\ (k + 1) + 2 = Len(Whole) => Gone(k + 1) = Len(Told)
    BY ONLY <1>2, AckFits(k) DEF AckFits
  <2>3. k + 1 > 1 /\ (k + 1) + 2 <= Len(Whole)
    <3> HIDE DEF Whole
    <3> QED BY <1>2
  <2>4. Whole[(k + 1) + 1] = PollStep /\ Whole[(k + 1) + 2] = EchoStep
    BY ONLY <1>1, <1>2
  <2> QED BY ONLY <1>1, <2>1, <2>2, <2>3, <2>4 DEF PollNext
<1>5. EchoNext(k + 2)
  <2>1. Still(k + 2)
    BY ONLY <1>2, AckFits(k) DEF Still, AckFits
  <2> QED BY ONLY <1>1, <1>2, <2>1 DEF EchoNext
<1> QED BY ONLY <1>3, <1>4, <1>5 DEF AckStep

\* The numbers of a call in which it is told nothing.
LEMMA NothingGone ==
    ASSUME Told = << >>
    PROVE  Len(Told) = 0 /\ \A h : Gone(h) = 0 /\ Agreed(h) = 0
BY DEF Gone, Agreed

\* The steps of the calls in which it is told nothing.
LEMMA DataKnown ==
    ASSUME op \in Boot!Operations, calls \in Nat, op.kind \in { "version", "id" },
           NEW h \in 0 .. Len(Whole) - 1
    PROVE  Known(h)
<1>1. Told = << >>
  BY ToldIs
<1>2. /\ Len(Told) = 0 /\ \A i : Gone(i) = 0 /\ Agreed(i) = 0
  BY <1>1, NothingGone
<1>3. \A k : AckFits(k)
  BY ONLY <1>2 DEF AckFits
<1>4. \A k : Still(k)
  BY ONLY <1>2 DEF Still
<1>5. CASE op.kind = "version"
  <2>1. /\ Framed /\ Len(Whole) = 9 /\ Whole[5] = Boot!Step("exchange", Boot!Zero)
        /\ Whole[6] = Boot!Step("value", Boot!Zero) /\ AckAt(Whole, 6)
    BY <1>5, VersionIs
  <2>2. /\ Whole[1] = Boot!Step("frame", << "frame", op.kind, calls >>)
        /\ AckAt(Whole, 1)
    BY ONLY <2>1 DEF Framed
  <2>3. AckStep(1) /\ AckStep(1 + 1) /\ AckStep(1 + 2)
    <3>1. 1 + 3 <= Len(Whole) /\ 1 \in Nat \ { 0 }
      BY ONLY <2>1
    <3> QED BY ONLY <1>3, <2>2, <3>1, AckSteps
  <2>4. AckStep(6) /\ AckStep(6 + 1) /\ AckStep(6 + 2)
    <3>1. 6 + 3 <= Len(Whole) /\ 6 \in Nat \ { 0 }
      BY ONLY <2>1
    <3> QED BY ONLY <1>3, <2>1, <3>1, AckSteps
  <2>5. DummyNext(4) /\ ValueNext(5)
    <3>1. Inside(4) /\ Inside(5)
      <4>1. 4 > 0 /\ 4 + 1 < 9 /\ 4 + 4 <= 9 /\ 5 > 0 /\ 5 + 1 < 9 /\ 5 + 4 <= 9
        OBVIOUS
      <4> QED BY ONLY <2>1, <4>1 DEF Inside
    <3>2. 4 + 1 = 5 /\ 5 + 1 = 6
      OBVIOUS
    <3> QED BY ONLY <1>4, <1>5, <2>1, <3>1, <3>2 DEF DummyNext, ValueNext
  <2>6. FrameNext(0)
    <3>1. 0 + 1 = 1
      OBVIOUS
    <3> QED BY ONLY <2>2, <3>1 DEF FrameNext
  <2>7. h \in 0 .. 8
    BY ONLY <2>1, h \in 0 .. Len(Whole) - 1
  <2>8. h = 0 \/ h = 1 \/ h = 1 + 1 \/ h = 1 + 2 \/ h = 4 \/ h = 5 \/ h = 6
        \/ h = 6 + 1 \/ h = 6 + 2
    BY ONLY <2>7
  <2> QED BY ONLY <2>3, <2>4, <2>5, <2>6, <2>8 DEF Known, DataStep
<1>6. CASE op.kind = "id"
  <2>1. /\ Framed /\ Len(Whole) = 10 /\ Whole[5] = Boot!Step("exchange", Boot!Zero)
        /\ Whole[6] = Boot!Step("size", Boot!Zero)
        /\ Whole[7] = Boot!Step("receive", 2) /\ AckAt(Whole, 7)
    BY <1>6, IdIs
  <2>2. /\ Whole[1] = Boot!Step("frame", << "frame", op.kind, calls >>)
        /\ AckAt(Whole, 1)
    BY ONLY <2>1 DEF Framed
  <2>3. AckStep(1) /\ AckStep(1 + 1) /\ AckStep(1 + 2)
    <3>1. 1 + 3 <= Len(Whole) /\ 1 \in Nat \ { 0 }
      BY ONLY <2>1
    <3> QED BY ONLY <1>3, <2>2, <3>1, AckSteps
  <2>4. AckStep(7) /\ AckStep(7 + 1) /\ AckStep(7 + 2)
    <3>1. 7 + 3 <= Len(Whole) /\ 7 \in Nat \ { 0 }
      BY ONLY <2>1
    <3> QED BY ONLY <1>3, <2>1, <3>1, AckSteps
  <2>5. DummyNext(4) /\ SizeNext(5) /\ ReceiveNext(6)
    <3>1. Inside(4) /\ Inside(5) /\ Inside(6)
      <4>1. /\ 4 > 0 /\ 4 + 1 < 10 /\ 4 + 4 <= 10 /\ 5 > 0 /\ 5 + 1 < 10 /\ 5 + 4 <= 10
            /\ 6 > 0 /\ 6 + 1 < 10 /\ 6 + 4 <= 10
        OBVIOUS
      <4> QED BY ONLY <2>1, <4>1 DEF Inside
    <3>2. 4 + 1 = 5 /\ 5 + 1 = 6 /\ 5 + 2 = 7 /\ 6 + 1 = 7
      OBVIOUS
    <3> QED BY ONLY <1>4, <1>6, <2>1, <3>1, <3>2 DEF DummyNext, SizeNext, ReceiveNext
  <2>6. FrameNext(0)
    <3>1. 0 + 1 = 1
      OBVIOUS
    <3> QED BY ONLY <2>2, <3>1 DEF FrameNext
  <2>7. h \in 0 .. 9
    BY ONLY <2>1, h \in 0 .. Len(Whole) - 1
  <2>8. h = 0 \/ h = 1 \/ h = 1 + 1 \/ h = 1 + 2 \/ h = 4 \/ h = 5 \/ h = 6 \/ h = 7
        \/ h = 7 + 1 \/ h = 7 + 2
    BY ONLY <2>7
  <2> QED BY ONLY <2>3, <2>4, <2>5, <2>6, <2>8 DEF Known, DataStep
<1> QED BY ONLY <1>5, <1>6, op.kind \in { "version", "id" }

\* How long such a script is.
LEMMA TalkLong ==
    ASSUME TalkLayout, Talks
    PROVE  /\ Len(Told) \in Nat /\ Len(Told) > 0 /\ Len(Whole) \in Nat
           /\ Len(Whole) > 8
           /\ Len(Whole) = 9 => Len(Told) = 1
           /\ Len(Told) = 1 => \/ op.kind = "jump" /\ Len(Whole) = 9
                               \/ op.kind = "erase" /\ Len(Whole) = 12
           /\ Len(Told) > 1 => \/ op.kind # "read" /\ Len(Whole) = 12 + Len(Told)
                               \/ op.kind = "read" /\ Len(Told) = 2 /\ Len(Whole) = 16
<1> DEFINE m == Len(Told)
           n == Len(Whole)
<1>1. /\ m \in Nat \ { 0 }
      /\ m > 1 => op.kind = "read" \/ n = 12 + m
      /\ m = 1 => \/ op.kind = "jump" /\ n = 9
                  \/ op.kind = "erase" /\ n = 12
      /\ op.kind = "read" => m = 2 /\ n = 16
  BY DEF TalkLayout
<1> HIDE DEF m, n
<1>2. /\ m \in Nat /\ m > 0 /\ n \in Nat /\ n > 8 /\ (n = 9 => m = 1)
      /\ m = 1 => \/ op.kind = "jump" /\ n = 9
                  \/ op.kind = "erase" /\ n = 12
      /\ m > 1 => \/ op.kind # "read" /\ n = 12 + m
                  \/ op.kind = "read" /\ m = 2 /\ n = 16
  <2>1. CASE m = 1
    BY ONLY <1>1, <2>1
  <2>2. CASE m > 1 /\ op.kind = "read"
    BY ONLY <1>1, <2>2
  <2>3. CASE m > 1 /\ op.kind # "read"
    BY ONLY <1>1, <2>3
  <2>4. m = 1 \/ m > 1
    BY ONLY <1>1
  <2> QED BY ONLY <2>1, <2>2, <2>3, <2>4
<1> QED BY <1>2 DEF m, n

\* The first word it is told, and what belongs to it.
LEMMA FirstKnown ==
    ASSUME op \in Boot!Operations, calls \in Nat, Talks, NEW h \in 0 .. 8
    PROVE  Known(h)
<1>1. Framed /\ TalkLayout
  BY TalkIs
<1>2. /\ Len(Told) \in Nat /\ Len(Told) > 0 /\ Len(Whole) \in Nat /\ Len(Whole) > 8
      /\ (Len(Whole) = 9 => Len(Told) = 1)
  BY ONLY <1>1, Talks, TalkLong
<1>3. \A i \in 0 .. 4 : Gone(i) = 0 /\ Agreed(i) = 0
  BY ONLY <1>2, GoneIs
<1>4. /\ \A i \in 5 .. 9 : Gone(i) = 1
      /\ \A i \in 0 .. 7 : Agreed(i) = 0
      /\ Agreed(8) = 1 /\ Agreed(9) = 1
  BY ONLY <1>2, GoneIs
<1>5. /\ Whole[1] = Boot!Step("frame", << "frame", op.kind, calls >>)
      /\ AckAt(Whole, 1)
  BY ONLY <1>1 DEF Framed
<1>6. /\ Says(Whole[5], Told[1]) /\ AckAt(Whole, 6)
      /\ Says(Whole[6], Boot!Sum(FALSE, SubSeq(Told, 1, 1)))
      /\ \A i \in 1 .. Len(Told) :
            /\ Told[i][1] \in ToldNames
            /\ Told[i][1] = "count" <=> op.kind = "erase" /\ i = 1
  BY ONLY <1>1 DEF TalkLayout
<1>7. AckStep(1) /\ AckStep(1 + 1) /\ AckStep(1 + 2)
  <2>1. AckFits(1)
    <3>1. 1 + 1 = 2 /\ 1 + 2 = 3 /\ 1 + 3 = 4
      OBVIOUS
    <3>2. Len(Whole) # 4
      <4>1. SUFFICES ASSUME Len(Whole) = 4 PROVE FALSE
        OBVIOUS
      <4>2. Len(Whole) > 8
        BY ONLY <1>2
      <4>3. 4 > 8
        BY ONLY <4>1, <4>2
      <4> QED BY ONLY <4>3
    <3> QED BY ONLY <1>3, <3>1, <3>2 DEF AckFits
  <2>2. 1 + 3 <= Len(Whole) /\ 1 \in Nat \ { 0 }
    BY ONLY <1>2
  <2> QED BY ONLY <1>5, <2>1, <2>2, AckSteps
<1>8. AckStep(6) /\ AckStep(6 + 1) /\ AckStep(6 + 2)
  <2>1. AckFits(6)
    <3>1. 6 + 1 = 7 /\ 6 + 2 = 8 /\ 6 + 3 = 9 /\ (Len(Whole) = 9 => Len(Told) = 1)
      BY ONLY <1>2
    <3>2. Gone(6) = 1 /\ Gone(7) = 1 /\ Gone(8) = 1 /\ Gone(9) = 1
      BY ONLY <1>4
    <3>3. Agreed(6) = 0 /\ Agreed(7) = 0 /\ Agreed(8) = 1 /\ Agreed(9) = 1
      BY ONLY <1>4
    <3> QED BY ONLY <3>1, <3>2, <3>3 DEF AckFits
  <2>2. 6 + 3 <= Len(Whole) /\ 6 \in Nat \ { 0 }
    BY ONLY <1>2
  <2> QED BY ONLY <1>6, <2>1, <2>2, AckSteps
<1>9. Inside(4) /\ Inside(5)
  <2>1. 4 > 0 /\ 4 + 1 < Len(Whole) /\ 4 + 4 <= Len(Whole) /\ 5 > 0
            /\ 5 + 1 < Len(Whole) /\ 5 + 4 <= Len(Whole)
    BY ONLY <1>2
  <2> QED BY ONLY <2>1 DEF Inside
<1>10. TellNext(4)
  <2>1. 4 + 1 = 5 /\ 0 + 1 = 1 /\ 0 < Len(Told) /\ 0 <= 0 /\ 1 \in 1 .. Len(Told)
    BY ONLY <1>2
  <2>2. Gone(4) = 0 /\ Agreed(4) = 0 /\ Gone(5) = 1 /\ Agreed(5) = 0
    BY ONLY <1>3, <1>4
  <2>3. /\ Told[1][1] \in ToldNames
        /\ Told[1][1] = "count" <=> op.kind = "erase" /\ 4 = 4
    BY ONLY <1>6, <2>1
  <2> QED BY ONLY <1>6, <1>9, <2>1, <2>2, <2>3 DEF TellNext
<1>11. SumNext(5)
  <2>1. 5 + 1 = 6 /\ 0 + 1 = 1
    OBVIOUS
  <2>2. Gone(5) = 1 /\ Agreed(5) = 0 /\ Gone(6) = 1 /\ Agreed(6) = 0
    BY ONLY <1>4
  <2>3. Covers(5) = SubSeq(Told, 1, 1)
    BY ONLY <2>1, <2>2 DEF Covers
  <2>4. HasLength(SubSeq(Told, 1, 1)) = FALSE
    BY ONLY <1>1, op \in Boot!Operations, calls \in Nat, LengthsCovered
  <2>5. Still(5)
    BY ONLY <2>1, <2>2 DEF Still
  <2>6. Says(Whole[5 + 1], Boot!Sum(HasLength(Covers(5)), Covers(5)))
    BY ONLY <1>6, <2>1, <2>3, <2>4
  <2> QED BY ONLY <1>9, <2>5, <2>6 DEF SumNext
<1>12. FrameNext(0)
  <2>1. 0 + 1 = 1
    OBVIOUS
  <2> QED BY ONLY <1>5, <2>1 DEF FrameNext
<1>13. h = 0 \/ h = 1 \/ h = 1 + 1 \/ h = 1 + 2 \/ h = 4 \/ h = 5 \/ h = 6
       \/ h = 6 + 1 \/ h = 6 + 2
  BY ONLY h \in 0 .. 8
<1> QED BY ONLY <1>7, <1>8, <1>10, <1>11, <1>12, <1>13 DEF Known, TalkStep

\* When there is no more, an erase of everything is yet acknowledged.
LEMMA OneKnown ==
    ASSUME op \in Boot!Operations, calls \in Nat, Talks, Len(Told) = 1,
           NEW h \in 9 .. Len(Whole) - 1
    PROVE  Known(h)
<1>1. Framed /\ TalkLayout
  BY TalkIs
<1>2. /\ Len(Told) \in Nat \ { 0 } /\ (op.kind = "jump" => Len(Whole) = 9)
      /\ op.kind = "jump" \/ (Len(Whole) = 12 /\ AckAt(Whole, 9))
  BY ONLY <1>1, Len(Told) = 1 DEF TalkLayout
<1>3. Len(Whole) = 12 /\ AckAt(Whole, 9)
  <2>1. Len(Whole) # 9
    <3>1. SUFFICES ASSUME Len(Whole) = 9 PROVE FALSE
      OBVIOUS
    <3>2. h \in 9 .. 9 - 1
      BY ONLY <3>1, h \in 9 .. Len(Whole) - 1
    <3> QED BY ONLY <3>2
  <2> QED BY ONLY <1>2, <2>1
<1>4. /\ Gone(9) = 1 /\ Gone(10) = 1 /\ Gone(11) = 1 /\ Gone(12) = 1
      /\ Agreed(9) = 1 /\ Agreed(10) = 1 /\ Agreed(11) = 1 /\ Agreed(12) = 1
  BY ONLY <1>2, Len(Told) = 1, GoneIs
<1>5. AckFits(9)
  <2>1. 9 + 1 = 10 /\ 9 + 2 = 11 /\ 9 + 3 = 12
    OBVIOUS
  <2> QED BY ONLY <1>4, <2>1, Len(Told) = 1 DEF AckFits
<1>6. AckStep(9) /\ AckStep(9 + 1) /\ AckStep(9 + 2)
  <2>1. 9 + 3 <= Len(Whole) /\ 9 \in Nat \ { 0 }
    BY ONLY <1>3
  <2> QED BY ONLY <1>3, <1>5, <2>1, AckSteps
<1>7. h = 9 \/ h = 9 + 1 \/ h = 9 + 2
  BY ONLY <1>3, h \in 9 .. Len(Whole) - 1
<1> QED BY ONLY <1>6, <1>7 DEF Known

\* The numbers behind the first word, when there are more.
LEMMA MoreGone ==
    ASSUME NEW m \in Nat, m > 1, Len(Told) = m
    PROVE  /\ \A i \in 2 .. m : Gone(7 + i) = i - 1 /\ Gone(8 + i) = i
           /\ \A i \in 2 .. m : Agreed(7 + i) = 1 /\ Agreed(8 + i) = 1
           /\ Gone(8 + m) = m /\ Gone(9 + m) = m /\ Gone(10 + m) = m
           /\ Gone(11 + m) = m /\ Gone(12 + m) = m
           /\ Agreed(8 + m) = 1 /\ Agreed(9 + m) = 1 /\ Agreed(10 + m) = 1
           /\ Agreed(11 + m) = m /\ Agreed(12 + m) = m
<1>1. \A h \in Nat :
           /\ h \in 5 .. 9 => Gone(h) = 1
           /\ h >= 10 /\ h - 8 < m => Gone(h) = h - 8
           /\ h >= 10 /\ h - 8 >= m => Gone(h) = m
           /\ h >= 8 /\ h < 11 + m => Agreed(h) = 1
           /\ h >= 11 + m => Agreed(h) = m
  BY ONLY m \in Nat, m > 1, Len(Told) = m, GoneIs
<1>2. \A i \in 2 .. m : Gone(7 + i) = i - 1 /\ Gone(8 + i) = i
  <2> TAKE i \in 2 .. m
  <2>1. Gone(7 + i) = i - 1
    <3>1. CASE i = 2
      <4>1. 7 + i \in 5 .. 9 /\ 7 + i \in Nat /\ i - 1 = 1
        BY ONLY <3>1
      <4> QED BY ONLY <1>1, <4>1
    <3>2. CASE i # 2
      <4>1. 7 + i \in Nat /\ 7 + i >= 10 /\ (7 + i) - 8 < m /\ (7 + i) - 8 = i - 1
        BY ONLY <3>2, m \in Nat, i \in 2 .. m
      <4> QED BY ONLY <1>1, <4>1
    <3> QED BY ONLY <3>1, <3>2
  <2>2. Gone(8 + i) = i
    <3>0. 8 + i \in Nat /\ 8 + i >= 10 /\ (8 + i) - 8 = i
      BY ONLY m \in Nat, i \in 2 .. m
    <3>1. CASE i < m
      BY ONLY <1>1, <3>0, <3>1
    <3>2. CASE i = m
      <4>1. (8 + i) - 8 >= m
        BY ONLY <3>0, <3>2, m \in Nat
      <4> QED BY ONLY <1>1, <3>0, <3>2, <4>1
    <3>3. i < m \/ i = m
      BY ONLY m \in Nat, i \in 2 .. m
    <3> QED BY ONLY <3>1, <3>2, <3>3
  <2> QED BY ONLY <2>1, <2>2
<1>3. \A i \in 2 .. m : Agreed(7 + i) = 1 /\ Agreed(8 + i) = 1
  <2> TAKE i \in 2 .. m
  <2>1. /\ 7 + i \in Nat /\ 7 + i >= 8 /\ 7 + i < 11 + m
        /\ 8 + i \in Nat /\ 8 + i >= 8 /\ 8 + i < 11 + m
    BY ONLY m \in Nat, i \in 2 .. m
  <2> QED BY ONLY <1>1, <2>1
<1>4. ASSUME NEW k \in 8 .. 12 PROVE Gone(k + m) = m
  <2>1. k + m \in Nat /\ k + m >= 10 /\ (k + m) - 8 >= m
    BY ONLY m \in Nat, m > 1, k \in 8 .. 12
  <2> QED BY ONLY <1>1, <2>1
<1>5. ASSUME NEW k \in 8 .. 10 PROVE Agreed(k + m) = 1
  <2>1. k + m \in Nat /\ k + m >= 8 /\ k + m < 11 + m
    BY ONLY m \in Nat, m > 1, k \in 8 .. 10
  <2> QED BY ONLY <1>1, <2>1
<1>6. ASSUME NEW k \in 11 .. 12 PROVE Agreed(k + m) = m
  <2>1. k + m \in Nat /\ k + m >= 11 + m
    BY ONLY m \in Nat, m > 1, k \in 11 .. 12
  <2> QED BY ONLY <1>1, <2>1
<1>7. /\ Gone(8 + m) = m /\ Gone(9 + m) = m /\ Gone(10 + m) = m
      /\ Gone(11 + m) = m /\ Gone(12 + m) = m
  BY ONLY <1>4
<1>8. /\ Agreed(8 + m) = 1 /\ Agreed(9 + m) = 1 /\ Agreed(10 + m) = 1
      /\ Agreed(11 + m) = m /\ Agreed(12 + m) = m
  BY ONLY <1>5, <1>6
<1> QED BY ONLY <1>2, <1>3, <1>7, <1>8

\* The words behind the first one, and what belongs to them.
LEMMA MoreKnown ==
    ASSUME op \in Boot!Operations, calls \in Nat, Talks, Len(Told) > 1,
           NEW h \in 9 .. Len(Whole) - 1
    PROVE  Known(h)
<1>1. Framed /\ TalkLayout
  BY TalkIs
<1>2. PICK m \in Nat : m = Len(Told)
  BY ONLY <1>1, Talks, TalkLong
<1>3. m > 1 /\ Len(Told) = m
  BY ONLY <1>2, Len(Told) > 1
<1>4. /\ Len(Whole) \in Nat
      /\ \/ op.kind # "read" /\ Len(Whole) = 12 + m
         \/ op.kind = "read" /\ m = 2 /\ Len(Whole) = 16
  BY ONLY <1>1, <1>3, Talks, TalkLong
<1>40. PICK n \in Nat : n = Len(Whole)
  BY ONLY <1>4
<1>41. (op.kind # "read" /\ n = 12 + m) \/ (op.kind = "read" /\ m = 2 /\ n = 16)
  BY ONLY <1>4, <1>40
<1>42. h \in 9 .. n - 1
  BY ONLY <1>40, h \in 9 .. Len(Whole) - 1
<1>5. /\ \A i \in 2 .. m : Gone(7 + i) = i - 1 /\ Gone(8 + i) = i
      /\ \A i \in 2 .. m : Agreed(7 + i) = 1 /\ Agreed(8 + i) = 1
      /\ Gone(8 + m) = m /\ Gone(9 + m) = m /\ Gone(10 + m) = m
      /\ Gone(11 + m) = m /\ Gone(12 + m) = m
      /\ Agreed(8 + m) = 1 /\ Agreed(9 + m) = 1 /\ Agreed(10 + m) = 1
      /\ Agreed(11 + m) = m /\ Agreed(12 + m) = m
  BY ONLY <1>3, m \in Nat, MoreGone
<1>6. /\ \A i \in 2 .. m : Says(Whole[8 + i], Told[i])
      /\ Says(Whole[9 + m], Boot!Sum(op.kind = "read", SubSeq(Told, 2, m)))
      /\ AckAt(Whole, 9 + m)
      /\ op.kind = "read" =>
          /\ Whole[15] = Boot!Step("exchange", Boot!Zero)
          /\ Whole[16] = Boot!Step("receive", op.n)
      /\ \A i \in 1 .. m :
          /\ Told[i][1] \in ToldNames
          /\ Told[i][1] = "count" <=> op.kind = "erase" /\ i = 1
  BY ONLY <1>1, <1>3 DEF TalkLayout
<1>7. ASSUME NEW i \in 2 .. m PROVE TellNext(7 + i)
  <2>1. /\ (7 + i) + 1 = 8 + i /\ (i - 1) + 1 = i /\ i - 1 < m /\ 1 <= i - 1
        /\ i \in 1 .. m
        /\ i # 1 /\ 7 + i # 4 /\ 7 + i > 0
    BY ONLY m \in Nat, i \in 2 .. m
  <2>2. Inside(7 + i)
    <3>1. (7 + i) + 1 < n /\ (op.kind # "read" => (7 + i) + 4 <= n)
      BY ONLY <1>41, m \in Nat, n \in Nat, i \in 2 .. m
    <3> QED BY ONLY <1>40, <2>1, <3>1 DEF Inside
  <2>3. /\ Gone(7 + i) = i - 1 /\ Gone(8 + i) = i /\ Agreed(7 + i) = 1
        /\ Agreed(8 + i) = 1
    BY ONLY <1>5, i \in 2 .. m
  <2>4. /\ Told[i][1] \in ToldNames
        /\ Told[i][1] = "count" <=> op.kind = "erase" /\ 7 + i = 4
    BY ONLY <1>6, <2>1
  <2>5. Says(Whole[8 + i], Told[i])
    BY ONLY <1>6, i \in 2 .. m
  <2> QED BY ONLY <1>3, <2>1, <2>2, <2>3, <2>4, <2>5 DEF TellNext
<1>8. SumNext(8 + m)
  <2>1. (8 + m) + 1 = 9 + m /\ 8 + m > 0 /\ 1 + 1 = 2
    BY ONLY m \in Nat
  <2>2. Inside(8 + m)
    <3>1. (8 + m) + 1 < n /\ (op.kind # "read" => (8 + m) + 4 <= n)
      BY ONLY <1>41, m \in Nat, n \in Nat
    <3> QED BY ONLY <1>40, <2>1, <3>1 DEF Inside
  <2>3. Still(8 + m)
    BY ONLY <1>5, <2>1 DEF Still
  <2>4. Covers(8 + m) = SubSeq(Told, 2, m)
    BY ONLY <1>5, <2>1 DEF Covers
  <2>5. HasLength(SubSeq(Told, 2, m)) = (op.kind = "read")
    BY ONLY <1>1, <1>3, op \in Boot!Operations, calls \in Nat, LengthsCovered
  <2>6. Says(Whole[(8 + m) + 1], Boot!Sum(HasLength(Covers(8 + m)), Covers(8 + m)))
    BY ONLY <1>6, <2>1, <2>4, <2>5
  <2> QED BY ONLY <2>2, <2>3, <2>6 DEF SumNext
<1>9. AckStep(9 + m) /\ AckStep((9 + m) + 1) /\ AckStep((9 + m) + 2)
  <2>1. (9 + m) + 1 = 10 + m /\ (9 + m) + 2 = 11 + m /\ (9 + m) + 3 = 12 + m
    BY ONLY m \in Nat
  <2>2. AckFits(9 + m)
    BY ONLY <1>3, <1>5, <2>1 DEF AckFits
  <2>3. 9 + m \in Nat \ { 0 } /\ (9 + m) + 3 <= Len(Whole)
    <3>1. 9 + m \in Nat \ { 0 } /\ (9 + m) + 3 <= n
      BY ONLY <1>41, m \in Nat, n \in Nat
    <3> QED BY ONLY <1>40, <3>1
  <2> QED BY ONLY <1>6, <2>2, <2>3, AckSteps
<1>10. CASE h < 12 + m
  <2>1. h - 7 \in 2 .. m \/ h = 8 + m \/ h = 9 + m \/ h = (9 + m) + 1 \/ h = (9 + m) + 2
    BY ONLY <1>10, <1>42, m \in Nat, n \in Nat
  <2>2. CASE h - 7 \in 2 .. m
    <3>1. 7 + (h - 7) = h
      BY ONLY <1>42, n \in Nat
    <3>2. TellNext(7 + (h - 7))
      BY ONLY <1>7, <2>2
    <3> QED BY ONLY <3>1, <3>2 DEF Known, TalkStep
  <2> QED BY ONLY <1>8, <1>9, <2>1, <2>2 DEF Known, TalkStep
<1>11. CASE ~(h < 12 + m)
  <2>0. op.kind = "read" /\ m = 2 /\ n = 16 /\ (h = 14 \/ h = 15)
    BY ONLY <1>41, <1>11, <1>42, m \in Nat, n \in Nat
  <2>1. op.kind = "read" /\ m = 2 /\ Len(Whole) = 16 /\ (h = 14 \/ h = 15)
    BY ONLY <1>40, <2>0
  <2>2. Gone(14) = 2 /\ Agreed(14) = 2
    <3>1. 12 + 2 = 14
      OBVIOUS
    <3> QED BY ONLY <1>5, <2>1, <3>1
  <2>3. Gone(15) = 2 /\ Agreed(15) = 2 /\ Gone(16) = 2 /\ Agreed(16) = 2
    <3>1. \A i \in Nat : /\ i >= 10 /\ i - 8 >= 2 => Gone(i) = 2
                         /\ i >= 11 + 2 => Agreed(i) = 2
      <4>1. Len(Told) = 2 /\ 2 \in Nat \ { 0 }
        BY ONLY <1>3, <2>1
      <4> QED BY ONLY <4>1, GoneIs
    <3> QED BY ONLY <3>1
  <2>4. 14 + 1 = 15 /\ 15 + 1 = 16
    OBVIOUS
  <2>5. Still(14) /\ Still(15)
    BY ONLY <2>2, <2>3, <2>4 DEF Still
  <2>6. Inside(14)
    <3>1. 14 > 0 /\ 14 + 1 < Len(Whole)
      BY ONLY <2>1
    <3> QED BY ONLY <2>1, <3>1 DEF Inside
  <2>7. DummyNext(14) /\ ReceiveNext(15)
    BY ONLY <1>6, <2>1, <2>4, <2>5, <2>6 DEF DummyNext, ReceiveNext
  <2> QED BY ONLY <2>1, <2>7 DEF Known, DataStep
<1> QED BY ONLY <1>10, <1>11

\* What any step of any script is.
LEMMA StepKnown ==
    ASSUME op \in Boot!Operations, calls \in Nat
    PROVE  /\ Len(Whole) \in Nat /\ Len(Whole) > 8
           /\ \A h \in 0 .. Len(Whole) - 1 : Known(h)
<1>1. CASE Talks
  <2>1. Framed /\ TalkLayout
    BY <1>1, TalkIs
  <2>2. /\ Len(Told) \in Nat /\ Len(Told) > 0 /\ Len(Whole) \in Nat /\ Len(Whole) > 8
    BY ONLY <1>1, <2>1, TalkLong
  <2>3. ASSUME NEW h \in 0 .. Len(Whole) - 1 PROVE Known(h)
    <3>1. CASE h \in 0 .. 8
      BY ONLY <1>1, <3>1, op \in Boot!Operations, calls \in Nat, FirstKnown
    <3>2. CASE h \in 9 .. Len(Whole) - 1 /\ Len(Told) = 1
      BY ONLY <1>1, <3>2, op \in Boot!Operations, calls \in Nat, OneKnown
    <3>3. CASE h \in 9 .. Len(Whole) - 1 /\ Len(Told) > 1
      BY ONLY <1>1, <3>3, op \in Boot!Operations, calls \in Nat, MoreKnown
    <3>4. h \in 0 .. 8 \/ h \in 9 .. Len(Whole) - 1
      BY ONLY <2>2, h \in 0 .. Len(Whole) - 1
    <3>5. Len(Told) = 1 \/ Len(Told) > 1
      <4>1. PICK m \in Nat : m = Len(Told)
        BY ONLY <2>2
      <4>2. m = 1 \/ m > 1
        <5>1. m > 0
          BY ONLY <2>2, <4>1
        <5> QED BY ONLY <5>1, m \in Nat
      <4> QED BY ONLY <4>1, <4>2
    <3> QED BY ONLY <3>1, <3>2, <3>3, <3>4, <3>5
  <2> QED BY ONLY <2>2, <2>3
<1>2. CASE op.kind = "version"
  <2>1. Len(Whole) = 9
    BY <1>2, VersionIs
  <2>2. \A h \in 0 .. Len(Whole) - 1 : Known(h)
    BY ONLY <1>2, op \in Boot!Operations, calls \in Nat, DataKnown
  <2> QED BY ONLY <2>1, <2>2
<1>3. CASE op.kind = "id"
  <2>1. Len(Whole) = 10
    BY <1>3, IdIs
  <2>2. \A h \in 0 .. Len(Whole) - 1 : Known(h)
    BY ONLY <1>3, op \in Boot!Operations, calls \in Nat, DataKnown
  <2> QED BY ONLY <2>1, <2>2
<1>4. op.kind \in OpKinds
  BY OpNumbers
<1> QED BY ONLY <1>1, <1>2, <1>3, <1>4 DEF Talks, OpKinds

----------------------------------------------------------------------------
(***************************************************************************)
(* What the boot loader expects after each step.                           *)
(***************************************************************************)
\* What the steps of a script are for the boot loader.
TokenNames ==
    { "skip", "poll", "echo", "frame", "receive", "two", "version", "dummy", "sum" }
        \cup ToldNames

\* What a frame makes it await.
LEMMA WantedIs ==
    /\ LET W == Boot!Acknowledged \o Boot!Wanted("version")
       IN  /\ W \in Seq(TokenNames) /\ Len(W) = 8
           /\ W[1] = "skip" /\ W[2] = "poll" /\ W[3] = "echo" /\ W[4] = "dummy"
           /\ W[5] = "version" /\ W[6] = "skip" /\ W[7] = "poll" /\ W[8] = "echo"
    /\ LET W == Boot!Acknowledged \o Boot!Wanted("id")
       IN  /\ W \in Seq(TokenNames) /\ Len(W) = 9
           /\ W[1] = "skip" /\ W[2] = "poll" /\ W[3] = "echo" /\ W[4] = "dummy"
           /\ W[5] = "two" /\ W[6] = "receive" /\ W[7] = "skip" /\ W[8] = "poll"
           /\ W[9] = "echo"
    /\ LET W == Boot!Acknowledged \o Boot!Wanted("read")
       IN  /\ W \in Seq(TokenNames) /\ Len(W) = 15
           /\ W[1] = "skip" /\ W[2] = "poll" /\ W[3] = "echo" /\ W[4] = "addr"
           /\ W[5] = "sum" /\ W[6] = "skip" /\ W[7] = "poll" /\ W[8] = "echo"
           /\ W[9] = "length" /\ W[10] = "sum" /\ W[11] = "skip" /\ W[12] = "poll"
           /\ W[13] = "echo" /\ W[14] = "dummy" /\ W[15] = "receive"
    /\ LET W == Boot!Acknowledged \o Boot!Wanted("write")
       IN  /\ W \in Seq(TokenNames) /\ Len(W) = 14
           /\ W[1] = "skip" /\ W[2] = "poll" /\ W[3] = "echo" /\ W[4] = "addr"
           /\ W[5] = "sum" /\ W[6] = "skip" /\ W[7] = "poll" /\ W[8] = "echo"
           /\ W[9] = "size" /\ W[10] = "data" /\ W[11] = "sum" /\ W[12] = "skip"
           /\ W[13] = "poll" /\ W[14] = "echo"
    /\ LET W == Boot!Acknowledged \o Boot!Wanted("jump")
       IN  /\ W \in Seq(TokenNames) /\ Len(W) = 8
           /\ W[1] = "skip" /\ W[2] = "poll" /\ W[3] = "echo" /\ W[4] = "addr"
           /\ W[5] = "sum" /\ W[6] = "skip" /\ W[7] = "poll" /\ W[8] = "echo"
    /\ LET W == Boot!Acknowledged \o Boot!Wanted("erase")
       IN  /\ W \in Seq(TokenNames) /\ Len(W) = 8
           /\ W[1] = "skip" /\ W[2] = "poll" /\ W[3] = "echo" /\ W[4] = "count"
           /\ W[5] = "sum" /\ W[6] = "skip" /\ W[7] = "poll" /\ W[8] = "echo"
BY DEF Boot!Acknowledged, Boot!Wanted, TokenNames, ToldNames

\* What the kinds of steps are for it.
LEMMA TokenIs ==
    /\ Token(SkipStep) = "skip" /\ Token(PollStep) = "poll" /\ Token(EchoStep) = "echo"
    /\ Token(Boot!Step("exchange", Boot!Zero)) = "dummy"
    /\ Token(Boot!Step("value", Boot!Zero)) = "version"
    /\ Token(Boot!Step("size", Boot!Zero)) = "two"
    /\ \A n : Token(Boot!Step("receive", n)) = "receive"
    /\ \A v : Token(Boot!Step("frame", v)) = "frame"
    /\ \A step, word : Says(step, word) /\ word[1] # "zero" => Token(step) = word[1]
    /\ \A b, s : Boot!Sum(b, s)[1] = "sum" /\ Boot!Sum(b, s)[1] # "zero"
<1>1. /\ \A what, v : Boot!Step(what, v).what = what /\ Boot!Step(what, v).v = v
      /\ SkipStep.what = "skip" /\ PollStep.what = "poll" /\ EchoStep.what = "echo"
  BY StepIs
<1>2. Boot!Zero[1] = "zero"
  BY DEF Boot!Zero
<1>3. \A b, s : Boot!Sum(b, s)[1] = "sum" /\ Boot!Sum(b, s)[1] # "zero"
  BY DEF Boot!Sum
<1>4. \A step, word : Says(step, word) /\ word[1] # "zero" => Token(step) = word[1]
  BY DEF Says, Token
<1> QED BY ONLY <1>1, <1>2, <1>3, <1>4 DEF Token

\* The words that steps before the last of a script say.
LEMMA AckTokens ==
    ASSUME NEW k \in Nat, AckAt(Whole, k)
    PROVE  /\ Token(Whole[k + 1]) = "skip" /\ Token(Whole[k + 2]) = "poll"
           /\ Token(Whole[k + 3]) = "echo"
BY ONLY TokenIs, AckAt(Whole, k) DEF AckAt

\* The first n of the tokens, as a set.
TokenSet(n) == { Token(Whole[i]) : i \in 1 .. n }

\* From a to b there are k of them.
Spans(a, b, k) == k + a = b + 1

\* A part of the tokens.
LEMMA TokensPart ==
    ASSUME NEW n \in Nat, n = Len(Whole), NEW a \in 1 .. n + 1, NEW b \in 0 .. n,
           NEW k \in Nat, Spans(a, b, k)
    PROVE  /\ SubSeq(Tokens, a, b) \in Seq(TokenSet(n)) /\ Len(SubSeq(Tokens, a, b)) = k
           /\ \A i \in 1 .. k : SubSeq(Tokens, a, b)[i] = Token(Whole[a + i - 1])
<1> DEFINE T == TokenSet(n)
           f == Tokens
<1>1. f = [ i \in 1 .. n |-> Token(Whole[i]) ]
  BY DEF Tokens
<1>2. \A i \in 1 .. n : Token(Whole[i]) \in T
  BY DEF TokenSet
<1> HIDE DEF T, f
<1>3. f \in Seq(T) /\ Len(f) = n /\ \A i \in 1 .. n : f[i] = Token(Whole[i])
  BY ONLY <1>1, <1>2, n \in Nat
<1>4. \A i \in a .. b : f[i] \in T
  <2>1. \A i \in a .. b : i \in 1 .. n
    BY ONLY n \in Nat, a \in 1 .. n + 1, b \in 0 .. n
  <2> QED BY ONLY <1>2, <1>3, <2>1
<1>5. /\ SubSeq(f, a, b) \in Seq(T)
      /\ Len(SubSeq(f, a, b)) = (IF a <= b THEN b - a + 1 ELSE 0)
      /\ \A i \in 1 .. b - a + 1 : SubSeq(f, a, b)[i] = f[a + i - 1]
  <2>1. a \in Int /\ b \in Int
    BY ONLY n \in Nat, a \in 1 .. n + 1, b \in 0 .. n
  <2> QED BY ONLY <1>3, <1>4, <2>1, SubSeqProperties
<1>6. /\ b - a + 1 = k /\ (~(a <= b) => k = 0)
      /\ \A i \in 1 .. k : a + i - 1 \in 1 .. n
  <2>1. k + a = b + 1
    BY ONLY Spans(a, b, k) DEF Spans
  <2> QED BY ONLY <2>1, n \in Nat, a \in 1 .. n + 1, b \in 0 .. n, k \in Nat
<1>7. Len(SubSeq(f, a, b)) = k
  BY ONLY <1>5, <1>6
<1>8. \A i \in 1 .. k : SubSeq(f, a, b)[i] = Token(Whole[a + i - 1])
  <2> TAKE i \in 1 .. k
  <2>1. SubSeq(f, a, b)[i] = f[a + i - 1] /\ a + i - 1 \in 1 .. n
    BY ONLY <1>5, <1>6, i \in 1 .. k
  <2> QED BY ONLY <1>3, <2>1
<1> QED BY ONLY <1>5, <1>7, <1>8 DEF f, T

\* An erase is longer than the part of it that is known in advance.
LEMMA EraseLong ==
    ASSUME op \in Boot!Operations, calls \in Nat, op.kind = "erase"
    PROVE  Len(Whole) \in Nat /\ Len(Whole) >= 12
<1>1. CASE op.n >= AllCounts
  <2>1. Len(Whole) = 12
    BY <1>1, EraseAllIs
  <2> QED BY ONLY <2>1
<1>2. CASE op.n < AllCounts
  <2>1. Len(Whole) = 13 + op.n
    BY <1>2, EraseIs
  <2>2. op.n \in Nat
    BY OpNumbers
  <2> QED BY ONLY <2>1, <2>2
<1>3. op.n >= AllCounts \/ op.n < AllCounts
  BY OpNumbers
<1> QED BY ONLY <1>1, <1>2, <1>3

\* What is awaited is a part of the tokens.
LEMMA HorizonIs ==
    ASSUME op \in Boot!Operations, calls \in Nat, NEW n \in Nat, n = Len(Whole),
           NEW h \in 1 .. n - 1
    PROVE  /\ n > 8 /\ Horizon(h) \in Nat /\ Horizon(h) > h /\ Horizon(h) <= n
           /\ Awaited(h) = SubSeq(Tokens, h + 1, Horizon(h))
           /\ Horizon(h) = n \/ (op.kind = "erase" /\ h < 5 /\ Horizon(h) = 9)
           /\ ~(op.kind = "erase" /\ h < 5) => Horizon(h) = n
           /\ ~(op.kind = "erase" /\ h = 4) /\ h + 1 < n =>
                Horizon(h + 1) = Horizon(h)
<1>1. n > 8
  BY ONLY op \in Boot!Operations, calls \in Nat, n = Len(Whole), StepKnown
<1>2. op.kind = "erase" => n >= 12
  BY ONLY op \in Boot!Operations, calls \in Nat, n = Len(Whole), EraseLong
<1>3. \A i : Horizon(i) = IF op.kind = "erase" /\ i < 5 THEN 9 ELSE n
  BY n = Len(Whole) DEF Horizon
<1>4. Awaited(h) = SubSeq(Tokens, h + 1, Horizon(h))
  <2>1. h \notin { 0, n }
    BY ONLY n \in Nat, h \in 1 .. n - 1
  <2> QED BY ONLY <2>1, n = Len(Whole) DEF Awaited
<1>5. /\ Horizon(h) = n \/ (op.kind = "erase" /\ h < 5 /\ Horizon(h) = 9)
      /\ ~(op.kind = "erase" /\ h < 5) => Horizon(h) = n
  BY ONLY <1>3
<1>6. Horizon(h) \in Nat /\ Horizon(h) > h /\ Horizon(h) <= n
  BY ONLY <1>1, <1>2, <1>5, n \in Nat, h \in 1 .. n - 1
<1>7. ~(op.kind = "erase" /\ h = 4) => Horizon(h + 1) = Horizon(h)
  <2>1. h # 4 => (h < 5 <=> h + 1 < 5)
    BY ONLY n \in Nat, h \in 1 .. n - 1
  <2> QED BY ONLY <1>3, <2>1
<1> QED BY ONLY <1>1, <1>4, <1>5, <1>6, <1>7

\* It goes on step by step.
LEMMA AwaitedNext ==
    ASSUME op \in Boot!Operations, calls \in Nat, NEW n \in Nat, n = Len(Whole),
           NEW h \in 1 .. n - 1
    PROVE  /\ Awaited(h) # << >> /\ Head(Awaited(h)) = Token(Whole[h + 1])
           /\ ~(op.kind = "erase" /\ h = 4) =>
                /\ Boot!Passed(Awaited(h)) = Awaited(h + 1)
                /\ h + 1 < n => Tail(Awaited(h)) = Awaited(h + 1)
           /\ op.kind = "erase" /\ h = 4 =>
                Boot!Passed(Awaited(h)) = SubSeq(Tokens, 6, 9)
<1> DEFINE T == { Token(Whole[i]) : i \in 1 .. n }
           t == Tokens
           k == Horizon(h)
<1>1. /\ n > 8 /\ k \in Nat /\ k > h /\ k <= n
      /\ Awaited(h) = SubSeq(t, h + 1, k)
      /\ k = n \/ (op.kind = "erase" /\ h < 5 /\ k = 9)
      /\ ~(op.kind = "erase" /\ h < 5) => k = n
      /\ ~(op.kind = "erase" /\ h = 4) /\ h + 1 < n => Horizon(h + 1) = k
  BY ONLY op \in Boot!Operations, calls \in Nat, n \in Nat, n = Len(Whole),
          h \in 1 .. n - 1, HorizonIs
<1>2. t \in Seq(T) /\ Len(t) = n /\ \A i \in 1 .. n : t[i] = Token(Whole[i])
  BY n = Len(Whole) DEF Tokens
<1> HIDE DEF T, t, k
<1>3. h + 1 \in 1 .. Len(t) /\ k \in h + 1 .. Len(t) /\ h + 1 \in 1 .. n
  BY ONLY <1>1, <1>2, n \in Nat, h \in 1 .. n - 1
<1>4. Head(SubSeq(t, h + 1, k)) = t[h + 1]
      /\ Tail(SubSeq(t, h + 1, k)) = SubSeq(t, (h + 1) + 1, k)
  BY ONLY <1>2, <1>3, HeadTailOfSubSeq
<1>5. \A i \in h + 1 .. k : t[i] \in T
  <2>1. \A i \in h + 1 .. k : i \in 1 .. Len(t)
    BY ONLY <1>1, <1>2, n \in Nat, h \in 1 .. n - 1
  <2> QED BY ONLY <1>2, <2>1, ElementOfSeq
<1>6. SubSeq(t, h + 1, k) \in Seq(T) /\ Len(SubSeq(t, h + 1, k)) = k - h
  <2>1. /\ SubSeq(t, h + 1, k) \in Seq(T)
        /\ Len(SubSeq(t, h + 1, k)) = IF h + 1 <= k THEN k - (h + 1) + 1 ELSE 0
    <3>1. h + 1 \in Int /\ k \in Int
      BY ONLY <1>1, n \in Nat, h \in 1 .. n - 1
    <3> QED BY ONLY <1>5, <3>1, SubSeqProperties
  <2>2. h + 1 <= k /\ k - (h + 1) + 1 = k - h
    BY ONLY <1>1, n \in Nat, h \in 1 .. n - 1
  <2> QED BY ONLY <2>1, <2>2
<1>7. SubSeq(t, h + 1, k) # << >>
  <2>1. k - h # 0 /\ Len(<< >>) = 0
    BY ONLY <1>1, n \in Nat, h \in 1 .. n - 1
  <2> QED BY ONLY <1>6, <2>1
<1>8. Awaited(h) # << >> /\ Head(Awaited(h)) = Token(Whole[h + 1])
  BY ONLY <1>1, <1>2, <1>3, <1>4, <1>7
<1>9. (h + 1) + 1 = h + 2 /\ Tail(Awaited(h)) = SubSeq(t, h + 2, k)
  <2>1. (h + 1) + 1 = h + 2
    BY ONLY n \in Nat, h \in 1 .. n - 1
  <2> QED BY ONLY <1>1, <1>4, <2>1
<1>10. Tail(Awaited(h)) = << >> <=> k = h + 1
  <2>1. /\ Tail(Awaited(h)) \in Seq(T) /\ Len(Tail(Awaited(h))) = (k - h) - 1
    BY ONLY <1>1, <1>6, <1>7, HeadTailProperties
  <2>2. Tail(Awaited(h)) = << >> <=> Len(Tail(Awaited(h))) = 0
    BY ONLY <2>1, EmptySeq
  <2>3. (k - h) - 1 = 0 <=> k = h + 1
    BY ONLY <1>1, n \in Nat, h \in 1 .. n - 1
  <2> QED BY ONLY <2>1, <2>2, <2>3
<1>11. ASSUME ~(op.kind = "erase" /\ h = 4), h + 1 < n
       PROVE  /\ Tail(Awaited(h)) = Awaited(h + 1)
              /\ Boot!Passed(Awaited(h)) = Awaited(h + 1)
  <2>1. h + 1 \in 1 .. n - 1
    BY ONLY <1>11, n \in Nat, h \in 1 .. n - 1
  <2>2. Awaited(h + 1) = SubSeq(Tokens, (h + 1) + 1, Horizon(h + 1))
        /\ Horizon(h + 1) > h + 1
    BY ONLY <2>1, op \in Boot!Operations, calls \in Nat, n \in Nat, n = Len(Whole),
          HorizonIs
  <2>3. Awaited(h + 1) = SubSeq(t, h + 2, k) /\ k # h + 1
    <3>1. Horizon(h + 1) = k
      BY ONLY <1>1, <1>11
    <3>2. k > h + 1
      BY ONLY <2>2, <3>1
    <3>3. k # h + 1
      BY ONLY <1>1, <3>2, n \in Nat, h \in 1 .. n - 1
    <3> QED BY <1>9, <2>2, <3>1, <3>3 DEF t
  <2> QED BY ONLY <1>9, <1>10, <2>3 DEF Boot!Passed
<1>12. ASSUME ~(op.kind = "erase" /\ h = 4), ~(h + 1 < n)
       PROVE  Boot!Passed(Awaited(h)) = Awaited(h + 1)
  <2>1. h + 1 = n
    BY ONLY <1>12, n \in Nat, h \in 1 .. n - 1
  <2>2. k = n
    BY ONLY <1>1, <2>1, h \in 1 .. n - 1, n \in Nat
  <2>3. Boot!Passed(Awaited(h)) = << "frame" >>
    BY ONLY <1>10, <2>1, <2>2 DEF Boot!Passed
  <2>4. Awaited(h + 1) = << "frame" >>
    BY ONLY <2>1, n = Len(Whole) DEF Awaited
  <2> QED BY ONLY <2>3, <2>4
<1>13. ASSUME op.kind = "erase", h = 4
       PROVE  Boot!Passed(Awaited(h)) = SubSeq(Tokens, 6, 9)
  <2>1. k = 9
    <3>1. op.kind = "erase" /\ h < 5
      BY ONLY <1>13
    <3> QED BY ONLY <3>1 DEF k, Horizon
  <2>2. k # h + 1 /\ h + 2 = 6
    BY ONLY <1>13, <2>1
  <2> QED BY ONLY <1>9, <1>10, <2>1, <2>2 DEF Boot!Passed, t
<1> QED BY ONLY <1>8, <1>11, <1>12, <1>13

\* At an acknowledgement that ends a call, and at no other, it awaits nothing else.
LEMMA PollShort ==
    ASSUME op \in Boot!Operations, calls \in Nat, NEW n \in Nat, n = Len(Whole),
           NEW h \in 1 .. n - 1, PollNext(h)
    PROVE  Awaited(h) = << "poll", "echo" >> <=> h + 2 = n
<1>1. /\ Horizon(h) \in Nat /\ Horizon(h) > h /\ Horizon(h) <= n
      /\ Awaited(h) = SubSeq(Tokens, h + 1, Horizon(h))
      /\ Horizon(h) = n \/ (op.kind = "erase" /\ h < 5 /\ Horizon(h) = 9)
      /\ n > 8
  BY ONLY op \in Boot!Operations, calls \in Nat, n \in Nat, n = Len(Whole),
          h \in 1 .. n - 1, HorizonIs
<1>0. PICK k \in Nat : k = Horizon(h) - h
  BY ONLY <1>1, n \in Nat, h \in 1 .. n - 1
<1> DEFINE a == Awaited(h)
           T == TokenSet(n)
<1>2. h + 1 \in 1 .. n + 1 /\ Horizon(h) \in 0 .. n /\ k \in Nat
      /\ k + (h + 1) = Horizon(h) + 1
  BY ONLY <1>0, <1>1, n \in Nat, h \in 1 .. n - 1
<1>3. a \in Seq(T) /\ Len(a) = k
          /\ \A i \in 1 .. k : a[i] = Token(Whole[(h + 1) + i - 1])
  <2>1. PICK u \in 1 .. n + 1 : u = h + 1
    BY ONLY <1>2
  <2>2. PICK v \in 0 .. n : v = Horizon(h)
    BY ONLY <1>2
  <2>3. Spans(u, v, k)
    BY ONLY <1>2, <2>1, <2>2 DEF Spans
  <2>4. /\ SubSeq(Tokens, u, v) \in Seq(TokenSet(n))
        /\ Len(SubSeq(Tokens, u, v)) = k
        /\ \A i \in 1 .. k : SubSeq(Tokens, u, v)[i] = Token(Whole[u + i - 1])
    BY ONLY <2>3, n \in Nat, n = Len(Whole), u \in 1 .. n + 1, v \in 0 .. n, k \in Nat,
            TokensPart
  <2> QED BY ONLY <1>1, <2>1, <2>2, <2>4 DEF a, T
<1>4. Whole[h + 1] = PollStep /\ Whole[h + 2] = EchoStep
  BY ONLY PollNext(h) DEF PollNext
<1>5. Token(PollStep) = "poll" /\ Token(EchoStep) = "echo"
  BY ONLY TokenIs
<1> HIDE DEF a, T
<1>6. ASSUME h + 2 = n PROVE a = << "poll", "echo" >>
  <2>1. k = 2
    BY ONLY <1>0, <1>1, <1>6, n \in Nat, h \in 1 .. n - 1
  <2>2. (h + 1) + 1 - 1 = h + 1 /\ (h + 1) + 2 - 1 = h + 2
    BY ONLY h \in 1 .. n - 1, n \in Nat
  <2>3. Len(a) = 2 /\ a[1] = "poll" /\ a[2] = "echo"
    <3>1. 1 \in 1 .. k /\ 2 \in 1 .. k
      BY ONLY <2>1
    <3>2. a[1] = Token(Whole[(h + 1) + 1 - 1]) /\ a[2] = Token(Whole[(h + 1) + 2 - 1])
      BY ONLY <1>3, <3>1
    <3> QED BY ONLY <1>3, <1>4, <1>5, <2>1, <2>2, <3>2
  <2> DEFINE z == << "poll", "echo" >>
             U == { "poll", "echo" }
  <2>4. z \in Seq(U) /\ Len(z) = 2 /\ z[1] = "poll" /\ z[2] = "echo"
    OBVIOUS
  <2> HIDE DEF z, U
  <2>5. \A i \in 1 .. Len(a) : a[i] = z[i]
    <3>1. \A i \in 1 .. Len(a) : i = 1 \/ i = 2
      BY ONLY <2>3
    <3> QED BY ONLY <2>3, <2>4, <3>1
  <2>6. Len(a) = Len(z)
    BY ONLY <2>3, <2>4
  <2>7. a = z
    BY ONLY <1>3, <2>4, <2>5, <2>6, SameSeq
  <2> QED BY ONLY <2>7 DEF z
<1>7. ASSUME a = << "poll", "echo" >> PROVE h + 2 = n
  <2>1. Len(a) = 2
    BY ONLY <1>7
  <2>2. k = 2
    BY ONLY <1>3, <2>1
  <2> QED BY ONLY <1>0, <1>1, <2>2, n \in Nat, h \in 1 .. n - 1
<1> QED BY ONLY <1>6, <1>7 DEF a

\* What the count makes it await.
LEMMA BehindIs ==
    ASSUME NEW c \in Nat
    PROVE  LET W == Boot!WantedBehind(c)
           IN  /\ W \in Seq(TokenNames)
               /\ c < AllCounts =>
                    /\ Len(W) = c + 5 /\ \A i \in 1 .. c + 1 : W[i] = "page"
                    /\ W[c + 2] = "sum" /\ W[c + 3] = "skip" /\ W[c + 4] = "poll"
                    /\ W[c + 5] = "echo"
               /\ ~(c < AllCounts) =>
                    /\ Len(W) = 3 /\ W[1] = "skip" /\ W[2] = "poll" /\ W[3] = "echo"
<1> DEFINE p == [ i \in 1 .. c + 1 |-> "page" ]
           s == << "sum" >>
           a == Boot!Acknowledged
           W == Boot!WantedBehind(c)
<1>1. p \in Seq(TokenNames) /\ Len(p) = c + 1 /\ \A i \in 1 .. c + 1 : p[i] = "page"
  <2>1. "page" \in TokenNames
    BY DEF TokenNames, ToldNames
  <2> QED BY <2>1
<1>2. s \in Seq(TokenNames) /\ Len(s) = 1 /\ s[1] = "sum"
  BY DEF TokenNames
<1>3. /\ a \in Seq(TokenNames) /\ Len(a) = 3
      /\ a[1] = "skip" /\ a[2] = "poll" /\ a[3] = "echo"
  BY DEF TokenNames, Boot!Acknowledged
<1>4. W = (IF c < AllCounts THEN p \o s ELSE << >>) \o a
  BY DEF Boot!WantedBehind
<1> HIDE DEF p, s, a, W
<1>5. CASE c < AllCounts
  <2> DEFINE q == p \o s
  <2>0. p \in Seq(TokenNames) /\ s \in Seq(TokenNames)
    BY ONLY <1>1, <1>2
  <2>1. /\ q \in Seq(TokenNames) /\ Len(q) = Len(p) + Len(s)
        /\ \A i \in 1 .. Len(p) : q[i] = p[i]
        /\ \A i \in 1 .. Len(s) : q[Len(p) + i] = s[i]
    BY <2>0, Joined
  <2> HIDE DEF q
  <2>2. Len(q) = c + 2 /\ (\A i \in 1 .. c + 1 : q[i] = "page") /\ q[c + 2] = "sum"
    <3>1. (c + 1) + 1 = c + 2 /\ 1 \in 1 .. 1
      OBVIOUS
    <3>2. q[(c + 1) + 1] = s[1]
      BY ONLY <1>1, <1>2, <2>1, <3>1
    <3> QED BY ONLY <1>1, <1>2, <2>1, <3>1, <3>2
  <2>20. q \in Seq(TokenNames) /\ a \in Seq(TokenNames)
    BY ONLY <1>3, <2>1
  <2>3. /\ q \o a \in Seq(TokenNames) /\ Len(q \o a) = Len(q) + Len(a)
        /\ \A i \in 1 .. Len(q) : (q \o a)[i] = q[i]
        /\ \A i \in 1 .. Len(a) : (q \o a)[Len(q) + i] = a[i]
    BY ONLY <2>20, Joined
  <2>4. W = q \o a
    BY ONLY <1>4, <1>5 DEF q
  <2>5. Len(W) = c + 5
    BY ONLY <1>3, <2>2, <2>3, <2>4, c \in Nat
  <2>6. \A i \in 1 .. c + 1 : W[i] = "page"
    <3>1. \A i \in 1 .. c + 1 : i \in 1 .. c + 2
      OBVIOUS
    <3> QED BY ONLY <2>2, <2>3, <2>4, <3>1
  <2>7. W[c + 2] = "sum"
    <3>1. c + 2 \in 1 .. c + 2
      OBVIOUS
    <3> QED BY ONLY <2>2, <2>3, <2>4, <3>1
  <2>8. W[c + 3] = "skip" /\ W[c + 4] = "poll" /\ W[c + 5] = "echo"
    <3>1. (c + 2) + 1 = c + 3 /\ (c + 2) + 2 = c + 4 /\ (c + 2) + 3 = c + 5
          /\ 1 \in 1 .. 3 /\ 2 \in 1 .. 3 /\ 3 \in 1 .. 3
      OBVIOUS
    <3>2. W[(c + 2) + 1] = a[1] /\ W[(c + 2) + 2] = a[2] /\ W[(c + 2) + 3] = a[3]
      BY ONLY <1>3, <2>2, <2>3, <2>4, <3>1
    <3> QED BY ONLY <1>3, <3>1, <3>2
  <2> QED BY ONLY <1>5, <2>3, <2>4, <2>5, <2>6, <2>7, <2>8 DEF W
<1>6. CASE ~(c < AllCounts)
  <2>1. W = << >> \o a
    BY ONLY <1>4, <1>6
  <2>2. << >> \o a = a
    BY ONLY <1>3, ConcatEmptySeq
  <2> QED BY ONLY <1>3, <1>6, <2>1, <2>2 DEF W
<1> QED BY ONLY <1>5, <1>6


\* Words that are the tokens one by one are a part of them.
LEMMA TokensMatch ==
    ASSUME NEW n \in Nat, n = Len(Whole), NEW a \in 1 .. n + 1, NEW b \in 0 .. n,
           NEW k \in Nat, Spans(a, b, k), NEW S, NEW W \in Seq(S), Len(W) = k,
           \A i \in 1 .. k : W[i] = Token(Whole[a + i - 1])
    PROVE  W = SubSeq(Tokens, a, b)
<1> DEFINE s == SubSeq(Tokens, a, b)
           T == TokenSet(n)
<1>1. /\ s \in Seq(T) /\ Len(s) = k
      /\ \A i \in 1 .. k : s[i] = Token(Whole[a + i - 1])
  BY ONLY n \in Nat, n = Len(Whole), a \in 1 .. n + 1, b \in 0 .. n, k \in Nat,
          Spans(a, b, k), TokensPart
<1> HIDE DEF s, T
<1>2. W \in Seq(S)
  OBVIOUS
<1>3. \A i \in 1 .. Len(W) : W[i] = s[i]
  BY ONLY <1>1, Len(W) = k, \A i \in 1 .. k : W[i] = Token(Whole[a + i - 1])
<1>4. Len(W) = Len(s)
  BY ONLY <1>1, Len(W) = k
<1>5. W = s
  BY ONLY <1>1, <1>2, <1>3, <1>4, SameSeq
<1> QED BY <1>5 DEF s

\* The tokens that scripts begin with.
LEMMA FirstTokens ==
    ASSUME op \in Boot!Operations, calls \in Nat
    PROVE
        /\ op.kind = "version" =>
            /\ Len(Whole) = 9
            /\ Token(Whole[2]) = "skip" /\ Token(Whole[3]) = "poll"
            /\ Token(Whole[4]) = "echo" /\ Token(Whole[5]) = "dummy"
            /\ Token(Whole[6]) = "version" /\ Token(Whole[7]) = "skip"
            /\ Token(Whole[8]) = "poll" /\ Token(Whole[9]) = "echo"
        /\ op.kind = "id" =>
            /\ Len(Whole) = 10
            /\ Token(Whole[2]) = "skip" /\ Token(Whole[3]) = "poll"
            /\ Token(Whole[4]) = "echo" /\ Token(Whole[5]) = "dummy"
            /\ Token(Whole[6]) = "two" /\ Token(Whole[7]) = "receive"
            /\ Token(Whole[8]) = "skip" /\ Token(Whole[9]) = "poll"
            /\ Token(Whole[10]) = "echo"
        /\ op.kind = "read" =>
            /\ Len(Whole) = 16
            /\ Token(Whole[2]) = "skip" /\ Token(Whole[3]) = "poll"
            /\ Token(Whole[4]) = "echo" /\ Token(Whole[5]) = "addr"
            /\ Token(Whole[6]) = "sum" /\ Token(Whole[7]) = "skip"
            /\ Token(Whole[8]) = "poll" /\ Token(Whole[9]) = "echo"
            /\ Token(Whole[10]) = "length" /\ Token(Whole[11]) = "sum"
            /\ Token(Whole[12]) = "skip" /\ Token(Whole[13]) = "poll"
            /\ Token(Whole[14]) = "echo" /\ Token(Whole[15]) = "dummy"
            /\ Token(Whole[16]) = "receive"
        /\ op.kind = "write" =>
            /\ Len(Whole) = 15
            /\ Token(Whole[2]) = "skip" /\ Token(Whole[3]) = "poll"
            /\ Token(Whole[4]) = "echo" /\ Token(Whole[5]) = "addr"
            /\ Token(Whole[6]) = "sum" /\ Token(Whole[7]) = "skip"
            /\ Token(Whole[8]) = "poll" /\ Token(Whole[9]) = "echo"
            /\ Token(Whole[10]) = "size" /\ Token(Whole[11]) = "data"
            /\ Token(Whole[12]) = "sum" /\ Token(Whole[13]) = "skip"
            /\ Token(Whole[14]) = "poll" /\ Token(Whole[15]) = "echo"
        /\ op.kind = "jump" =>
            /\ Len(Whole) = 9
            /\ Token(Whole[2]) = "skip" /\ Token(Whole[3]) = "poll"
            /\ Token(Whole[4]) = "echo" /\ Token(Whole[5]) = "addr"
            /\ Token(Whole[6]) = "sum" /\ Token(Whole[7]) = "skip"
            /\ Token(Whole[8]) = "poll" /\ Token(Whole[9]) = "echo"
        /\ op.kind = "erase" =>
            /\ Len(Whole) >= 12
            /\ Token(Whole[2]) = "skip" /\ Token(Whole[3]) = "poll"
            /\ Token(Whole[4]) = "echo" /\ Token(Whole[5]) = "count"
            /\ Token(Whole[6]) = "sum" /\ Token(Whole[7]) = "skip"
            /\ Token(Whole[8]) = "poll" /\ Token(Whole[9]) = "echo"
<1>1. /\ Token(Boot!Step("exchange", Boot!Zero)) = "dummy"
      /\ Token(Boot!Step("value", Boot!Zero)) = "version"
      /\ Token(Boot!Step("size", Boot!Zero)) = "two"
      /\ \A m : Token(Boot!Step("receive", m)) = "receive"
  BY ONLY TokenIs
<1>2. \A step, word : Says(step, word) /\ word[1] # "zero" => Token(step) = word[1]
  BY ONLY TokenIs
<1>21. \A b, s : Boot!Sum(b, s)[1] = "sum" /\ Boot!Sum(b, s)[1] # "zero"
  BY ONLY TokenIs
<1>3. \A step, b, s : Says(step, Boot!Sum(b, s)) => Token(step) = "sum"
  <2> TAKE step, b, s
  <2>1. Boot!Sum(b, s)[1] = "sum" /\ Boot!Sum(b, s)[1] # "zero"
    BY ONLY <1>21
  <2>2. Says(step, Boot!Sum(b, s)) => Token(step) = Boot!Sum(b, s)[1]
    BY ONLY <1>2, <2>1
  <2> QED BY ONLY <2>1, <2>2
<1>22. \A step, word : Says(step, word) /\ word[1] = "addr" => Token(step) = "addr"
  BY ONLY <1>2
<1>23. \A step, word : Says(step, word) /\ word[1] = "length" => Token(step) = "length"
  BY ONLY <1>2
<1>24. \A step, word : Says(step, word) /\ word[1] = "size" => Token(step) = "size"
  BY ONLY <1>2
<1>25. \A step, word : Says(step, word) /\ word[1] = "data" => Token(step) = "data"
  BY ONLY <1>2
<1>26. \A step, word : Says(step, word) /\ word[1] = "count" => Token(step) = "count"
  BY ONLY <1>2
<1>4. \A k \in Nat : AckAt(Whole, k) =>
        /\ Token(Whole[k + 1]) = "skip" /\ Token(Whole[k + 2]) = "poll"
        /\ Token(Whole[k + 3]) = "echo"
  BY ONLY AckTokens
<1>5. /\ AckAt(Whole, 1) =>
           /\ Token(Whole[2]) = "skip" /\ Token(Whole[3]) = "poll"
           /\ Token(Whole[4]) = "echo"
      /\ AckAt(Whole, 6) =>
           /\ Token(Whole[7]) = "skip" /\ Token(Whole[8]) = "poll"
           /\ Token(Whole[9]) = "echo"
      /\ AckAt(Whole, 7) =>
           /\ Token(Whole[8]) = "skip" /\ Token(Whole[9]) = "poll"
           /\ Token(Whole[10]) = "echo"
      /\ AckAt(Whole, 11) =>
           /\ Token(Whole[12]) = "skip" /\ Token(Whole[13]) = "poll"
           /\ Token(Whole[14]) = "echo"
      /\ AckAt(Whole, 12) =>
           /\ Token(Whole[13]) = "skip" /\ Token(Whole[14]) = "poll"
           /\ Token(Whole[15]) = "echo"
  <2>1. /\ 1 + 1 = 2 /\ 1 + 2 = 3 /\ 1 + 3 = 4 /\ 6 + 1 = 7 /\ 6 + 2 = 8 /\ 6 + 3 = 9
        /\ 7 + 1 = 8 /\ 7 + 2 = 9 /\ 7 + 3 = 10 /\ 11 + 1 = 12 /\ 11 + 2 = 13
        /\ 11 + 3 = 14 /\ 12 + 1 = 13 /\ 12 + 2 = 14 /\ 12 + 3 = 15
    OBVIOUS
  <2>2. ASSUME NEW k \in Nat, AckAt(Whole, k)
        PROVE  /\ Token(Whole[k + 1]) = "skip" /\ Token(Whole[k + 2]) = "poll"
               /\ Token(Whole[k + 3]) = "echo"
    BY ONLY <1>4, <2>2
  <2>3. 1 \in Nat /\ 6 \in Nat /\ 7 \in Nat /\ 11 \in Nat /\ 12 \in Nat
    OBVIOUS
  <2> QED BY ONLY <2>1, <2>2, <2>3
<1>6. CASE op.kind = "version"
  <2>1. /\ Framed /\ Len(Whole) = 9 /\ Whole[5] = Boot!Step("exchange", Boot!Zero)
        /\ Whole[6] = Boot!Step("value", Boot!Zero) /\ AckAt(Whole, 6)
    BY <1>6, VersionIs
  <2>2. AckAt(Whole, 1)
    BY ONLY <2>1 DEF Framed
  <2> QED BY ONLY <1>1, <1>5, <1>6, <2>1, <2>2
<1>7. CASE op.kind = "id"
  <2>1. /\ Framed /\ Len(Whole) = 10 /\ Whole[5] = Boot!Step("exchange", Boot!Zero)
        /\ Whole[6] = Boot!Step("size", Boot!Zero)
        /\ Whole[7] = Boot!Step("receive", 2) /\ AckAt(Whole, 7)
    BY <1>7, IdIs
  <2>2. AckAt(Whole, 1)
    BY ONLY <2>1 DEF Framed
  <2> QED BY ONLY <1>1, <1>5, <1>7, <2>1, <2>2
<1>8. CASE op.kind = "read"
  <2>1. /\ Framed /\ Len(Whole) = 16 /\ Says(Whole[5], Told[1])
        /\ Says(Whole[6], Boot!Sum(FALSE, << Told[1] >>)) /\ AckAt(Whole, 6)
        /\ Says(Whole[10], Told[2])
        /\ Says(Whole[11], Boot!Sum(TRUE, << Told[2] >>)) /\ AckAt(Whole, 11)
        /\ Whole[15] = Boot!Step("exchange", Boot!Zero)
        /\ Whole[16] = Boot!Step("receive", op.n)
    BY <1>8, ReadIs
  <2>2. Told[1] = Boot!Address(calls) /\ Told[2] = << "length", op.n - 1, 1 >>
    BY <1>8, ToldIs
  <2>3. Told[1][1] = "addr" /\ Told[2][1] = "length"
    BY <2>2 DEF Boot!Address
  <2>4. AckAt(Whole, 1)
    BY ONLY <2>1 DEF Framed
  <2>5. /\ Token(Whole[5]) = "addr" /\ Token(Whole[10]) = "length"
        /\ Token(Whole[6]) = "sum" /\ Token(Whole[11]) = "sum"
    BY ONLY <1>3, <1>22, <1>23, <1>24, <1>25, <2>1, <2>3
  <2> QED BY ONLY <1>1, <1>5, <1>8, <2>1, <2>4, <2>5
<1>9. CASE op.kind = "write"
  <2>1. /\ Framed /\ Len(Whole) = 15 /\ Says(Whole[5], Told[1])
        /\ Says(Whole[6], Boot!Sum(FALSE, << Told[1] >>)) /\ AckAt(Whole, 6)
        /\ Says(Whole[10], Told[2]) /\ Says(Whole[11], Told[3])
        /\ Says(Whole[12], Boot!Sum(FALSE, << Told[2], Told[3] >>))
        /\ AckAt(Whole, 12)
    BY <1>9, WriteIs
  <2>2. /\ Told[1] = Boot!Address(calls)
        /\ Told[2] = << "size", op.n >> /\ Told[3] = << "data", calls, op.n >>
    BY <1>9, ToldIs
  <2>3. Told[1][1] = "addr" /\ Told[2][1] = "size" /\ Told[3][1] = "data"
    BY <2>2 DEF Boot!Address
  <2>4. AckAt(Whole, 1)
    BY ONLY <2>1 DEF Framed
  <2>5. /\ Token(Whole[5]) = "addr" /\ Token(Whole[10]) = "size"
        /\ Token(Whole[6]) = "sum" /\ Token(Whole[11]) = "data"
        /\ Token(Whole[12]) = "sum"
    BY ONLY <1>3, <1>22, <1>23, <1>24, <1>25, <2>1, <2>3
  <2> QED BY ONLY <1>1, <1>5, <1>9, <2>1, <2>4, <2>5
<1>10. CASE op.kind = "jump"
  <2>1. /\ Framed /\ Len(Whole) = 9 /\ Says(Whole[5], Told[1])
        /\ Says(Whole[6], Boot!Sum(FALSE, << Told[1] >>)) /\ AckAt(Whole, 6)
    BY <1>10, JumpIs
  <2>2. Told[1] = Boot!Address(calls)
    BY <1>10, ToldIs
  <2>3. Told[1][1] = "addr"
    BY <2>2 DEF Boot!Address
  <2>4. AckAt(Whole, 1)
    BY ONLY <2>1 DEF Framed
  <2>5. Token(Whole[5]) = "addr" /\ Token(Whole[6]) = "sum"
    BY ONLY <1>3, <1>22, <1>23, <1>24, <1>25, <2>1, <2>3
  <2> QED BY ONLY <1>1, <1>5, <1>10, <2>1, <2>4, <2>5
<1>11. CASE op.kind = "erase"
  <2>1. Framed /\ TalkLayout
    BY <1>11, TalkIs DEF Talks
  <2>2. /\ Says(Whole[5], Told[1]) /\ AckAt(Whole, 6)
        /\ Says(Whole[6], Boot!Sum(FALSE, SubSeq(Told, 1, 1)))
    BY ONLY <2>1 DEF TalkLayout
  <2>3. Told[1][1] = "count"
    <3>1. Told[1] = << "count", op.n - 1, 2 >> \/ Told[1] = << "count", op.n, 2 >>
      <4>1. op.n \in Nat /\ AllCounts \in Nat
        BY <1>11, OpNumbers
      <4>2. op.n < AllCounts \/ op.n >= AllCounts
        BY ONLY <4>1
      <4> QED BY <1>11, <4>2, ToldIs
    <3> QED BY <3>1
  <2>4. AckAt(Whole, 1)
    BY ONLY <2>1 DEF Framed
  <2>5. Token(Whole[5]) = "count" /\ Token(Whole[6]) = "sum"
    BY ONLY <1>3, <1>26, <2>2, <2>3
  <2>6. Len(Whole) >= 12
    BY ONLY <1>11, op \in Boot!Operations, calls \in Nat, EraseLong
  <2> QED BY ONLY <1>1, <1>5, <1>11, <2>2, <2>4, <2>5, <2>6
<1> QED BY ONLY <1>6, <1>7, <1>8, <1>9, <1>10, <1>11

\* What a frame makes it await is what comes.
LEMMA FirstAwaited ==
    ASSUME op \in Boot!Operations, calls \in Nat
    PROVE  Boot!Acknowledged \o Boot!Wanted(op.kind) = Awaited(1)
<1>1. PICK n \in Nat : n = Len(Whole)
  BY ONLY op \in Boot!Operations, calls \in Nat, StepKnown
<1>2. n > 8
  BY ONLY <1>1, op \in Boot!Operations, calls \in Nat, StepKnown
<1>3. 1 \in 1 .. n - 1 /\ 2 \in 1 .. n + 1 /\ 1 + 1 = 2
  BY ONLY <1>2, n \in Nat
<1>4. /\ Awaited(1) = SubSeq(Tokens, 2, Horizon(1)) /\ Horizon(1) \in Nat
      /\ Horizon(1) > 1 /\ Horizon(1) <= n
      /\ op.kind # "erase" => Horizon(1) = n
  BY ONLY <1>1, <1>3, op \in Boot!Operations, calls \in Nat, HorizonIs
<1>5. op.kind = "erase" => Horizon(1) = 9
  <2>1. 1 < 5
    OBVIOUS
  <2> QED BY ONLY <2>1 DEF Horizon
<1>6. CASE op.kind = "version"
  <2> DEFINE W == Boot!Acknowledged \o Boot!Wanted("version")
  <2>1. /\ W \in Seq(TokenNames) /\ Len(W) = 8
        /\ W[1] = "skip" /\ W[2] = "poll" /\ W[3] = "echo" /\ W[4] = "dummy"
        /\ W[5] = "version" /\ W[6] = "skip" /\ W[7] = "poll" /\ W[8] = "echo"
    BY WantedIs
  <2>2. /\ Len(Whole) = 9
        /\ Token(Whole[2]) = "skip" /\ Token(Whole[3]) = "poll"
        /\ Token(Whole[4]) = "echo" /\ Token(Whole[5]) = "dummy"
        /\ Token(Whole[6]) = "version" /\ Token(Whole[7]) = "skip"
        /\ Token(Whole[8]) = "poll" /\ Token(Whole[9]) = "echo"
    BY ONLY <1>6, op \in Boot!Operations, calls \in Nat, FirstTokens
  <2> HIDE DEF W
  <2>3. Horizon(1) = 9 /\ 9 \in 0 .. n /\ Spans(2, 9, 8) /\ 8 \in Nat
    BY ONLY <1>1, <1>4, <1>5, <1>6, <2>2 DEF Spans
  <2>4. \A i \in 1 .. 8 : W[i] = Token(Whole[2 + i - 1])
    <3> TAKE i \in 1 .. 8
    <3>1. i = 1 \/ i = 2 \/ i = 3 \/ i = 4 \/ i = 5 \/ i = 6 \/ i = 7 \/ i = 8
      BY ONLY i \in 1 .. 8
    <3>2. /\ 2 + 1 - 1 = 2 /\ 2 + 2 - 1 = 3 /\ 2 + 3 - 1 = 4 /\ 2 + 4 - 1 = 5
          /\ 2 + 5 - 1 = 6 /\ 2 + 6 - 1 = 7 /\ 2 + 7 - 1 = 8 /\ 2 + 8 - 1 = 9
      OBVIOUS
    <3> QED BY ONLY <2>1, <2>2, <3>1, <3>2
  <2>5. W = SubSeq(Tokens, 2, 9)
    BY ONLY <1>1, <1>3, <2>1, <2>3, <2>4, n \in Nat, TokensMatch
  <2> QED BY ONLY <1>4, <1>6, <2>3, <2>5 DEF W
<1>7. CASE op.kind = "id"
  <2> DEFINE W == Boot!Acknowledged \o Boot!Wanted("id")
  <2>1. /\ W \in Seq(TokenNames) /\ Len(W) = 9
        /\ W[1] = "skip" /\ W[2] = "poll" /\ W[3] = "echo" /\ W[4] = "dummy"
        /\ W[5] = "two" /\ W[6] = "receive" /\ W[7] = "skip" /\ W[8] = "poll"
        /\ W[9] = "echo"
    BY WantedIs
  <2>2. /\ Len(Whole) = 10
        /\ Token(Whole[2]) = "skip" /\ Token(Whole[3]) = "poll"
        /\ Token(Whole[4]) = "echo" /\ Token(Whole[5]) = "dummy"
        /\ Token(Whole[6]) = "two" /\ Token(Whole[7]) = "receive"
        /\ Token(Whole[8]) = "skip" /\ Token(Whole[9]) = "poll"
        /\ Token(Whole[10]) = "echo"
    BY ONLY <1>7, op \in Boot!Operations, calls \in Nat, FirstTokens
  <2> HIDE DEF W
  <2>3. Horizon(1) = 10 /\ 10 \in 0 .. n /\ Spans(2, 10, 9) /\ 9 \in Nat
    BY ONLY <1>1, <1>4, <1>5, <1>7, <2>2 DEF Spans
  <2>4. \A i \in 1 .. 9 : W[i] = Token(Whole[2 + i - 1])
    <3> TAKE i \in 1 .. 9
    <3>1. i = 1 \/ i = 2 \/ i = 3 \/ i = 4 \/ i = 5 \/ i = 6 \/ i = 7 \/ i = 8 \/ i = 9
      BY ONLY i \in 1 .. 9
    <3>2. /\ 2 + 1 - 1 = 2 /\ 2 + 2 - 1 = 3 /\ 2 + 3 - 1 = 4 /\ 2 + 4 - 1 = 5
          /\ 2 + 5 - 1 = 6 /\ 2 + 6 - 1 = 7 /\ 2 + 7 - 1 = 8 /\ 2 + 8 - 1 = 9
          /\ 2 + 9 - 1 = 10
      OBVIOUS
    <3> QED BY ONLY <2>1, <2>2, <3>1, <3>2
  <2>5. W = SubSeq(Tokens, 2, 10)
    BY ONLY <1>1, <1>3, <2>1, <2>3, <2>4, n \in Nat, TokensMatch
  <2> QED BY ONLY <1>4, <1>7, <2>3, <2>5 DEF W
<1>8. CASE op.kind = "read"
  <2> DEFINE W == Boot!Acknowledged \o Boot!Wanted("read")
  <2>1. /\ W \in Seq(TokenNames) /\ Len(W) = 15
        /\ W[1] = "skip" /\ W[2] = "poll" /\ W[3] = "echo" /\ W[4] = "addr"
        /\ W[5] = "sum" /\ W[6] = "skip" /\ W[7] = "poll" /\ W[8] = "echo"
        /\ W[9] = "length" /\ W[10] = "sum" /\ W[11] = "skip" /\ W[12] = "poll"
        /\ W[13] = "echo" /\ W[14] = "dummy" /\ W[15] = "receive"
    BY WantedIs
  <2>2. /\ Len(Whole) = 16
        /\ Token(Whole[2]) = "skip" /\ Token(Whole[3]) = "poll"
        /\ Token(Whole[4]) = "echo" /\ Token(Whole[5]) = "addr"
        /\ Token(Whole[6]) = "sum" /\ Token(Whole[7]) = "skip"
        /\ Token(Whole[8]) = "poll" /\ Token(Whole[9]) = "echo"
        /\ Token(Whole[10]) = "length" /\ Token(Whole[11]) = "sum"
        /\ Token(Whole[12]) = "skip" /\ Token(Whole[13]) = "poll"
        /\ Token(Whole[14]) = "echo" /\ Token(Whole[15]) = "dummy"
        /\ Token(Whole[16]) = "receive"
    BY ONLY <1>8, op \in Boot!Operations, calls \in Nat, FirstTokens
  <2> HIDE DEF W
  <2>3. Horizon(1) = 16 /\ 16 \in 0 .. n /\ Spans(2, 16, 15) /\ 15 \in Nat
    BY ONLY <1>1, <1>4, <1>5, <1>8, <2>2 DEF Spans
  <2>4. \A i \in 1 .. 15 : W[i] = Token(Whole[2 + i - 1])
    <3> TAKE i \in 1 .. 15
    <3>1. i = 1 \/ i = 2 \/ i = 3 \/ i = 4 \/ i = 5 \/ i = 6 \/ i = 7 \/ i = 8 \/ i = 9
          \/ i = 10 \/ i = 11 \/ i = 12 \/ i = 13 \/ i = 14 \/ i = 15
      BY ONLY i \in 1 .. 15
    <3>2. /\ 2 + 1 - 1 = 2 /\ 2 + 2 - 1 = 3 /\ 2 + 3 - 1 = 4 /\ 2 + 4 - 1 = 5
          /\ 2 + 5 - 1 = 6 /\ 2 + 6 - 1 = 7 /\ 2 + 7 - 1 = 8 /\ 2 + 8 - 1 = 9
          /\ 2 + 9 - 1 = 10 /\ 2 + 10 - 1 = 11 /\ 2 + 11 - 1 = 12 /\ 2 + 12 - 1 = 13
          /\ 2 + 13 - 1 = 14 /\ 2 + 14 - 1 = 15 /\ 2 + 15 - 1 = 16
      OBVIOUS
    <3> QED BY ONLY <2>1, <2>2, <3>1, <3>2
  <2>5. W = SubSeq(Tokens, 2, 16)
    BY ONLY <1>1, <1>3, <2>1, <2>3, <2>4, n \in Nat, TokensMatch
  <2> QED BY ONLY <1>4, <1>8, <2>3, <2>5 DEF W
<1>9. CASE op.kind = "write"
  <2> DEFINE W == Boot!Acknowledged \o Boot!Wanted("write")
  <2>1. /\ W \in Seq(TokenNames) /\ Len(W) = 14
        /\ W[1] = "skip" /\ W[2] = "poll" /\ W[3] = "echo" /\ W[4] = "addr"
        /\ W[5] = "sum" /\ W[6] = "skip" /\ W[7] = "poll" /\ W[8] = "echo"
        /\ W[9] = "size" /\ W[10] = "data" /\ W[11] = "sum" /\ W[12] = "skip"
        /\ W[13] = "poll" /\ W[14] = "echo"
    BY WantedIs
  <2>2. /\ Len(Whole) = 15
        /\ Token(Whole[2]) = "skip" /\ Token(Whole[3]) = "poll"
        /\ Token(Whole[4]) = "echo" /\ Token(Whole[5]) = "addr"
        /\ Token(Whole[6]) = "sum" /\ Token(Whole[7]) = "skip"
        /\ Token(Whole[8]) = "poll" /\ Token(Whole[9]) = "echo"
        /\ Token(Whole[10]) = "size" /\ Token(Whole[11]) = "data"
        /\ Token(Whole[12]) = "sum" /\ Token(Whole[13]) = "skip"
        /\ Token(Whole[14]) = "poll" /\ Token(Whole[15]) = "echo"
    BY ONLY <1>9, op \in Boot!Operations, calls \in Nat, FirstTokens
  <2> HIDE DEF W
  <2>3. Horizon(1) = 15 /\ 15 \in 0 .. n /\ Spans(2, 15, 14) /\ 14 \in Nat
    BY ONLY <1>1, <1>4, <1>5, <1>9, <2>2 DEF Spans
  <2>4. \A i \in 1 .. 14 : W[i] = Token(Whole[2 + i - 1])
    <3> TAKE i \in 1 .. 14
    <3>1. i = 1 \/ i = 2 \/ i = 3 \/ i = 4 \/ i = 5 \/ i = 6 \/ i = 7 \/ i = 8 \/ i = 9
          \/ i = 10 \/ i = 11 \/ i = 12 \/ i = 13 \/ i = 14
      BY ONLY i \in 1 .. 14
    <3>2. /\ 2 + 1 - 1 = 2 /\ 2 + 2 - 1 = 3 /\ 2 + 3 - 1 = 4 /\ 2 + 4 - 1 = 5
          /\ 2 + 5 - 1 = 6 /\ 2 + 6 - 1 = 7 /\ 2 + 7 - 1 = 8 /\ 2 + 8 - 1 = 9
          /\ 2 + 9 - 1 = 10 /\ 2 + 10 - 1 = 11 /\ 2 + 11 - 1 = 12 /\ 2 + 12 - 1 = 13
          /\ 2 + 13 - 1 = 14 /\ 2 + 14 - 1 = 15
      OBVIOUS
    <3> QED BY ONLY <2>1, <2>2, <3>1, <3>2
  <2>5. W = SubSeq(Tokens, 2, 15)
    BY ONLY <1>1, <1>3, <2>1, <2>3, <2>4, n \in Nat, TokensMatch
  <2> QED BY ONLY <1>4, <1>9, <2>3, <2>5 DEF W
<1>10. CASE op.kind = "jump"
  <2> DEFINE W == Boot!Acknowledged \o Boot!Wanted("jump")
  <2>1. /\ W \in Seq(TokenNames) /\ Len(W) = 8
        /\ W[1] = "skip" /\ W[2] = "poll" /\ W[3] = "echo" /\ W[4] = "addr"
        /\ W[5] = "sum" /\ W[6] = "skip" /\ W[7] = "poll" /\ W[8] = "echo"
    BY WantedIs
  <2>2. /\ Len(Whole) = 9
        /\ Token(Whole[2]) = "skip" /\ Token(Whole[3]) = "poll"
        /\ Token(Whole[4]) = "echo" /\ Token(Whole[5]) = "addr"
        /\ Token(Whole[6]) = "sum" /\ Token(Whole[7]) = "skip"
        /\ Token(Whole[8]) = "poll" /\ Token(Whole[9]) = "echo"
    BY ONLY <1>10, op \in Boot!Operations, calls \in Nat, FirstTokens
  <2> HIDE DEF W
  <2>3. Horizon(1) = 9 /\ 9 \in 0 .. n /\ Spans(2, 9, 8) /\ 8 \in Nat
    BY ONLY <1>1, <1>4, <1>5, <1>10, <2>2 DEF Spans
  <2>4. \A i \in 1 .. 8 : W[i] = Token(Whole[2 + i - 1])
    <3> TAKE i \in 1 .. 8
    <3>1. i = 1 \/ i = 2 \/ i = 3 \/ i = 4 \/ i = 5 \/ i = 6 \/ i = 7 \/ i = 8
      BY ONLY i \in 1 .. 8
    <3>2. /\ 2 + 1 - 1 = 2 /\ 2 + 2 - 1 = 3 /\ 2 + 3 - 1 = 4 /\ 2 + 4 - 1 = 5
          /\ 2 + 5 - 1 = 6 /\ 2 + 6 - 1 = 7 /\ 2 + 7 - 1 = 8 /\ 2 + 8 - 1 = 9
      OBVIOUS
    <3> QED BY ONLY <2>1, <2>2, <3>1, <3>2
  <2>5. W = SubSeq(Tokens, 2, 9)
    BY ONLY <1>1, <1>3, <2>1, <2>3, <2>4, n \in Nat, TokensMatch
  <2> QED BY ONLY <1>4, <1>10, <2>3, <2>5 DEF W
<1>11. CASE op.kind = "erase"
  <2> DEFINE W == Boot!Acknowledged \o Boot!Wanted("erase")
  <2>1. /\ W \in Seq(TokenNames) /\ Len(W) = 8
        /\ W[1] = "skip" /\ W[2] = "poll" /\ W[3] = "echo" /\ W[4] = "count"
        /\ W[5] = "sum" /\ W[6] = "skip" /\ W[7] = "poll" /\ W[8] = "echo"
    BY WantedIs
  <2>2. /\ Len(Whole) >= 12
        /\ Token(Whole[2]) = "skip" /\ Token(Whole[3]) = "poll"
        /\ Token(Whole[4]) = "echo" /\ Token(Whole[5]) = "count"
        /\ Token(Whole[6]) = "sum" /\ Token(Whole[7]) = "skip"
        /\ Token(Whole[8]) = "poll" /\ Token(Whole[9]) = "echo"
    BY ONLY <1>11, op \in Boot!Operations, calls \in Nat, FirstTokens
  <2> HIDE DEF W
  <2>3. Horizon(1) = 9 /\ 9 \in 0 .. n /\ Spans(2, 9, 8) /\ 8 \in Nat
    BY ONLY <1>1, <1>4, <1>5, <1>11, <2>2 DEF Spans
  <2>4. \A i \in 1 .. 8 : W[i] = Token(Whole[2 + i - 1])
    <3> TAKE i \in 1 .. 8
    <3>1. i = 1 \/ i = 2 \/ i = 3 \/ i = 4 \/ i = 5 \/ i = 6 \/ i = 7 \/ i = 8
      BY ONLY i \in 1 .. 8
    <3>2. /\ 2 + 1 - 1 = 2 /\ 2 + 2 - 1 = 3 /\ 2 + 3 - 1 = 4 /\ 2 + 4 - 1 = 5
          /\ 2 + 5 - 1 = 6 /\ 2 + 6 - 1 = 7 /\ 2 + 7 - 1 = 8 /\ 2 + 8 - 1 = 9
      OBVIOUS
    <3> QED BY ONLY <2>1, <2>2, <3>1, <3>2
  <2>5. W = SubSeq(Tokens, 2, 9)
    BY ONLY <1>1, <1>3, <2>1, <2>3, <2>4, n \in Nat, TokensMatch
  <2> QED BY ONLY <1>4, <1>11, <2>3, <2>5 DEF W
<1>20. op.kind \in OpKinds
  BY OpNumbers
<1> QED BY ONLY <1>6, <1>7, <1>8, <1>9, <1>10, <1>11, <1>20 DEF OpKinds

\* What the count of an erase makes it await.
LEMMA BehindCount ==
    ASSUME op \in Boot!Operations, calls \in Nat, op.kind = "erase",
           NEW n \in Nat, n = Len(Whole)
    PROVE  LET W == Boot!WantedBehind(Told[1][2])
           IN  /\ W \in Seq(TokenNames) /\ n >= 12 /\ Len(W) = n - 9
               /\ \A j \in 1 .. n - 9 : W[j] = Token(Whole[9 + j])
<1>1. /\ op.n \in Nat /\ op.n > 0 /\ AllCounts \in Nat
  BY OpNumbers
<1>2. \A k \in Nat : AckAt(Whole, k) =>
        /\ Token(Whole[k + 1]) = "skip" /\ Token(Whole[k + 2]) = "poll"
        /\ Token(Whole[k + 3]) = "echo"
  BY ONLY AckTokens
<1>3. CASE op.n >= AllCounts
  <2> DEFINE W == Boot!WantedBehind(op.n)
  <2>1. Told[1] = << "count", op.n, 2 >>
    BY <1>3, ToldIs
  <2>2. Told[1][2] = op.n
    BY <2>1
  <2>3. n = 12 /\ AckAt(Whole, 9)
    BY <1>3, EraseAllIs
  <2>4. ~(op.n < AllCounts)
    BY ONLY <1>1, <1>3
  <2>5. W \in Seq(TokenNames) /\ Len(W) = 3 /\ W[1] = "skip" /\ W[2] = "poll"
        /\ W[3] = "echo"
    BY ONLY <1>1, <2>4, BehindIs
  <2>6. /\ Token(Whole[9 + 1]) = "skip" /\ Token(Whole[9 + 2]) = "poll"
        /\ Token(Whole[9 + 3]) = "echo"
    <3>1. 9 \in Nat
      OBVIOUS
    <3> QED BY ONLY <1>2, <2>3, <3>1
  <2> HIDE DEF W
  <2>7. \A j \in 1 .. n - 9 : W[j] = Token(Whole[9 + j])
    <3>1. \A j \in 1 .. n - 9 : j = 1 \/ j = 2 \/ j = 3
      BY ONLY <2>3
    <3> QED BY ONLY <2>5, <2>6, <3>1
  <2>8. n >= 12 /\ Len(W) = n - 9
    BY ONLY <2>3, <2>5
  <2> QED BY ONLY <2>2, <2>5, <2>7, <2>8 DEF W
<1>4. CASE op.n < AllCounts
  <2>0. PICK c \in Nat : c = op.n - 1
    BY ONLY <1>1
  <2> DEFINE W == Boot!WantedBehind(c)
  <2>1. Told[1] = << "count", op.n - 1, 2 >>
            /\ \A i \in 1 .. op.n : Told[1 + i] = Page(i)
    BY <1>4, ToldIs
  <2>2. Told[1][2] = c
    BY <2>0, <2>1
  <2>3. /\ Len(Whole) = 13 + op.n
        /\ \A i \in 1 .. op.n : Says(Whole[9 + i], Told[1 + i])
        /\ Says(Whole[10 + op.n], Boot!Sum(FALSE, [ i \in 1 .. op.n |-> Told[1 + i] ]))
        /\ AckAt(Whole, 10 + op.n)
    BY <1>4, EraseIs
  <2>4. op.n = c + 1 /\ c < AllCounts
    BY ONLY <1>1, <1>4, <2>0
  <2>5. /\ W \in Seq(TokenNames)
        /\ Len(W) = c + 5 /\ \A i \in 1 .. c + 1 : W[i] = "page"
        /\ W[c + 2] = "sum" /\ W[c + 3] = "skip" /\ W[c + 4] = "poll"
        /\ W[c + 5] = "echo"
    BY ONLY <2>4, c \in Nat, BehindIs
  <2>6. \A i \in 1 .. c + 1 : Token(Whole[9 + i]) = "page"
    <3> TAKE i \in 1 .. c + 1
    <3>1. Says(Whole[9 + i], Page(i))
      BY ONLY <2>1, <2>3, <2>4, i \in 1 .. c + 1
    <3>2. Page(i)[1] = "page"
      BY DEF Page
    <3>3. Page(i)[1] # "zero"
      BY <3>2
    <3>4. \A step, word : Says(step, word) /\ word[1] # "zero" => Token(step) = word[1]
      BY ONLY TokenIs
    <3> QED BY ONLY <3>1, <3>2, <3>3, <3>4
  <2>7. Token(Whole[9 + (c + 2)]) = "sum"
    <3>1. 10 + op.n = 9 + (c + 2)
      BY ONLY <2>4, c \in Nat
    <3>2. \A b, s : Boot!Sum(b, s)[1] = "sum" /\ Boot!Sum(b, s)[1] # "zero"
      BY ONLY TokenIs
    <3>3. PICK s : Says(Whole[9 + (c + 2)], Boot!Sum(FALSE, s))
      BY ONLY <2>3, <3>1
    <3>4. \A step, word : Says(step, word) /\ word[1] # "zero" => Token(step) = word[1]
      BY ONLY TokenIs
    <3>5. Boot!Sum(FALSE, s)[1] = "sum" /\ Boot!Sum(FALSE, s)[1] # "zero"
      BY ONLY <3>2
    <3> QED BY ONLY <3>3, <3>4, <3>5
  <2>8. /\ Token(Whole[9 + (c + 3)]) = "skip" /\ Token(Whole[9 + (c + 4)]) = "poll"
        /\ Token(Whole[9 + (c + 5)]) = "echo"
    <3>1. /\ 10 + op.n \in Nat /\ (10 + op.n) + 1 = 9 + (c + 3)
          /\ (10 + op.n) + 2 = 9 + (c + 4) /\ (10 + op.n) + 3 = 9 + (c + 5)
      BY ONLY <2>4, c \in Nat
    <3>2. /\ Token(Whole[(10 + op.n) + 1]) = "skip"
          /\ Token(Whole[(10 + op.n) + 2]) = "poll"
          /\ Token(Whole[(10 + op.n) + 3]) = "echo"
      BY ONLY <1>2, <2>3, <3>1
    <3> QED BY ONLY <3>1, <3>2
  <2> HIDE DEF W
  <2>9. n = c + 14
    BY ONLY <2>3, <2>4, c \in Nat, n = Len(Whole)
  <2>10. \A j \in 1 .. n - 9 : W[j] = Token(Whole[9 + j])
    <3>1. \A j \in 1 .. n - 9 : j \in 1 .. c + 1 \/ j = c + 2 \/ j = c + 3 \/ j = c + 4
                                \/ j = c + 5
      BY ONLY <2>9, c \in Nat
    <3> QED BY ONLY <2>5, <2>6, <2>7, <2>8, <3>1
  <2>11. n >= 12 /\ Len(W) = n - 9
    BY ONLY <2>5, <2>9, c \in Nat
  <2> QED BY ONLY <2>2, <2>5, <2>10, <2>11 DEF W
<1> QED BY ONLY <1>1, <1>3, <1>4

\* It is what comes.
LEMMA CountAwaited ==
    ASSUME op \in Boot!Operations, calls \in Nat, op.kind = "erase"
    PROVE  SubSeq(Tokens, 6, 9) \o Boot!WantedBehind(Told[1][2]) = Awaited(5)
<1>1. PICK n \in Nat : n = Len(Whole)
  BY ONLY op \in Boot!Operations, calls \in Nat, StepKnown
<1> DEFINE W == Boot!WantedBehind(Told[1][2])
           X == SubSeq(Tokens, 6, 9)
           S == TokenSet(n) \cup TokenNames
<1>2. /\ W \in Seq(TokenNames) /\ n >= 12 /\ Len(W) = n - 9
      /\ \A j \in 1 .. n - 9 : W[j] = Token(Whole[9 + j])
  BY <1>1, BehindCount
<1>3. /\ X \in Seq(TokenSet(n)) /\ Len(X) = 4
      /\ \A i \in 1 .. 4 : X[i] = Token(Whole[6 + i - 1])
  <2>1. 6 \in 1 .. n + 1 /\ 9 \in 0 .. n /\ 4 \in Nat /\ Spans(6, 9, 4)
    BY ONLY <1>2, n \in Nat DEF Spans
  <2> QED BY ONLY <1>1, <2>1, n \in Nat, TokensPart
<1> HIDE DEF W, X, S
<1>4. X \in Seq(S) /\ W \in Seq(S)
  <2>1. \A Q, R, s : s \in Seq(Q) /\ Q \subseteq R => s \in Seq(R)
    OBVIOUS
  <2>2. TokenSet(n) \subseteq S /\ TokenNames \subseteq S
    BY DEF S
  <2> QED BY ONLY <1>2, <1>3, <2>1, <2>2
<1>5. /\ X \o W \in Seq(S) /\ Len(X \o W) = Len(X) + Len(W)
      /\ \A i \in 1 .. Len(X) : (X \o W)[i] = X[i]
      /\ \A i \in 1 .. Len(W) : (X \o W)[Len(X) + i] = W[i]
  BY ONLY <1>4, Joined
<1> DEFINE Y == X \o W
<1>6. PICK k \in Nat : k = n - 5
  BY ONLY <1>2, n \in Nat
<1>7. Y \in Seq(S) /\ Len(Y) = k
  <2>1. 4 + (n - 9) = k
    BY ONLY <1>2, <1>6, n \in Nat
  <2> QED BY ONLY <1>2, <1>3, <1>5, <2>1
<1>8. /\ \A i \in 1 .. 4 : Y[i] = X[i]
      /\ \A i \in 1 .. n - 9 : Y[4 + i] = W[i]
  BY ONLY <1>2, <1>3, <1>5
<1> HIDE DEF Y
<1>9. \A i \in 1 .. k : Y[i] = Token(Whole[6 + i - 1])
  <2> TAKE i \in 1 .. k
  <2>1. CASE i \in 1 .. 4
    BY ONLY <1>3, <1>8, <2>1
  <2>2. CASE i - 4 \in 1 .. n - 9
    <3>1. 4 + (i - 4) = i /\ 9 + (i - 4) = 6 + i - 1
      BY ONLY i \in 1 .. k, k \in Nat
    <3>2. Y[4 + (i - 4)] = W[i - 4] /\ W[i - 4] = Token(Whole[9 + (i - 4)])
      BY ONLY <1>2, <1>8, <2>2
    <3> QED BY ONLY <3>1, <3>2
  <2>3. i \in 1 .. 4 \/ i - 4 \in 1 .. n - 9
    BY ONLY <1>2, <1>6, n \in Nat, k \in Nat, i \in 1 .. k
  <2> QED BY ONLY <2>1, <2>2, <2>3
<1>10. Y = SubSeq(Tokens, 6, n)
  <2>1. 6 \in 1 .. n + 1 /\ n \in 0 .. n /\ Spans(6, n, k)
    BY ONLY <1>2, <1>6, n \in Nat DEF Spans
  <2> QED BY ONLY <1>1, <1>7, <1>9, <2>1, n \in Nat, k \in Nat, TokensMatch
<1>11. Awaited(5) = SubSeq(Tokens, 6, n)
  <2>1. 5 \in 1 .. n - 1 /\ 5 + 1 = 6 /\ ~(5 < 5)
    BY ONLY <1>2, n \in Nat
  <2>2. Awaited(5) = SubSeq(Tokens, 5 + 1, Horizon(5)) /\ Horizon(5) = n
    BY ONLY <1>1, <2>1, n \in Nat, op \in Boot!Operations, calls \in Nat, HorizonIs
  <2> QED BY ONLY <2>1, <2>2
<1> QED BY ONLY <1>10, <1>11 DEF Y, X, W

\* Another one of a sequence is added to a part of it.
LEMMA PartGrows ==
    ASSUME NEW S, NEW s \in Seq(S), NEW a \in Nat \ { 0 }, NEW b \in Nat,
           a <= b + 1, b < Len(s)
    PROVE  Append(SubSeq(s, a, b), s[b + 1]) = SubSeq(s, a, b + 1)
<1>1. PICK n \in Nat : n = Len(s)
  BY LenProperties
<1>2. b < n
  BY ONLY <1>1, b < Len(s)
<1>3. PICK k \in Nat : k = b + 1 - a
  BY ONLY a \in Nat \ { 0 }, b \in Nat, a <= b + 1
<1>4. \A i \in a .. b + 1 : s[i] \in S
  <2>1. \A i \in a .. b + 1 : i \in 1 .. n
    BY ONLY <1>2, a \in Nat \ { 0 }, b \in Nat, n \in Nat
  <2> QED BY ONLY <1>1, <2>1, s \in Seq(S), ElementOfSeq
<1>5. /\ SubSeq(s, a, b + 1) \in Seq(S)
      /\ Len(SubSeq(s, a, b + 1)) = k + 1
      /\ \A i \in 1 .. k + 1 : SubSeq(s, a, b + 1)[i] = s[a + i - 1]
  <2>1. /\ SubSeq(s, a, b + 1) \in Seq(S)
        /\ Len(SubSeq(s, a, b + 1)) = (IF a <= b + 1 THEN b + 1 - a + 1 ELSE 0)
        /\ \A i \in 1 .. b + 1 - a + 1 : SubSeq(s, a, b + 1)[i] = s[a + i - 1]
    <3>1. a \in Int /\ b + 1 \in Int
      BY ONLY a \in Nat \ { 0 }, b \in Nat
    <3> QED BY ONLY <1>4, <3>1, SubSeqProperties
  <2>2. b + 1 - a + 1 = k + 1
    BY ONLY <1>3
  <2> QED BY ONLY <2>1, <2>2, a <= b + 1
<1>6. /\ SubSeq(s, a, b) \in Seq(S)
      /\ Len(SubSeq(s, a, b)) = k
      /\ \A i \in 1 .. k : SubSeq(s, a, b)[i] = s[a + i - 1]
  <2>1. /\ SubSeq(s, a, b) \in Seq(S)
        /\ Len(SubSeq(s, a, b)) = (IF a <= b THEN b - a + 1 ELSE 0)
        /\ \A i \in 1 .. b - a + 1 : SubSeq(s, a, b)[i] = s[a + i - 1]
    <3>1. a \in Int /\ b \in Int
      BY ONLY a \in Nat \ { 0 }, b \in Nat
    <3>2. \A i \in a .. b : s[i] \in S
      <4>1. \A i \in a .. b : i \in a .. b + 1
        BY ONLY a \in Nat \ { 0 }, b \in Nat
      <4> QED BY ONLY <1>4, <4>1
    <3> QED BY ONLY <3>1, <3>2, SubSeqProperties
  <2>2. b - a + 1 = k /\ (~(a <= b) => k = 0)
    BY ONLY <1>3, a \in Nat \ { 0 }, b \in Nat
  <2> QED BY ONLY <2>1, <2>2
<1> DEFINE p == SubSeq(s, a, b)
           q == SubSeq(s, a, b + 1)
           r == Append(p, s[b + 1])
<1>7. s[b + 1] \in S
  <2>1. b + 1 \in a .. b + 1
    BY ONLY a \in Nat \ { 0 }, b \in Nat, a <= b + 1
  <2> QED BY ONLY <1>4, <2>1
<1> HIDE DEF p, q
<1>8. p \in Seq(S) /\ Len(p) = k /\ \A i \in 1 .. k : p[i] = s[a + i - 1]
  BY <1>6 DEF p
<1>9. q \in Seq(S) /\ Len(q) = k + 1 /\ \A i \in 1 .. k + 1 : q[i] = s[a + i - 1]
  BY <1>5 DEF q
<1>10. /\ r \in Seq(S) /\ Len(r) = k + 1 /\ r[k + 1] = s[b + 1]
       /\ \A i \in 1 .. k : r[i] = p[i]
  BY <1>7, <1>8, AppendProperties
<1> HIDE DEF r
<1>11. \A i \in 1 .. k + 1 : r[i] = q[i]
  <2> TAKE i \in 1 .. k + 1
  <2>1. CASE i \in 1 .. k
    BY ONLY <1>8, <1>9, <1>10, <2>1, k \in Nat, i \in 1 .. k + 1
  <2>2. CASE i = k + 1
    <3>1. a + (k + 1) - 1 = b + 1
      BY ONLY <1>3, a \in Nat \ { 0 }, b \in Nat
    <3>2. q[k + 1] = s[a + (k + 1) - 1]
      BY ONLY <1>9, <2>2, i \in 1 .. k + 1
    <3> QED BY ONLY <1>10, <2>2, <3>1, <3>2
  <2>3. i \in 1 .. k \/ i = k + 1
    BY ONLY k \in Nat, i \in 1 .. k + 1
  <2> QED BY ONLY <2>1, <2>2, <2>3
<1>12. r = q
  <2>1. Len(r) = Len(q) /\ \A i \in 1 .. Len(r) : r[i] = q[i]
    BY ONLY <1>9, <1>10, <1>11
  <2> QED BY ONLY <1>9, <1>10, <2>1, SeqEqual
<1> QED BY ONLY <1>12 DEF r, p, q

\* A part that has nothing in it.
LEMMA PartNone ==
    ASSUME NEW s, NEW b \in Nat
    PROVE  SubSeq(s, b + 1, b) = << >>
<1>1. b + 1 \in Int /\ b \in Int /\ b < b + 1
  OBVIOUS
<1> QED BY ONLY <1>1, SubSeqEmpty

\* A part that has everything in it.
LEMMA PartAll ==
    ASSUME NEW S, NEW s \in Seq(S)
    PROVE  SubSeq(s, 1, Len(s)) = s
<1>1. PICK n \in Nat : n = Len(s)
  BY LenProperties
<1>2. \A i \in 1 .. n : s[i] \in S
  BY ONLY <1>1, s \in Seq(S), ElementOfSeq
<1>3. /\ SubSeq(s, 1, n) \in Seq(S)
      /\ Len(SubSeq(s, 1, n)) = (IF 1 <= n THEN n - 1 + 1 ELSE 0)
      /\ \A i \in 1 .. n - 1 + 1 : SubSeq(s, 1, n)[i] = s[1 + i - 1]
  <2>1. 1 \in Int /\ n \in Int
    OBVIOUS
  <2> QED BY ONLY <1>2, <2>1, SubSeqProperties
<1>4. n - 1 + 1 = n /\ (~(1 <= n) => n = 0) /\ \A i \in 1 .. n : 1 + i - 1 = i
  BY ONLY n \in Nat
<1> DEFINE t == SubSeq(s, 1, n)
<1> HIDE DEF t
<1>5. t \in Seq(S) /\ Len(t) = n /\ \A i \in 1 .. n : t[i] = s[i]
  BY ONLY <1>3, <1>4 DEF t
<1>6. Len(t) = Len(s) /\ \A i \in 1 .. Len(t) : t[i] = s[i]
  BY ONLY <1>1, <1>5
<1>7. t = s
  BY ONLY <1>5, <1>6, s \in Seq(S), SeqEqual
<1> QED BY ONLY <1>1, <1>7 DEF t

\* All calls but reads end in an acknowledgement.
LEMMA LastStep ==
    ASSUME op \in Boot!Operations, calls \in Nat, op.kind # "read",
           NEW n \in Nat, n = Len(Whole)
    PROVE  EchoNext(n - 1) /\ Whole[n - 1] = PollStep /\ Whole[n] = EchoStep
<1>1. n > 8
  BY ONLY n = Len(Whole), op \in Boot!Operations, calls \in Nat, StepKnown
<1>2. n - 1 \in 0 .. n - 1 /\ (n - 1) + 1 = n
  BY ONLY <1>1, n \in Nat
<1>3. Known(n - 1)
  BY ONLY <1>2, n = Len(Whole), op \in Boot!Operations, calls \in Nat, StepKnown
<1>4. ~Inside(n - 1)
  <2>1. ~((n - 1) + 1 < n)
    BY ONLY n \in Nat
  <2> QED BY ONLY <2>1, n = Len(Whole) DEF Inside
<1>5. ~FrameNext(n - 1) /\ ~SkipNext(n - 1) /\ ~PollNext(n - 1)
  <2>1. ~((n - 1) + 3 <= n) /\ ~((n - 1) + 2 <= n) /\ n - 1 # 0
    BY ONLY <1>1, n \in Nat
  <2> QED BY ONLY <2>1, n = Len(Whole) DEF FrameNext, SkipNext, PollNext
<1>6. ~DataStep(n - 1) /\ ~TalkStep(n - 1)
  BY ONLY <1>4, op.kind # "read" DEF DataStep, TalkStep, DummyNext, ValueNext,
          SizeNext, ReceiveNext, TellNext, SumNext
<1>7. EchoNext(n - 1)
  BY ONLY <1>3, <1>5, <1>6 DEF Known, AckStep
<1> QED BY ONLY <1>2, <1>7 DEF EchoNext

\* What the boot loader hears makes of it, depending on what it awaits.
LEMMA HearsCases ==
    ASSUME ~loader.lost, NEW word, NEW reply, Boot!Hears(word, reply)
    PROVE  LET e == Head(loader.expect)
               on == [ loader EXCEPT !.expect = Boot!Passed(@) ]
           IN  /\ e \in { "skip", "dummy" } => loader' = on /\ reply = Filler
               /\ e = "poll" => Boot!AnswersPoll(reply)
               /\ e = "version" => loader' = on /\ reply = << "value", loader.cmd >>
               /\ e = "two" => loader' = on /\ reply = << "size", 1 >>
               /\ e = "echo" /\ word = Boot!Ack => loader' = on
               /\ e = "frame" /\ word[1] = "frame" =>
                    loader' = [ loader EXCEPT
                                  !.expect = Boot!Acknowledged \o Boot!Wanted(word[2]),
                                  !.kind = word[2], !.cmd = word[3],
                                  !.part = << >>, !.got = << >>, !.did = << >> ]
               /\ e = "sum" => loader' = [ on EXCEPT !.wrong = word # Boot!Expected ]
               /\ e \in ToldNames /\ word[1] = e =>
                    loader' = [ on EXCEPT
                                  !.expect = IF e = "count"
                                             THEN @ \o Boot!WantedBehind(word[2])
                                             ELSE @,
                                  !.part = Append(@, word), !.got = Append(@, word) ]
<1>1. Boot!Filler = Filler
  BY SameLink
<1> QED BY <1>1 DEF Boot!Hears, ToldNames

\* The boot loader, or what becomes of it, has been through h steps of the script.
LoaderIs(l, h) ==
    /\ l.expect = Awaited(h)
    /\ h > 0 =>
          /\ l.kind = op.kind /\ l.cmd = calls
          /\ l.got = SubSeq(Told, 1, Gone(h))
          /\ l.part = SubSeq(Told, Agreed(h) + 1, Gone(h))
    /\ h >= Len(Whole) - 1 /\ op.kind # "read" =>
          l.did = << op.kind, calls, Told >>

\* It goes on to the next step when it awaits what comes then, and nothing else
\* changes that matters.
LEMMA GoesOn ==
    ASSUME op \in Boot!Operations, calls \in Nat, NEW n \in Nat, n = Len(Whole),
           NEW h \in 1 .. n - 1, LoaderIs(loader, h), NEW l,
           l.expect = Awaited(h + 1), Still(h),
           l.kind = loader.kind, l.cmd = loader.cmd, l.got = loader.got,
           l.part = loader.part, l.did = loader.did,
           op.kind # "read" => h + 1 < n - 1 \/ h >= n - 1
    PROVE  LoaderIs(l, h + 1)
<1>1. h > 0 /\ h + 1 > 0
  BY ONLY h \in 1 .. n - 1, n \in Nat
<1>2. /\ l.kind = op.kind /\ l.cmd = calls
      /\ l.got = SubSeq(Told, 1, Gone(h))
      /\ l.part = SubSeq(Told, Agreed(h) + 1, Gone(h))
  BY ONLY <1>1, LoaderIs(loader, h), l.kind = loader.kind, l.cmd = loader.cmd,
          l.got = loader.got, l.part = loader.part DEF LoaderIs
<1>3. Gone(h + 1) = Gone(h) /\ Agreed(h + 1) = Agreed(h)
  BY ONLY Still(h) DEF Still
<1>4. h + 1 >= n - 1 /\ op.kind # "read" => l.did = << op.kind, calls, Told >>
  <2>1. h + 1 >= n - 1 /\ op.kind # "read" => h >= n - 1
    BY ONLY op.kind # "read" => h + 1 < n - 1 \/ h >= n - 1, n \in Nat, h \in 1 .. n - 1
  <2>2. h >= n - 1 /\ op.kind # "read" => loader.did = << op.kind, calls, Told >>
    BY ONLY n = Len(Whole), LoaderIs(loader, h) DEF LoaderIs
  <2> QED BY ONLY <2>1, <2>2, l.did = loader.did
<1> QED BY ONLY <1>2, <1>3, <1>4, l.expect = Awaited(h + 1), n = Len(Whole) DEF LoaderIs

\* When it has what it awaited, it awaits the next.
LEMMA PassesOn ==
    ASSUME op \in Boot!Operations, calls \in Nat, NEW n \in Nat, n = Len(Whole),
           NEW h \in 1 .. n - 1, LoaderIs(loader, h), DOMAIN loader = LoaderFields,
           ~(op.kind = "erase" /\ h = 4), Still(h), NEW l,
           l = [ loader EXCEPT !.expect = Boot!Passed(@) ],
           op.kind # "read" => h + 1 < n - 1 \/ h >= n - 1
    PROVE  LoaderIs(l, h + 1) /\ l.lost = loader.lost /\ l.wrong = loader.wrong
<1>1. /\ l.expect = Boot!Passed(loader.expect)
      /\ l.kind = loader.kind /\ l.cmd = loader.cmd /\ l.got = loader.got
      /\ l.part = loader.part /\ l.did = loader.did
      /\ l.lost = loader.lost /\ l.wrong = loader.wrong
  BY ONLY DOMAIN loader = LoaderFields, l = [ loader EXCEPT !.expect = Boot!Passed(@) ]
     DEF LoaderFields
<1>2. loader.expect = Awaited(h)
  BY ONLY LoaderIs(loader, h) DEF LoaderIs
<1>3. Boot!Passed(Awaited(h)) = Awaited(h + 1)
  BY ONLY op \in Boot!Operations, calls \in Nat, n \in Nat, n = Len(Whole),
          h \in 1 .. n - 1, ~(op.kind = "erase" /\ h = 4), AwaitedNext
<1>4. l.expect = Awaited(h + 1)
  BY ONLY <1>1, <1>2, <1>3
<1>5. LoaderIs(l, h + 1)
  BY ONLY <1>1, <1>4, op \in Boot!Operations, calls \in Nat, n \in Nat, n = Len(Whole),
          h \in 1 .. n - 1, LoaderIs(loader, h), Still(h),
          op.kind # "read" => h + 1 < n - 1 \/ h >= n - 1, GoesOn
<1> QED BY ONLY <1>1, <1>5

\* The head of what it awaits.
LEMMA HeadAwaited ==
    ASSUME op \in Boot!Operations, calls \in Nat, NEW n \in Nat, n = Len(Whole),
           NEW h \in 1 .. n - 1, LoaderIs(loader, h)
    PROVE  Head(loader.expect) = Token(Whole[h + 1])
<1>1. Head(Awaited(h)) = Token(Whole[h + 1])
  BY ONLY op \in Boot!Operations, calls \in Nat, n \in Nat, n = Len(Whole),
          h \in 1 .. n - 1, AwaitedNext
<1>2. loader.expect = Awaited(h)
  BY ONLY LoaderIs(loader, h) DEF LoaderIs
<1> QED BY ONLY <1>1, <1>2

\* Behind the first acknowledgement of an erase comes the count.
LEMMA CountComes ==
    ASSUME op \in Boot!Operations, calls \in Nat, op.kind = "erase"
    PROVE  Token(Whole[5]) = "count"
BY ONLY op \in Boot!Operations, calls \in Nat, op.kind = "erase", FirstTokens

----------------------------------------------------------------------------
(***************************************************************************)
(* What it hears is what it expects.                                       *)
(***************************************************************************)
\* The boot loader has been through h steps of the script and knows the next.
Sane(l) == ~l.lost /\ ~l.wrong
Ready(h) ==
    /\ op \in Boot!Operations /\ calls \in Nat /\ h \in 0 .. Len(Whole) - 1
    /\ LoaderIs(loader, h) /\ DOMAIN loader = LoaderFields /\ Sane(loader)

\* It hears that it is asked for something, or how a call goes on, or the end of it.
LEMMA PlainHears ==
    ASSUME NEW h, Ready(h), NEW word, NEW reply, Boot!Hears(word, reply),
           word = Whole[h + 1].v,
           SkipNext(h) \/ EchoNext(h) \/ DummyNext(h) \/ ValueNext(h) \/ SizeNext(h)
    PROVE  /\ Sane(loader') /\ LoaderIs(loader', h + 1)
           /\ SkipNext(h) \/ DummyNext(h) => reply = Filler
           /\ ValueNext(h) => reply = << "value", calls >>
           /\ SizeNext(h) => reply = << "size", 1 >>
<1>0. /\ op \in Boot!Operations /\ calls \in Nat /\ h \in 0 .. Len(Whole) - 1
      /\ LoaderIs(loader, h) /\ DOMAIN loader = LoaderFields
      /\ ~loader.lost /\ ~loader.wrong
  BY ONLY Ready(h) DEF Ready, Sane
<1>1. PICK n \in Nat : n = Len(Whole)
  BY ONLY <1>0, StepKnown
<1>2. /\ n > 8 /\ h \in 1 .. n - 1 /\ h + 1 > 0
  <2>1. n > 8
    BY ONLY <1>0, <1>1, StepKnown
  <2>2. h # 0
    BY ONLY SkipNext(h) \/ EchoNext(h) \/ DummyNext(h) \/ ValueNext(h) \/ SizeNext(h)
       DEF SkipNext, EchoNext, DummyNext, ValueNext, SizeNext, Inside
  <2>3. h \in 0 .. n - 1
    BY ONLY <1>0, <1>1
  <2> QED BY ONLY <2>1, <2>2, <2>3, n \in Nat
<1>3. Still(h)
  BY ONLY SkipNext(h) \/ EchoNext(h) \/ DummyNext(h) \/ ValueNext(h) \/ SizeNext(h)
     DEF SkipNext, EchoNext, DummyNext, ValueNext, SizeNext
<1>4. Head(loader.expect) = Token(Whole[h + 1])
  BY ONLY <1>0, <1>1, <1>2, n \in Nat, HeadAwaited
<1>5. /\ SkipNext(h) => Token(Whole[h + 1]) = "skip"
      /\ EchoNext(h) => Token(Whole[h + 1]) = "echo"
      /\ DummyNext(h) => Token(Whole[h + 1]) = "dummy"
      /\ ValueNext(h) => Token(Whole[h + 1]) = "version"
      /\ SizeNext(h) => Token(Whole[h + 1]) = "two"
  BY ONLY TokenIs DEF SkipNext, EchoNext, DummyNext, ValueNext, SizeNext
<1>6. EchoNext(h) => word = Boot!Ack
  <2>1. EchoStep.v = Boot!Ack
    BY ONLY StepIs
  <2> QED BY ONLY <2>1, word = Whole[h + 1].v DEF EchoNext
<1>7. LET e == Head(loader.expect)
          on == [ loader EXCEPT !.expect = Boot!Passed(@) ]
      IN  /\ e \in { "skip", "dummy" } => loader' = on /\ reply = Filler
          /\ e = "version" => loader' = on /\ reply = << "value", loader.cmd >>
          /\ e = "two" => loader' = on /\ reply = << "size", 1 >>
          /\ e = "echo" /\ word = Boot!Ack => loader' = on
  BY ONLY <1>0, Boot!Hears(word, reply), HearsCases
<1>8. /\ loader' = [ loader EXCEPT !.expect = Boot!Passed(@) ]
      /\ SkipNext(h) \/ DummyNext(h) => reply = Filler
      /\ ValueNext(h) => reply = << "value", loader.cmd >>
      /\ SizeNext(h) => reply = << "size", 1 >>
  <2>1. CASE SkipNext(h)
    <3>1. Head(loader.expect) = "skip"
      BY ONLY <1>4, <1>5, <2>1
    <3> QED BY ONLY <1>5, <1>7, <2>1, <3>1, <1>4
  <2>2. CASE EchoNext(h)
    <3>1. Head(loader.expect) = "echo"
      BY ONLY <1>4, <1>5, <2>2
    <3> QED BY ONLY <1>5, <1>6, <1>7, <2>2, <3>1, <1>4
  <2>3. CASE DummyNext(h)
    <3>1. Head(loader.expect) = "dummy"
      BY ONLY <1>4, <1>5, <2>3
    <3> QED BY ONLY <1>5, <1>7, <2>3, <3>1, <1>4
  <2>4. CASE ValueNext(h)
    <3>1. Head(loader.expect) = "version"
      BY ONLY <1>4, <1>5, <2>4
    <3> QED BY ONLY <1>5, <1>7, <2>4, <3>1, <1>4
  <2>5. CASE SizeNext(h)
    <3>1. Head(loader.expect) = "two"
      BY ONLY <1>4, <1>5, <2>5
    <3> QED BY ONLY <1>5, <1>7, <2>5, <3>1, <1>4
  <2> QED BY ONLY <2>1, <2>2, <2>3, <2>4, <2>5,
          SkipNext(h) \/ EchoNext(h) \/ DummyNext(h) \/ ValueNext(h) \/ SizeNext(h)
<1>9. ~(op.kind = "erase" /\ h = 4)
  <2>1. SUFFICES ASSUME op.kind = "erase", h = 4 PROVE FALSE
    OBVIOUS
  <2>2. Token(Whole[5]) = "count"
    BY ONLY <1>0, <2>1, CountComes
  <2>3. 4 + 1 = 5
    OBVIOUS
  <2> QED BY ONLY <1>5, <2>1, <2>2, <2>3,
          SkipNext(h) \/ EchoNext(h) \/ DummyNext(h) \/ ValueNext(h) \/ SizeNext(h)
<1>10. op.kind # "read" => h + 1 < n - 1 \/ h >= n - 1
  <2> SUFFICES ASSUME op.kind # "read" PROVE h + 1 < n - 1 \/ h >= n - 1
    OBVIOUS
  <2>1. CASE SkipNext(h)
    <3>1. h + 3 <= n
      BY ONLY <1>1, <2>1 DEF SkipNext
    <3> QED BY ONLY <1>2, <3>1, n \in Nat
  <2>2. CASE DummyNext(h) \/ ValueNext(h) \/ SizeNext(h)
    <3>1. h + 4 <= n
      BY ONLY <1>1, <2>2, op.kind # "read"
         DEF DummyNext, ValueNext, SizeNext, Inside
    <3> QED BY ONLY <1>2, <3>1, n \in Nat
  <2>3. CASE EchoNext(h)
    <3>1. Whole[h + 1] = EchoStep /\ EchoStep # PollStep
      BY ONLY <2>3, TokenIs DEF EchoNext
    <3>2. Whole[n - 1] = PollStep
      BY ONLY <1>0, <1>1, op.kind # "read", n \in Nat, LastStep
    <3>3. h + 1 # n - 1
      BY ONLY <3>1, <3>2
    <3>4. h + 1 < n - 1 \/ h + 1 = n - 1 \/ h >= n - 1
      BY ONLY <1>2, n \in Nat
    <3> QED BY ONLY <3>3, <3>4
  <2> QED BY ONLY <2>1, <2>2, <2>3,
          SkipNext(h) \/ EchoNext(h) \/ DummyNext(h) \/ ValueNext(h) \/ SizeNext(h)
<1>11. LoaderIs(loader', h + 1) /\ loader'.lost = loader.lost
       /\ loader'.wrong = loader.wrong
  BY ONLY <1>0, <1>1, <1>2, <1>3, <1>8, <1>9, <1>10, n \in Nat, PassesOn
<1>12. loader.cmd = calls
  BY ONLY <1>0, <1>2 DEF LoaderIs
<1> QED BY ONLY <1>0, <1>8, <1>11, <1>12 DEF Sane

\* It hears a poll: it answers that it waits, that it agrees, or that it refuses.
LEMMA PollHears ==
    ASSUME NEW h, Ready(h), NEW word, NEW reply, Boot!Hears(word, reply), PollNext(h)
    PROVE  /\ Sane(loader')
           /\ \/ reply = Boot!Ack /\ LoaderIs(loader', h + 1)
              \/ reply = Boot!Nack /\ loader'.expect = << "echo" >>
              \/ reply = Boot!Wait /\ LoaderIs(loader', h)
<1>0. /\ op \in Boot!Operations /\ calls \in Nat /\ h \in 0 .. Len(Whole) - 1
      /\ LoaderIs(loader, h) /\ DOMAIN loader = LoaderFields
      /\ ~loader.lost /\ ~loader.wrong
  BY ONLY Ready(h) DEF Ready, Sane
<1>1. PICK n \in Nat : n = Len(Whole)
  BY ONLY <1>0, StepKnown
<1>2. /\ h > 1 /\ h + 2 <= n /\ Whole[h + 1] = PollStep
      /\ Gone(h + 1) = Gone(h) /\ Agreed(h + 1) = Gone(h)
      /\ h + 2 = n => Gone(h) = Len(Told)
  BY ONLY <1>1, PollNext(h) DEF PollNext
<1>3. h \in 1 .. n - 1 /\ h + 1 < n /\ h + 1 > 0 /\ h > 0
  <2>1. h \in 0 .. n - 1
    BY ONLY <1>0, <1>1
  <2> QED BY ONLY <1>2, <2>1, n \in Nat
<1>4. Head(loader.expect) = "poll"
  <2>1. Head(loader.expect) = Token(Whole[h + 1])
    BY ONLY <1>0, <1>1, <1>3, n \in Nat, HeadAwaited
  <2> QED BY ONLY <1>2, <2>1, TokenIs
<1>5. Boot!AnswersPoll(reply)
  BY ONLY <1>0, <1>4, Boot!Hears(word, reply), HearsCases
<1>6. CASE reply = Boot!Wait /\ loader' = loader
  BY ONLY <1>0, <1>6 DEF Sane
<1>7. CASE /\ reply = Boot!Nack
           /\ loader' = [ loader EXCEPT !.expect = << "echo" >>, !.part = << >>,
                                        !.wrong = FALSE ]
  <2>1. loader'.expect = << "echo" >> /\ loader'.lost = loader.lost /\ ~loader'.wrong
    BY ONLY <1>0, <1>7 DEF LoaderFields
  <2> QED BY ONLY <1>0, <1>7, <2>1 DEF Sane
<1>8. CASE /\ reply = Boot!Ack
           /\ loader' = [ loader EXCEPT
                            !.expect = Tail(@), !.part = << >>,
                            !.did = IF loader.expect = << "poll", "echo" >>
                                    THEN << loader.kind, loader.cmd, loader.got >>
                                    ELSE @ ]
  <2>1. /\ loader'.expect = Tail(loader.expect) /\ loader'.part = << >>
        /\ loader'.got = loader.got /\ loader'.kind = loader.kind
        /\ loader'.cmd = loader.cmd /\ loader'.lost = loader.lost
        /\ loader'.wrong = loader.wrong
        /\ loader.expect = << "poll", "echo" >> =>
              loader'.did = << loader.kind, loader.cmd, loader.got >>
    BY ONLY <1>0, <1>8 DEF LoaderFields
  <2>2. /\ loader.kind = op.kind /\ loader.cmd = calls
        /\ loader.got = SubSeq(Told, 1, Gone(h)) /\ loader.expect = Awaited(h)
    BY ONLY <1>0, <1>3 DEF LoaderIs
  <2>3. ~(op.kind = "erase" /\ h = 4)
    <3>1. SUFFICES ASSUME op.kind = "erase", h = 4 PROVE FALSE
      OBVIOUS
    <3>2. Token(Whole[5]) = "count" /\ 4 + 1 = 5
      BY ONLY <1>0, <3>1, CountComes
    <3>3. Token(Whole[5]) = "poll"
      BY ONLY <1>2, <3>1, <3>2, TokenIs
    <3> QED BY ONLY <3>2, <3>3
  <2>4. Tail(Awaited(h)) = Awaited(h + 1)
    BY ONLY <1>0, <1>1, <1>3, <2>3, n \in Nat, AwaitedNext
  <2>5. SubSeq(Told, Agreed(h + 1) + 1, Gone(h + 1)) = << >>
    <3>1. Gone(h) \in Nat
      <4>1. CASE Told = << >>
        BY ONLY <4>1, NothingGone
      <4>2. CASE Told # << >>
        <5>1. Len(Told) \in Nat \ { 0 }
          <6>1. PICK S : Told \in Seq(S)
            BY <1>0, ToldIs
          <6> HIDE DEF Told
          <6>2. Len(Told) \in Nat /\ (Len(Told) = 0 => Told = << >>)
            BY ONLY <6>1, EmptySeq, LenProperties
          <6> QED BY ONLY <4>2, <6>2
        <5>2. PICK m \in Nat : m = Len(Told)
          BY ONLY <5>1
        <5>3. h \in Nat
          BY ONLY <1>3, n \in Nat
        <5>4. /\ h < 5 => Gone(h) = 0
              /\ h \in 5 .. 9 => Gone(h) = 1
              /\ h >= 10 /\ h - 8 < m => Gone(h) = h - 8
              /\ h >= 10 /\ h - 8 >= m => Gone(h) = m
          BY ONLY <5>1, <5>2, <5>3, GoneIs
        <5> QED BY ONLY <5>3, <5>4, m \in Nat
      <4> QED BY ONLY <4>1, <4>2
    <3>2. SubSeq(Told, Gone(h) + 1, Gone(h)) = << >>
      BY ONLY <3>1, PartNone
    <3> QED BY ONLY <1>2, <3>2
  <2>6. h + 1 >= n - 1 => loader'.did = << op.kind, calls, Told >>
    <3> SUFFICES ASSUME h + 1 >= n - 1 PROVE loader'.did = << op.kind, calls, Told >>
      OBVIOUS
    <3>1. h + 2 = n
      BY ONLY <1>2, <1>3, h + 1 >= n - 1, n \in Nat
    <3>2. Awaited(h) = << "poll", "echo" >>
      BY ONLY <1>0, <1>1, <1>3, <3>1, n \in Nat, PollNext(h), PollShort
    <3>3. loader.got = Told
      <4>1. PICK S : Told \in Seq(S)
        BY <1>0, ToldIs
      <4>2. SubSeq(Told, 1, Len(Told)) = Told
        BY ONLY <4>1, PartAll
      <4> QED BY ONLY <1>2, <2>2, <3>1, <4>2
    <3> QED BY ONLY <2>1, <2>2, <3>2, <3>3
  <2>7. LoaderIs(loader', h + 1)
    BY ONLY <1>1, <1>2, <2>1, <2>2, <2>4, <2>5, <2>6 DEF LoaderIs
  <2> QED BY ONLY <1>0, <1>8, <2>1, <2>7 DEF Sane
<1> QED BY ONLY <1>5, <1>6, <1>7, <1>8 DEF Boot!AnswersPoll

\* It hears the frame of a call.
LEMMA FrameHears ==
    ASSUME NEW h, Ready(h), NEW word, NEW reply, Boot!Hears(word, reply),
           word = Whole[h + 1].v, FrameNext(h)
    PROVE  Sane(loader') /\ LoaderIs(loader', h + 1)
<1>0. /\ op \in Boot!Operations /\ calls \in Nat
      /\ LoaderIs(loader, h) /\ DOMAIN loader = LoaderFields
      /\ ~loader.lost /\ ~loader.wrong
  BY ONLY Ready(h) DEF Ready, Sane
<1>1. PICK n \in Nat : n = Len(Whole)
  BY ONLY <1>0, StepKnown
<1>2. n > 8
  BY ONLY <1>0, <1>1, StepKnown
<1>3. h = 0 /\ word = << "frame", op.kind, calls >>
  <2>1. h = 0 /\ Whole[h + 1] = Boot!Step("frame", << "frame", op.kind, calls >>)
    BY ONLY FrameNext(h) DEF FrameNext
  <2> QED BY ONLY <2>1, word = Whole[h + 1].v, StepIs
<1>4. loader.expect = << "frame" >>
  BY ONLY <1>0, <1>3 DEF LoaderIs, Awaited
<1>5. Head(<< "frame" >>) = "frame"
  OBVIOUS
<1>6. word[1] = "frame" /\ word[2] = op.kind /\ word[3] = calls
  BY ONLY <1>3
<1>7. Head(loader.expect) = "frame" /\ word[1] = "frame" =>
                    loader' = [ loader EXCEPT
                                  !.expect = Boot!Acknowledged \o Boot!Wanted(word[2]),
                                  !.kind = word[2], !.cmd = word[3],
                                  !.part = << >>, !.got = << >>, !.did = << >> ]
  BY ONLY <1>0, Boot!Hears(word, reply), HearsCases
<1>8. loader' = [ loader EXCEPT !.expect = Boot!Acknowledged \o Boot!Wanted(op.kind),
                                !.kind = op.kind, !.cmd = calls,
                                !.part = << >>, !.got = << >>, !.did = << >> ]
  BY ONLY <1>4, <1>5, <1>6, <1>7
<1>9. Boot!Acknowledged \o Boot!Wanted(op.kind) = Awaited(1)
  BY ONLY <1>0, FirstAwaited
<1>10. /\ loader'.expect = Awaited(1) /\ loader'.kind = op.kind /\ loader'.cmd = calls
       /\ loader'.part = << >> /\ loader'.got = << >>
       /\ loader'.lost = loader.lost /\ loader'.wrong = loader.wrong
  BY ONLY <1>0, <1>8, <1>9 DEF LoaderFields
<1>11. Gone(1) = 0 /\ Agreed(1) = 0
  BY DEF Gone, Agreed
<1>12. SubSeq(Told, 1, Gone(1)) = << >> /\ SubSeq(Told, Agreed(1) + 1, Gone(1)) = << >>
  <2>1. SubSeq(Told, 0 + 1, 0) = << >>
    BY ONLY 0 \in Nat, PartNone
  <2>2. 0 + 1 = 1
    OBVIOUS
  <2> QED BY ONLY <1>11, <2>1, <2>2
<1>13. ~(1 >= n - 1)
  BY ONLY <1>2, n \in Nat
<1>14. LoaderIs(loader', 1)
  BY ONLY <1>1, <1>10, <1>12, <1>13 DEF LoaderIs
<1>15. h + 1 = 1
  BY ONLY <1>3
<1> QED BY ONLY <1>0, <1>10, <1>14, <1>15 DEF Sane

\* How much it has been told is a number.
LEMMA GoneNat ==
    ASSUME op \in Boot!Operations, calls \in Nat, NEW h \in Nat
    PROVE  Gone(h) \in Nat /\ Agreed(h) \in Nat
<1>1. CASE Told = << >>
  BY ONLY <1>1, NothingGone
<1>2. CASE Told # << >>
  <2>1. Len(Told) \in Nat \ { 0 }
    <3>1. PICK S : Told \in Seq(S)
      BY ToldIs
    <3>2. Len(Told) \in Nat /\ (Len(Told) = 0 => Told = << >>)
      BY ONLY <3>1, EmptySeq, LenProperties
    <3> QED BY ONLY <1>2, <3>2
  <2>2. PICK m \in Nat : m = Len(Told)
    BY ONLY <2>1
  <2>3. /\ h < 5 => Gone(h) = 0
        /\ h \in 5 .. 9 => Gone(h) = 1
        /\ h >= 10 /\ h - 8 < m => Gone(h) = h - 8
        /\ h >= 10 /\ h - 8 >= m => Gone(h) = m
        /\ h < 8 => Agreed(h) = 0
        /\ h >= 8 /\ h < 11 + m => Agreed(h) = 1
        /\ h >= 11 + m => Agreed(h) = m
    BY ONLY <2>1, <2>2, h \in Nat, GoneIs
  <2> QED BY ONLY <2>3, m \in Nat, h \in Nat
<1> QED BY ONLY <1>1, <1>2

\* It hears a checksum, and it is right.
LEMMA SumHears ==
    ASSUME NEW h, Ready(h), NEW word, NEW reply, Boot!Hears(word, reply),
           word = Whole[h + 1].v, SumNext(h)
    PROVE  Sane(loader') /\ LoaderIs(loader', h + 1)
<1>0. /\ op \in Boot!Operations /\ calls \in Nat /\ h \in 0 .. Len(Whole) - 1
      /\ LoaderIs(loader, h) /\ DOMAIN loader = LoaderFields
      /\ ~loader.lost /\ ~loader.wrong
  BY ONLY Ready(h) DEF Ready, Sane
<1>1. PICK n \in Nat : n = Len(Whole)
  BY ONLY <1>0, StepKnown
<1>2. /\ Inside(h) /\ Still(h)
      /\ Says(Whole[h + 1], Boot!Sum(HasLength(Covers(h)), Covers(h)))
  BY ONLY SumNext(h) DEF SumNext
<1>3. h \in 1 .. n - 1 /\ h + 1 < n /\ h > 0 /\ (op.kind # "read" => h + 4 <= n)
  <2>1. h > 0 /\ h + 1 < n /\ (op.kind # "read" => h + 4 <= n)
    BY ONLY <1>1, <1>2 DEF Inside
  <2>2. h \in 0 .. n - 1
    BY ONLY <1>0, <1>1
  <2> QED BY ONLY <2>1, <2>2, n \in Nat
<1>4. /\ word = Boot!Sum(HasLength(Covers(h)), Covers(h))
      /\ Token(Whole[h + 1]) = "sum"
  <2>1. Whole[h + 1].v = Boot!Sum(HasLength(Covers(h)), Covers(h))
    BY ONLY <1>2 DEF Says
  <2> QED BY ONLY <1>2, <2>1, word = Whole[h + 1].v, TokenIs
<1>5. Head(loader.expect) = "sum"
  <2>1. Head(loader.expect) = Token(Whole[h + 1])
    BY ONLY <1>0, <1>1, <1>3, n \in Nat, HeadAwaited
  <2> QED BY ONLY <1>4, <2>1
<1> DEFINE on == [ loader EXCEPT !.expect = Boot!Passed(@) ]
<1>6. loader' = [ on EXCEPT !.wrong = word # Boot!Expected ]
  <2>1. Head(loader.expect) = "sum" =>
          loader' = [ [ loader EXCEPT !.expect = Boot!Passed(@) ]
                        EXCEPT !.wrong = word # Boot!Expected ]
    BY ONLY <1>0, Boot!Hears(word, reply), HearsCases
  <2> QED BY ONLY <1>5, <2>1
<1>7. Boot!Expected = word
  <2>1. loader.part = Covers(h)
    BY ONLY <1>0, <1>3 DEF LoaderIs, Covers
  <2> HIDE DEF Covers
  <2>2. Boot!Expected = Boot!Sum(HasLength(loader.part), loader.part)
    BY ONLY DEF Boot!Expected, HasLength
  <2> QED BY ONLY <1>4, <2>1, <2>2
<1>8. ~(op.kind = "erase" /\ h = 4)
  <2>1. SUFFICES ASSUME op.kind = "erase", h = 4 PROVE FALSE
    OBVIOUS
  <2>2. Token(Whole[5]) = "count" /\ 4 + 1 = 5
    BY ONLY <1>0, <2>1, CountComes
  <2> QED BY ONLY <1>4, <2>1, <2>2
<1>9. op.kind # "read" => h + 1 < n - 1 \/ h >= n - 1
  BY ONLY <1>3, n \in Nat
<1>10. /\ loader'.expect = Boot!Passed(loader.expect)
       /\ loader'.kind = loader.kind /\ loader'.cmd = loader.cmd
       /\ loader'.got = loader.got /\ loader'.part = loader.part
       /\ loader'.did = loader.did /\ loader'.lost = loader.lost /\ ~loader'.wrong
  <2>1. /\ on.expect = Boot!Passed(loader.expect)
        /\ on.kind = loader.kind /\ on.cmd = loader.cmd
        /\ on.got = loader.got /\ on.part = loader.part
        /\ on.did = loader.did /\ on.lost = loader.lost /\ DOMAIN on = LoaderFields
    BY ONLY <1>0 DEF LoaderFields, on
  <2> HIDE DEF on
  <2>2. (word # Boot!Expected) = FALSE
    BY ONLY <1>7
  <2>3. loader' = [ on EXCEPT !.wrong = FALSE ]
    BY ONLY <1>6, <2>2
  <2> QED BY ONLY <2>1, <2>3 DEF LoaderFields
<1>11. loader'.expect = Awaited(h + 1)
  <2>1. loader.expect = Awaited(h)
    BY ONLY <1>0 DEF LoaderIs
  <2>2. Boot!Passed(Awaited(h)) = Awaited(h + 1)
    BY ONLY <1>0, <1>1, <1>3, <1>8, n \in Nat, AwaitedNext
  <2> QED BY ONLY <1>10, <2>1, <2>2
<1>12. LoaderIs(loader', h + 1)
  BY ONLY <1>0, <1>1, <1>2, <1>3, <1>9, <1>10, <1>11, n \in Nat, GoesOn
<1> QED BY ONLY <1>0, <1>10, <1>12 DEF Sane

\* It hears a part of what it is to be told.
LEMMA TellHears ==
    ASSUME NEW h, Ready(h), NEW word, NEW reply, Boot!Hears(word, reply),
           word = Whole[h + 1].v, TellNext(h)
    PROVE  Sane(loader') /\ LoaderIs(loader', h + 1)
<1>0. /\ op \in Boot!Operations /\ calls \in Nat /\ h \in 0 .. Len(Whole) - 1
      /\ LoaderIs(loader, h) /\ DOMAIN loader = LoaderFields
      /\ ~loader.lost /\ ~loader.wrong
  BY ONLY Ready(h) DEF Ready, Sane
<1>1. PICK n \in Nat : n = Len(Whole)
  BY ONLY <1>0, StepKnown
<1>2. /\ Inside(h) /\ Gone(h) < Len(Told) /\ Says(Whole[h + 1], Told[Gone(h) + 1])
      /\ Gone(h + 1) = Gone(h) + 1 /\ Agreed(h + 1) = Agreed(h)
      /\ Agreed(h) <= Gone(h)
      /\ (Told[Gone(h) + 1][1] = "count" <=> op.kind = "erase" /\ h = 4)
      /\ Told[Gone(h) + 1][1] \in ToldNames
  BY ONLY TellNext(h) DEF TellNext
<1>3. h \in 1 .. n - 1 /\ h + 1 < n /\ h > 0 /\ (op.kind # "read" => h + 4 <= n)
  <2>1. h > 0 /\ h + 1 < n /\ (op.kind # "read" => h + 4 <= n)
    BY ONLY <1>1, <1>2 DEF Inside
  <2>2. h \in 0 .. n - 1
    BY ONLY <1>0, <1>1
  <2> QED BY ONLY <2>1, <2>2, n \in Nat
<1>4. word = Told[Gone(h) + 1] /\ Token(Whole[h + 1]) = word[1]
  <2>1. word = Told[Gone(h) + 1]
    BY ONLY <1>2, word = Whole[h + 1].v DEF Says
  <2>2. word[1] # "zero"
    BY ONLY <1>2, <2>1 DEF ToldNames
  <2> QED BY ONLY <1>2, <2>1, <2>2, TokenIs
<1>5. Head(loader.expect) = word[1] /\ word[1] \in ToldNames
  <2>1. Head(loader.expect) = Token(Whole[h + 1])
    BY ONLY <1>0, <1>1, <1>3, n \in Nat, HeadAwaited
  <2> QED BY ONLY <1>2, <1>4, <2>1
<1> DEFINE on == [ loader EXCEPT !.expect = Boot!Passed(@) ]
<1>6. loader' = [ on EXCEPT
                    !.expect = IF word[1] = "count"
                               THEN @ \o Boot!WantedBehind(word[2]) ELSE @,
                    !.part = Append(@, word), !.got = Append(@, word) ]
  <2>1. LET e == Head(loader.expect)
            o == [ loader EXCEPT !.expect = Boot!Passed(@) ]
        IN  e \in ToldNames /\ word[1] = e =>
              loader' = [ o EXCEPT
                            !.expect = IF e = "count"
                                       THEN @ \o Boot!WantedBehind(word[2]) ELSE @,
                            !.part = Append(@, word), !.got = Append(@, word) ]
    BY ONLY <1>0, Boot!Hears(word, reply), HearsCases
  <2> QED BY ONLY <1>5, <2>1
<1>7. /\ on.expect = Boot!Passed(loader.expect)
      /\ on.kind = loader.kind /\ on.cmd = loader.cmd
      /\ on.got = loader.got /\ on.part = loader.part /\ on.wrong = loader.wrong
      /\ on.did = loader.did /\ on.lost = loader.lost /\ DOMAIN on = LoaderFields
  BY ONLY <1>0 DEF LoaderFields, on
<1>8. /\ loader'.expect = IF word[1] = "count"
                          THEN Boot!Passed(loader.expect) \o Boot!WantedBehind(word[2])
                          ELSE Boot!Passed(loader.expect)
      /\ loader'.kind = loader.kind /\ loader'.cmd = loader.cmd
      /\ loader'.got = Append(loader.got, word)
      /\ loader'.part = Append(loader.part, word)
      /\ loader'.lost = loader.lost /\ loader'.wrong = loader.wrong
  <2> HIDE DEF on
  <2> QED BY ONLY <1>6, <1>7 DEF LoaderFields
<1>9. loader.expect = Awaited(h) /\ loader.kind = op.kind /\ loader.cmd = calls
      /\ loader.got = SubSeq(Told, 1, Gone(h))
      /\ loader.part = SubSeq(Told, Agreed(h) + 1, Gone(h))
  BY ONLY <1>0, <1>3 DEF LoaderIs
<1>10. loader'.expect = Awaited(h + 1)
  <2>1. CASE op.kind = "erase" /\ h = 4
    <3>1. word[1] = "count"
      BY ONLY <1>2, <1>4, <2>1
    <3>2. Boot!Passed(Awaited(h)) = SubSeq(Tokens, 6, 9)
      BY ONLY <1>0, <1>1, <1>3, <2>1, n \in Nat, AwaitedNext
    <3>3. SubSeq(Tokens, 6, 9) \o Boot!WantedBehind(Told[1][2]) = Awaited(5)
      BY ONLY <1>0, <2>1, CountAwaited
    <3>4. word = Told[1]
      <4>1. Gone(4) = 0
        BY DEF Gone
      <4>2. 0 + 1 = 1
        OBVIOUS
      <4> QED BY ONLY <1>4, <2>1, <4>1, <4>2
    <3>5. 4 + 1 = 5
      OBVIOUS
    <3> QED BY ONLY <1>8, <1>9, <2>1, <3>1, <3>2, <3>3, <3>4, <3>5
  <2>2. CASE ~(op.kind = "erase" /\ h = 4)
    <3>1. word[1] # "count"
      BY ONLY <1>2, <1>4, <2>2
    <3>2. Boot!Passed(Awaited(h)) = Awaited(h + 1)
      BY ONLY <1>0, <1>1, <1>3, <2>2, n \in Nat, AwaitedNext
    <3> QED BY ONLY <1>8, <1>9, <3>1, <3>2
  <2> QED BY ONLY <2>1, <2>2
<1>11. /\ Append(SubSeq(Told, 1, Gone(h)), Told[Gone(h) + 1])
             = SubSeq(Told, 1, Gone(h) + 1)
       /\ Append(SubSeq(Told, Agreed(h) + 1, Gone(h)), Told[Gone(h) + 1])
             = SubSeq(Told, Agreed(h) + 1, Gone(h) + 1)
  <2>1. PICK S : Told \in Seq(S)
    BY <1>0, ToldIs
  <2>2. Gone(h) \in Nat /\ Agreed(h) \in Nat
    <3>1. h \in Nat
      BY ONLY <1>3, n \in Nat
    <3> QED BY ONLY <1>0, <3>1, GoneNat
  <2>3. PICK g \in Nat : g = Gone(h)
    BY ONLY <2>2
  <2>4. PICK a \in Nat : a = Agreed(h)
    BY ONLY <2>2
  <2>5. g < Len(Told) /\ a <= g
    BY ONLY <1>2, <2>3, <2>4
  <2>6. a + 1 \in Nat \ { 0 } /\ a + 1 <= g + 1 /\ 1 \in Nat \ { 0 } /\ 1 <= g + 1
    BY ONLY <2>5, a \in Nat, g \in Nat
  <2>7. Append(SubSeq(Told, 1, g), Told[g + 1]) = SubSeq(Told, 1, g + 1)
    BY ONLY <2>1, <2>5, <2>6, g \in Nat, PartGrows
  <2>8. Append(SubSeq(Told, a + 1, g), Told[g + 1]) = SubSeq(Told, a + 1, g + 1)
    BY ONLY <2>1, <2>5, <2>6, g \in Nat, PartGrows
  <2> QED BY ONLY <2>3, <2>4, <2>7, <2>8
<1>12. /\ loader'.got = SubSeq(Told, 1, Gone(h + 1))
       /\ loader'.part = SubSeq(Told, Agreed(h + 1) + 1, Gone(h + 1))
  BY ONLY <1>2, <1>4, <1>8, <1>9, <1>11
<1>13. ~(h + 1 >= n - 1 /\ op.kind # "read")
  BY ONLY <1>3, n \in Nat
<1>14. LoaderIs(loader', h + 1)
  BY ONLY <1>1, <1>8, <1>9, <1>10, <1>12, <1>13 DEF LoaderIs
<1> QED BY ONLY <1>0, <1>8, <1>14 DEF Sane

\* It sends what it is asked for.
LEMMA ReceiveSends ==
    ASSUME Readable, NEW h, Ready(h), ReceiveNext(h), NEW units, Boot!Sends(units),
           flight.n = Whole[h + 1].v
    PROVE  Sane(loader') /\ LoaderIs(loader', h + 1) /\ units = Bytes0(flight.n)
<1>0. /\ op \in Boot!Operations /\ calls \in Nat /\ h \in 0 .. Len(Whole) - 1
      /\ LoaderIs(loader, h) /\ DOMAIN loader = LoaderFields
      /\ ~loader.lost /\ ~loader.wrong
  BY ONLY Ready(h) DEF Ready, Sane
<1>1. PICK n \in Nat : n = Len(Whole)
  BY ONLY <1>0, StepKnown
<1>2. /\ Still(h)
      /\ \/ /\ h = 6 /\ op.kind = "id" /\ Whole[h + 1] = Boot!Step("receive", 2)
            /\ Inside(h)
         \/ /\ h = 15 /\ op.kind = "read" /\ Whole[h + 1] = Boot!Step("receive", op.n)
            /\ n = 16
  BY ONLY <1>1, ReceiveNext(h) DEF ReceiveNext
<1>3. h \in 1 .. n - 1 /\ h > 0
  <2>1. h \in 0 .. n - 1
    BY ONLY <1>0, <1>1
  <2> QED BY ONLY <1>2, <2>1, n \in Nat
<1>4. Token(Whole[h + 1]) = "receive"
  BY ONLY <1>2, TokenIs
<1>5. Head(loader.expect) = "receive"
  <2>1. Head(loader.expect) = Token(Whole[h + 1])
    BY ONLY <1>0, <1>1, <1>3, n \in Nat, HeadAwaited
  <2> QED BY ONLY <1>4, <2>1
<1>6. /\ units = Units(Boot!Stored, flight.n)
      /\ loader' = [ loader EXCEPT !.expect = Boot!Passed(@) ]
  <2>1. \A s, k : Boot!Units(s, k) = Units(s, k)
    BY ONLY SameLink
  <2> QED BY ONLY <1>0, <1>5, <2>1, Boot!Sends(units) DEF Boot!Sends
<1>7. ~(op.kind = "erase" /\ h = 4)
  BY ONLY <1>2
<1>8. op.kind # "read" => h + 1 < n - 1 \/ h >= n - 1
  <2> SUFFICES ASSUME op.kind # "read" PROVE h + 1 < n - 1
    OBVIOUS
  <2>1. h + 4 <= n
    BY ONLY <1>1, <1>2, op.kind # "read" DEF Inside
  <2> QED BY ONLY <1>3, <2>1, n \in Nat
<1>9. LoaderIs(loader', h + 1) /\ loader'.lost = loader.lost
      /\ loader'.wrong = loader.wrong
  BY ONLY <1>0, <1>1, <1>2, <1>3, <1>6, <1>7, <1>8, n \in Nat, PassesOn
<1>10. flight.n \in Nat /\ flight.n <= Window /\ Window \in Nat
  <2>1. Window \in Nat /\ Window >= 2
    BY ConstantsNat DEF Readable
  <2>2. flight.n = 2 \/ (op.kind = "read" /\ flight.n = op.n)
    BY ONLY <1>2, flight.n = Whole[h + 1].v, StepIs
  <2>3. op.kind = "read" => op.n \in Nat \ { 0 } /\ op.n \in Sizes
    BY ONLY <1>0, OpNumbers
  <2>4. op.kind = "read" => op.n \in 1 .. Window
    BY ONLY <2>3, Readable DEF Readable
  <2> QED BY ONLY <2>1, <2>2, <2>4
<1>11. loader.cmd = calls
  BY ONLY <1>0, <1>3 DEF LoaderIs
<1>12. Units(Boot!Stored, flight.n) = Bytes0(flight.n)
  <2> DEFINE st == Boot!Stored
             k == flight.n
  <2>1. Len(st) = Window /\ \A i \in 1 .. Window : st[i] = << "stored", calls, i >>
    BY ONLY <1>10, <1>11 DEF Boot!Stored, st
  <2> HIDE DEF st
  <2>2. k \in Nat /\ k <= Window /\ Window \in Nat
    BY ONLY <1>10 DEF k
  <2> HIDE DEF k
  <2>3. \A i \in 1 .. k : i \in 1 .. Window /\ i <= Len(st)
    BY ONLY <2>1, <2>2
  <2>4. \A i \in 1 .. k :
          (IF i <= Len(st) THEN st[i] ELSE Filler) = << "stored", calls, i >>
    BY ONLY <2>1, <2>3
  <2>5. Units(st, k) = Bytes0(k)
    BY ONLY <2>4 DEF Units, Bytes0
  <2> QED BY ONLY <2>5 DEF st, k
<1> QED BY ONLY <1>0, <1>6, <1>9, <1>12 DEF Sane

----------------------------------------------------------------------------
(***************************************************************************)
(* No step breaks the invariant.                                           *)
(***************************************************************************)
\* As long as the same call is in progress its script is the same, and what the boot
\* loader is to be told.
LEMMA ScriptStays ==
    ASSUME op' = op, calls' = calls
    PROVE  /\ Whole' = Whole /\ Told' = Told /\ Tokens' = Tokens
           /\ \A h : Gone(h)' = Gone(h) /\ Agreed(h)' = Agreed(h)
           /\ \A h : Awaited(h)' = Awaited(h)
<1>1. Whole' = Whole
  BY DEF Whole
<1>2. Told' = Told
  BY DEF Told
<1>3. Tokens' = Tokens
  BY <1>1 DEF Tokens
<1>4. \A h : Gone(h)' = Gone(h) /\ Agreed(h)' = Agreed(h)
  BY <1>2 DEF Gone, Agreed
<1>5. \A h : Awaited(h)' = Awaited(h)
  BY <1>1, <1>3 DEF Awaited, Horizon
<1> QED BY <1>1, <1>2, <1>3, <1>4, <1>5

\* Where it is, in these words.
LEMMA LoaderHere == ASSUME NEW h PROVE LoaderAt(h) <=> LoaderIs(loader, h)
BY ONLY DEF LoaderAt, LoaderIs

\* And where it will be, as long as the call in progress is the same.
LEMMA LoaderThere ==
    ASSUME op' = op, calls' = calls, NEW h
    PROVE  LoaderAt(h)' <=> LoaderIs(loader', h)
<1>1. /\ Whole' = Whole /\ Told' = Told /\ Gone(h)' = Gone(h) /\ Agreed(h)' = Agreed(h)
      /\ Awaited(h)' = Awaited(h)
  BY ONLY op' = op, calls' = calls, ScriptStays
<1> QED BY ONLY <1>1, op' = op, calls' = calls DEF LoaderAt, LoaderIs

\* What is asked for is not told, what is told is not asked for.
LEMMA WhatIs ==
    ASSUME NEW h
    PROVE  /\ SkipNext(h) => Whole[h + 1].what = "skip"
           /\ PollNext(h) => Whole[h + 1].what = "poll"
           /\ EchoNext(h) => Whole[h + 1].what = "echo"
           /\ FrameNext(h) => Whole[h + 1].what = "frame"
           /\ DummyNext(h) => Whole[h + 1].what = "exchange"
           /\ ValueNext(h) => Whole[h + 1].what = "value"
           /\ SizeNext(h) => Whole[h + 1].what = "size"
           /\ ReceiveNext(h) => Whole[h + 1].what = "receive"
           /\ TalkStep(h) => Whole[h + 1].what \in { "send", "exchange" }
BY ONLY StepIs
   DEF SkipNext, PollNext, EchoNext, FrameNext, DummyNext, ValueNext, SizeNext,
   ReceiveNext, TalkStep, TellNext, SumNext, Says

\* What the next step is tells what is known about it.
LEMMA NextIs ==
    ASSUME NEW h, Known(h)
    PROVE  LET what == Whole[h + 1].what
           IN  /\ what \in Whats \ { "refused" }
               /\ what = "skip" => SkipNext(h)
               /\ what = "poll" => PollNext(h)
               /\ what = "echo" => EchoNext(h)
               /\ what = "frame" => FrameNext(h)
               /\ what = "exchange" => DummyNext(h) \/ TalkStep(h)
               /\ what = "value" => ValueNext(h)
               /\ what = "size" => SizeNext(h)
               /\ what = "receive" => ReceiveNext(h)
               /\ what = "send" => TalkStep(h)
<1>1. \/ SkipNext(h) \/ PollNext(h) \/ EchoNext(h) \/ FrameNext(h) \/ DummyNext(h)
      \/ ValueNext(h) \/ SizeNext(h) \/ ReceiveNext(h) \/ TalkStep(h)
  BY ONLY Known(h) DEF Known, AckStep, DataStep
<1> QED BY ONLY <1>1, WhatIs DEF Whats

\* When the next step of the script has been in flight, it has been made.
LEMMA MakingEnds ==
    ASSUME Readable, TypeInv, Boot!TransferEnds, op \in Boot!Operations,
           NEW h \in 0 .. Len(Whole) - 1, Making(h), Sane(loader)
    PROVE  /\ ~Busy' /\ Sane(loader') /\ Made(h)' /\ device' = device
           /\ Whole[h + 1].what = "skip" => (rx[1 - idx])'[1] = Filler
<1>1. op' = op /\ calls' = calls /\ flight.dev = "MCU"
  BY ONLY Boot!TransferEnds DEF Boot!TransferEnds
<1>2. /\ Busy /\ flight.buf = 1 - idx /\ DOMAIN rx = { 0, 1 } /\ flight.buf \in { 0, 1 }
      /\ DOMAIN loader = LoaderFields /\ calls \in Nat
  BY ONLY <1>1, TypeInv, ConstantsNat
     DEF TypeInv, LinkInv, NoFlight, Flights, BootTypes,
     NativeTypes
<1>3. Ready(h)
  BY ONLY <1>2, h \in 0 .. Len(Whole) - 1, op \in Boot!Operations, Sane(loader),
          Making(h), LoaderHere DEF Ready, Making
<1>4. Known(h)
  BY ONLY <1>2, h \in 0 .. Len(Whole) - 1, op \in Boot!Operations, StepKnown
<1>5. ASSUME NEW received, Ends(received)
      PROVE  ~Busy' /\ (rx[1 - idx])' = received /\ device' = device
  <2>1. /\ rx' = [ rx EXCEPT ![1 - idx] = received ] /\ idx' = idx /\ flight' = NoFlight
        /\ device' = device
    BY ONLY <1>2, <1>5 DEF Ends
  <2> QED BY ONLY <1>2, <2>1 DEF Busy, NoFlight
<1>6. Whole' = Whole
  BY ONLY <1>1, ScriptStays
<1>7. \A j : LoaderAt(j)' <=> LoaderIs(loader', j)
  BY ONLY <1>1, LoaderThere
<1>8. CASE Whole[h + 1].what = "receive"
  <2>1. flight.mode = "read" /\ flight.n = Whole[h + 1].v
    BY ONLY <1>8, Making(h) DEF Making
  <2>2. PICK units : Boot!Sends(units) /\ Ends(units)
    BY ONLY <2>1, Boot!TransferEnds, SameLink DEF Boot!TransferEnds
  <2>3. ReceiveNext(h)
    BY ONLY <1>4, <1>8, NextIs
  <2>4. Sane(loader') /\ LoaderIs(loader', h + 1) /\ units = Bytes0(flight.n)
    BY ONLY Readable, <1>3, <2>1, <2>2, <2>3, ReceiveSends
  <2>5. ~Busy' /\ (rx[1 - idx])' = units /\ device' = device
    BY ONLY <1>5, <2>2
  <2>6. units = Bytes0(Whole[h + 1].v)
    BY ONLY <2>1, <2>4
  <2>7. \A k : Bytes0(k)' = Bytes0(k)
    BY ONLY <1>1 DEF Bytes0
  <2>8. Made(h)'
    BY ONLY <1>6, <1>7, <1>8, <2>4, <2>5, <2>6, <2>7 DEF Made
  <2> QED BY ONLY <1>8, <2>4, <2>5, <2>8
<1>9. CASE Whole[h + 1].what # "receive"
  <2>1. flight.mode \in { "write", "exchange" } /\ tx[flight.buf] = Whole[h + 1].v
    BY ONLY <1>9, Making(h) DEF Making, Carries
  <2>2. PICK reply : Boot!Hears(tx[flight.buf], reply) /\ Ends(<< reply >>)
    BY ONLY <2>1, Boot!TransferEnds, SameLink DEF Boot!TransferEnds
  <2>3. ~Busy' /\ (rx[1 - idx])' = << reply >> /\ device' = device
    BY ONLY <1>5, <2>2
  <2>4. (rx[1 - idx])'[1] = reply
    BY ONLY <2>3
  <2> DEFINE word == tx[flight.buf]
  <2>5. Boot!Hears(word, reply) /\ word = Whole[h + 1].v
    BY ONLY <2>1, <2>2
  <2> HIDE DEF word
  <2>6. CASE Whole[h + 1].what = "poll"
    <3>1. PollNext(h)
      BY ONLY <1>4, <2>6, NextIs
    <3>2. /\ Sane(loader')
          /\ \/ reply = Boot!Ack /\ LoaderIs(loader', h + 1)
             \/ reply = Boot!Nack /\ loader'.expect = << "echo" >>
             \/ reply = Boot!Wait /\ LoaderIs(loader', h)
      BY ONLY <1>3, <2>5, <3>1, PollHears
    <3>3. Made(h)'
      BY ONLY <1>6, <1>7, <2>4, <2>6, <3>2, Replies DEF Made, ExpectsEcho, Boot!Ack,
              Boot!Nack
    <3> QED BY ONLY <2>3, <2>6, <3>2, <3>3
  <2>7. CASE Whole[h + 1].what # "poll"
    <3>1. /\ Sane(loader') /\ LoaderIs(loader', h + 1)
          /\ Whole[h + 1].what = "value" => reply = << "value", calls >>
          /\ Whole[h + 1].what = "size" => reply = << "size", 1 >>
          /\ Whole[h + 1].what = "skip" => reply = Filler
      <4>1. CASE SkipNext(h) \/ EchoNext(h) \/ DummyNext(h) \/ ValueNext(h)
                 \/ SizeNext(h)
        <5>1. /\ Sane(loader') /\ LoaderIs(loader', h + 1)
              /\ ValueNext(h) => reply = << "value", calls >>
              /\ SizeNext(h) => reply = << "size", 1 >>
              /\ SkipNext(h) => reply = Filler
          BY ONLY <1>3, <2>5, <4>1, PlainHears
        <5> QED BY ONLY <1>4, <5>1, NextIs
      <4>2. CASE FrameNext(h)
        <5>1. Sane(loader') /\ LoaderIs(loader', h + 1)
          BY ONLY <1>3, <2>5, <4>2, FrameHears
        <5> QED BY ONLY <4>2, <5>1, WhatIs
      <4>3. CASE TellNext(h)
        <5>1. Sane(loader') /\ LoaderIs(loader', h + 1)
          BY ONLY <1>3, <2>5, <4>3, TellHears
        <5> QED BY ONLY <4>3, <5>1, WhatIs DEF TalkStep
      <4>4. CASE SumNext(h)
        <5>1. Sane(loader') /\ LoaderIs(loader', h + 1)
          BY ONLY <1>3, <2>5, <4>4, SumHears
        <5> QED BY ONLY <4>4, <5>1, WhatIs DEF TalkStep
      <4>5. ~PollNext(h) /\ ~ReceiveNext(h)
        BY ONLY <1>9, <2>7, WhatIs
      <4> QED BY ONLY <1>4, <4>1, <4>2, <4>3, <4>4, <4>5
              DEF Known, AckStep, DataStep, TalkStep
    <3>2. Made(h)'
      BY ONLY <1>1, <1>6, <1>7, <1>9, <2>4, <2>7, <3>1 DEF Made
    <3> QED BY ONLY <2>3, <2>4, <3>1, <3>2
  <2> QED BY ONLY <2>6, <2>7
<1> QED BY ONLY <1>8, <1>9

\* Nothing is polled right before a byte is skipped.
LEMMA SkipBehind ==
    ASSUME op \in Boot!Operations, calls \in Nat, NEW n \in Nat, n = Len(Whole),
           NEW j \in 2 .. n, Whole[j].what = "skip"
    PROVE  Whole[j - 1].what # "poll"
<1> SUFFICES ASSUME Whole[j - 1].what = "poll" PROVE FALSE
  OBVIOUS
<1>1. j - 2 \in 0 .. n - 1 /\ (j - 2) + 1 = j - 1 /\ (j - 2) + 2 = j
  BY ONLY n \in Nat, j \in 2 .. n
<1>2. Known(j - 2)
  BY ONLY <1>1, n = Len(Whole), op \in Boot!Operations, calls \in Nat, StepKnown
<1>3. PollNext(j - 2)
  BY ONLY <1>1, <1>2, Whole[j - 1].what = "poll", NextIs
<1>4. Whole[j] = EchoStep
  BY ONLY <1>1, <1>3 DEF PollNext
<1> QED BY ONLY <1>4, Whole[j].what = "skip", StepIs

\* The last word of a call, or of a refusal, has been in flight.
LEMMA EchoEnds ==
    ASSUME TypeInv, Boot!TransferEnds, Carries(Boot!Ack), ExpectsEcho, Sane(loader)
    PROVE  /\ ~Busy' /\ Sane(loader') /\ ExpectsFrame' /\ loader'.did = loader.did
           /\ device' = device
<1>1. /\ DOMAIN loader = LoaderFields /\ ~loader.lost /\ ~loader.wrong
      /\ flight.mode \in { "write", "exchange" } /\ tx[flight.buf] = Boot!Ack
  BY ONLY TypeInv, Carries(Boot!Ack), Sane(loader)
     DEF Carries, Sane, TypeInv, BootTypes
<1>2. PICK reply : Boot!Hears(Boot!Ack, reply) /\ Ends(<< reply >>)
  <2>1. PICK reply : Boot!Hears(tx[flight.buf], reply) /\ Ends(<< reply >>)
    BY ONLY <1>1, Boot!TransferEnds, SameLink DEF Boot!TransferEnds
  <2> QED BY ONLY <1>1, <2>1
<1>3. ~Busy' /\ device' = device
  BY ONLY <1>2 DEF Ends, Busy, NoFlight
<1>4. loader.expect = << "echo" >> /\ Head(loader.expect) = "echo"
  BY ONLY ExpectsEcho, Expectations DEF ExpectsEcho
<1> DEFINE word == Boot!Ack
<1>5. Head(loader.expect) = "echo" /\ word = Boot!Ack =>
          loader' = [ loader EXCEPT !.expect = Boot!Passed(@) ]
  <2>1. Boot!Hears(word, reply)
    BY ONLY <1>2
  <2> HIDE DEF word
  <2> QED BY ONLY <1>1, <2>1, HearsCases
<1>6. loader' = [ loader EXCEPT !.expect = Boot!Passed(@) ]
  BY ONLY <1>4, <1>5
<1>7. /\ loader'.expect = Boot!Passed(<< "echo" >>) /\ loader'.did = loader.did
      /\ loader'.lost = loader.lost /\ loader'.wrong = loader.wrong
  BY ONLY <1>1, <1>4, <1>6 DEF LoaderFields
<1>8. ExpectsFrame'
  BY ONLY <1>7, Expectations DEF ExpectsFrame
<1> QED BY ONLY <1>1, <1>3, <1>7, <1>8 DEF Sane

\* So has what was in flight when the routine is about to take a step.
LEMMA AboutEnds ==
    ASSUME Readable, TypeInv, Boot!TransferEnds, op \in Boot!Operations, Sane(loader),
           NEW j \in 0 .. Len(Whole) - 1, About(j)
    PROVE  Sane(loader') /\ About(j)'
<1>1. op' = op /\ calls' = calls /\ flight.dev = "MCU"
  BY ONLY Boot!TransferEnds DEF Boot!TransferEnds
<1>2. Busy /\ calls \in Nat
  BY ONLY <1>1, TypeInv, ConstantsNat DEF TypeInv, LinkInv, NoFlight, NativeTypes
<1>3. PICK n \in Nat : n = Len(Whole)
  BY ONLY <1>2, op \in Boot!Operations, StepKnown
<1>4. n > 8 /\ j \in 0 .. n - 1
  BY ONLY <1>2, <1>3, op \in Boot!Operations, StepKnown, j \in 0 .. Len(Whole) - 1
<1>5. Whole' = Whole
  BY ONLY <1>1, ScriptStays
<1>6. CASE j = 0
  <2>1. AtRest
    BY ONLY <1>6, About(j) DEF About
  <2>2. ExpectsEcho /\ Carries(Boot!Ack)
    BY ONLY <1>1, <1>2, <2>1 DEF AtRest
  <2>3. ~Busy' /\ Sane(loader') /\ ExpectsFrame'
    BY ONLY <2>2, TypeInv, Boot!TransferEnds, Sane(loader), EchoEnds
  <2> QED BY ONLY <1>6, <2>3 DEF About, AtRest
<1>7. CASE j > 0
  <2>1. /\ device = "MCU"
        /\ \/ Making(j - 1) /\ Whole[j].what \in { "frame", "send", "skip", "echo" }
           \/ j > 1 /\ Whole[j].what = "skip" /\ Making(j - 2)
    <3>1. j # 0
      BY ONLY <1>7
    <3> QED BY ONLY <1>2, <3>1, About(j) DEF About
  <2>2. CASE Making(j - 1) /\ Whole[j].what \in { "frame", "send", "skip", "echo" }
    <3>1. j - 1 \in 0 .. n - 1 /\ (j - 1) + 1 = j
      BY ONLY <1>4, <1>7, n \in Nat
    <3>2. ~Busy' /\ Sane(loader') /\ Made(j - 1)' /\ device' = device
      BY ONLY <1>3, <2>2, <3>1, Readable, TypeInv, Boot!TransferEnds,
              op \in Boot!Operations, Sane(loader), MakingEnds
    <3>3. LoaderAt(j)'
      BY ONLY <1>5, <2>2, <3>1, <3>2 DEF Made
    <3> QED BY ONLY <1>7, <2>1, <3>2, <3>3 DEF About
  <2>3. CASE j > 1 /\ Whole[j].what = "skip" /\ Making(j - 2)
    <3>1. j - 2 \in 0 .. n - 1 /\ (j - 2) + 1 = j - 1 /\ j \in 2 .. n
      BY ONLY <1>4, <2>3, n \in Nat
    <3>2. ~Busy' /\ Sane(loader') /\ Made(j - 2)' /\ device' = device
      BY ONLY <1>3, <2>3, <3>1, Readable, TypeInv, Boot!TransferEnds,
              op \in Boot!Operations, Sane(loader), MakingEnds
    <3>3. Whole[j - 1].what # "poll"
      BY ONLY <1>2, <1>3, <2>3, <3>1, n \in Nat, op \in Boot!Operations, SkipBehind
    <3>4. LoaderAt(j - 1)'
      BY ONLY <1>5, <3>1, <3>2, <3>3 DEF Made
    <3> QED BY ONLY <1>5, <1>7, <2>1, <2>3, <3>2, <3>4 DEF About
  <2> QED BY ONLY <2>1, <2>2, <2>3
<1> QED BY ONLY <1>4, <1>6, <1>7, n \in Nat

\* And when it waits for one.
LEMMA WaitsEnds ==
    ASSUME Readable, TypeInv, Boot!TransferEnds, op \in Boot!Operations, Sane(loader),
           NEW j \in 0 .. Len(Whole) - 1, Waits(j)
    PROVE  Sane(loader') /\ Waits(j)'
<1>1. op' = op /\ calls' = calls /\ flight.dev = "MCU"
  BY ONLY Boot!TransferEnds DEF Boot!TransferEnds
<1>2. Busy /\ calls \in Nat
  BY ONLY <1>1, TypeInv, ConstantsNat DEF TypeInv, LinkInv, NoFlight, NativeTypes
<1>3. PICK n \in Nat : n = Len(Whole)
  BY ONLY <1>2, op \in Boot!Operations, StepKnown
<1>4. n > 8 /\ j \in 0 .. n - 1
  BY ONLY <1>2, <1>3, op \in Boot!Operations, StepKnown, j \in 0 .. Len(Whole) - 1
<1>5. Whole' = Whole
  BY ONLY <1>1, ScriptStays
<1>6. /\ j > 0 /\ device = "MCU"
      /\ \/ Making(j)
         \/ Whole[j + 1].what = "poll" /\ Making(j - 1)
  BY ONLY <1>2, Waits(j) DEF Waits
<1>7. CASE Making(j)
  <2>1. ~Busy' /\ Sane(loader') /\ Made(j)' /\ device' = device
    BY ONLY <1>7, j \in 0 .. Len(Whole) - 1, Readable, TypeInv, Boot!TransferEnds,
            op \in Boot!Operations, Sane(loader), MakingEnds
  <2> QED BY ONLY <1>6, <2>1 DEF Waits
<1>8. CASE Whole[j + 1].what = "poll" /\ Making(j - 1)
  <2>1. j - 1 \in 0 .. n - 1 /\ (j - 1) + 1 = j
    BY ONLY <1>4, <1>6, n \in Nat
  <2>2. Whole[j].what = "skip"
    <3>1. Known(j)
      BY ONLY <1>2, op \in Boot!Operations, j \in 0 .. Len(Whole) - 1, StepKnown
    <3>2. PollNext(j)
      BY ONLY <1>8, <3>1, NextIs
    <3> QED BY ONLY <3>2, StepIs DEF PollNext
  <2>3. /\ ~Busy' /\ Sane(loader') /\ Made(j - 1)' /\ device' = device
        /\ (rx[1 - idx])'[1] = Filler
    BY ONLY <1>3, <1>8, <2>1, <2>2, Readable, TypeInv, Boot!TransferEnds,
            op \in Boot!Operations, Sane(loader), MakingEnds
  <2>4. LoaderAt(j)'
    BY ONLY <1>5, <2>1, <2>2, <2>3 DEF Made
  <2>5. Made(j)'
    BY ONLY <1>5, <1>8, <2>3, <2>4, Replies DEF Made, Boot!Ack, Boot!Nack
  <2> QED BY ONLY <1>6, <2>3, <2>5 DEF Waits
<1> QED BY ONLY <1>6, <1>7, <1>8

\* What has been received stays as long as nothing else is.
LEMMA DataStays ==
    ASSUME op' = op, calls' = calls, data' = data, NEW j
    PROVE  DataAt(j)' <=> DataAt(j)
<1>1. \A k : Bytes0(k)' = Bytes0(k)
  BY ONLY calls' = calls DEF Bytes0
<1> QED BY ONLY <1>1, op' = op, calls' = calls, data' = data DEF DataAt

\* The call that returned stays carried out.
LEMMA ExecutedStays ==
    ASSUME op' = op, calls' = calls, data' = data, loader'.did = loader.did, Executed
    PROVE  Executed'
<1>1. Whole' = Whole /\ Told' = Told
  BY ONLY op' = op, calls' = calls, ScriptStays
<1>2. \A k : DataAt(k)' <=> DataAt(k)
  BY ONLY op' = op, calls' = calls, data' = data, DataStays
<1>3. DataAt(Len(Whole))'
  <2>1. DataAt(Len(Whole))
    BY ONLY Executed DEF Executed
  <2>2. \A k : Bytes0(k)' = Bytes0(k)
    BY ONLY calls' = calls DEF Bytes0
  <2> QED BY ONLY <1>1, <2>1, <2>2, op' = op, calls' = calls, data' = data DEF DataAt
<1>4. op'.kind \in { "write", "erase", "jump" } =>
          loader'.did = << op'.kind, calls', Told' >>
  BY ONLY <1>1, Executed, op' = op, calls' = calls, loader'.did = loader.did
     DEF Executed
<1> QED BY ONLY <1>3, <1>4 DEF Executed

\* Where the two sides are in a call, once the routine's next step is given.
LEMMA CallIs ==
    ASSUME op' = op, calls' = calls, data' = data, todo' = todo, pc' = pc, InCall,
           Refused => Refused',
           \A j \in 0 .. Len(Whole) - 1 :
               /\ pc = "boot" /\ About(j) => About(j)'
               /\ pc = "boot_wait" /\ Waits(j) => Waits(j)'
    PROVE  InCall'
<1>1. Whole' = Whole
  BY ONLY op' = op, calls' = calls, ScriptStays
<1>2. CASE Refused
  BY ONLY <1>2, Refused => Refused' DEF InCall
<1>3. CASE ~Refused
  <2>1. PICK j \in 0 .. Len(Whole) - 1 :
            /\ todo = SubSeq(Whole, j + 1, Len(Whole)) /\ DataAt(j)
            /\ (pc = "boot" /\ About(j)) \/ (pc = "boot_wait" /\ Waits(j))
    BY ONLY <1>3, InCall DEF InCall
  <2>2. DataAt(j)'
    BY ONLY <2>1, op' = op, calls' = calls, data' = data, DataStays
  <2>3. (pc' = "boot" /\ About(j)') \/ (pc' = "boot_wait" /\ Waits(j)')
    BY ONLY <2>1, pc' = pc, \A k \in 0 .. Len(Whole) - 1 :
               /\ pc = "boot" /\ About(k) => About(k)'
               /\ pc = "boot_wait" /\ Waits(k) => Waits(k)'
  <2> QED BY ONLY <1>1, <2>1, <2>2, <2>3, todo' = todo DEF InCall
<1> QED BY ONLY <1>2, <1>3

\* A transfer for the MCU has ended.
LEMMA BootTransferEndsBoot ==
    ASSUME Readable, TypeInv, TypeInv', SyncInv', BootInv, runs = "loader",
           Boot!TransferEnds, UNCHANGED << nativeOnly, resetOnly >>
    PROVE  BootInv'
<1>1. /\ flight.dev = "MCU" /\ runs' = "loader"
      /\ UNCHANGED << pc, calls, op, todo, data, result, intact >>
  BY ONLY runs = "loader", Boot!TransferEnds, UNCHANGED resetOnly
     DEF Boot!TransferEnds, resetOnly
<1>2. Busy /\ calls \in Nat
  BY ONLY <1>1, TypeInv, ConstantsNat DEF TypeInv, LinkInv, NoFlight, NativeTypes
<1>3. /\ op.kind \in OpKinds => op \in Boot!Operations
      /\ pc \in BootPCs => op.kind \in OpKinds \cup { "reset" }
  BY ONLY BootInv DEF BootInv
<1>4. ASSUME intact
      PROVE  /\ Sane(loader')
             /\ pc \notin BootPCs => AtRest'
             /\ pc \in BootPCs /\ op.kind \in OpKinds => InCall'
             /\ pc = "idle" /\ op.kind \in OpKinds /\ result[1] \in { "true", "read" }
                   => Executed'
  <2>1. /\ Sane(loader)
        /\ pc \notin BootPCs => AtRest
        /\ pc \in BootPCs /\ op.kind \in OpKinds => InCall
        /\ pc = "idle" /\ op.kind \in OpKinds /\ result[1] \in { "true", "read" } =>
              Executed
    BY ONLY <1>4, runs = "loader", BootInv DEF BootInv, Sane
  <2>2. CASE pc \notin BootPCs
    <3>1. ExpectsEcho /\ Carries(Boot!Ack)
      BY ONLY <1>1, <1>2, <2>1, <2>2 DEF AtRest
    <3>2. ~Busy' /\ Sane(loader') /\ ExpectsFrame' /\ loader'.did = loader.did
      BY ONLY <2>1, <3>1, TypeInv, Boot!TransferEnds, EchoEnds
    <3>3. Executed => Executed'
      BY ONLY <1>1, <3>2, ExecutedStays
    <3> QED BY ONLY <2>1, <2>2, <3>2, <3>3 DEF AtRest
  <2>3. CASE pc \in BootPCs /\ op.kind \in OpKinds
    <3>0. op \in Boot!Operations
      BY ONLY <1>3, <2>3
    <3>1. pc # "idle"
      BY ONLY <2>3 DEF BootPCs
    <3>2. /\ Refused => Sane(loader') /\ Refused'
      <4>1. SUFFICES ASSUME Refused PROVE Sane(loader') /\ Refused'
        OBVIOUS
      <4>2. /\ todo = Refusing /\ device = "MCU" /\ pc = "boot_wait"
            /\ Carries(Boot!Ack) /\ ExpectsEcho
        BY ONLY <1>2, <4>1 DEF Refused
      <4>3. ~Busy' /\ Sane(loader') /\ ExpectsFrame' /\ device' = device
        BY ONLY <2>1, <4>2, TypeInv, Boot!TransferEnds, EchoEnds
      <4>4. todo' = Refusing'
        BY ONLY <1>1, <4>2 DEF Refusing
      <4> QED BY ONLY <1>1, <4>2, <4>3, <4>4 DEF Refused
    <3>3. \A j \in 0 .. Len(Whole) - 1 :
              /\ About(j) => Sane(loader') /\ About(j)'
              /\ Waits(j) => Sane(loader') /\ Waits(j)'
      BY ONLY <2>1, <3>0, Readable, TypeInv, Boot!TransferEnds, AboutEnds, WaitsEnds
    <3>4. InCall
      BY ONLY <2>1, <2>3
    <3>5. Sane(loader')
      BY ONLY <3>2, <3>3, <3>4 DEF InCall
    <3>6. InCall'
      BY ONLY <1>1, <3>2, <3>3, <3>4, CallIs
    <3> QED BY ONLY <2>3, <3>1, <3>5, <3>6
  <2>4. CASE pc \in BootPCs /\ op.kind = "reset"
    <3>1. Sane(loader')
      BY ONLY <1>1, <2>4, SyncInv' DEF SyncInv, Sane
    <3>2. pc # "idle" /\ op.kind \notin OpKinds
      BY ONLY <2>4 DEF BootPCs, OpKinds
    <3> QED BY ONLY <2>4, <3>1, <3>2
  <2> QED BY ONLY <1>3, <2>2, <2>3, <2>4
<1> QED BY ONLY <1>1, <1>3, <1>4 DEF BootInv, Sane

\* While no call of the boot loader's is in progress, whatever leaves it alone and
\* returns nothing of its.
LEMMA RestKept ==
    ASSUME TypeInv, TypeInv', BootInv, UNCHANGED << bootOnly, runs >>,
           pc \notin BootPCs,
           runs = "loader" =>
               /\ UNCHANGED << calls, intact >> /\ (AtRest => AtRest')
               /\ pc' = "idle" =>
                     (pc = "idle" /\ result' = result)
                     \/ result'[1] \notin { "true", "read" }
    PROVE  BootInv'
<1>1. UNCHANGED << op, todo, data, loader, runs >> /\ runs \in { "firmware", "loader" }
  BY ONLY TypeInv, UNCHANGED << bootOnly, runs >> DEF bootOnly, TypeInv, ResetTypes
<1>2. todo' = << >>
  BY ONLY <1>1, TypeInv, pc \notin BootPCs DEF TypeInv, BootTypes
<1>3. pc' \notin BootPCs
  BY ONLY <1>2, TypeInv' DEF TypeInv, BootTypes
<1>4. /\ runs = "firmware" => Sane(loader) /\ op.kind \notin OpKinds
      /\ op.kind \in OpKinds => op \in Boot!Operations
      /\ runs = "loader" /\ intact =>
            /\ Sane(loader) /\ AtRest
            /\ pc = "idle" /\ op.kind \in OpKinds /\ result[1] \in { "true", "read" } =>
                  Executed
  BY ONLY BootInv, pc \notin BootPCs DEF BootInv, Sane
<1>5. CASE runs = "firmware"
  BY ONLY <1>1, <1>3, <1>4, <1>5 DEF BootInv, Sane
<1>6. CASE runs = "loader"
  <2>1. /\ UNCHANGED << calls, intact >> /\ (AtRest => AtRest')
        /\ pc' = "idle" =>
              (pc = "idle" /\ result' = result) \/ result'[1] \notin { "true", "read" }
    BY ONLY <1>6, runs = "loader" =>
               /\ UNCHANGED << calls, intact >> /\ (AtRest => AtRest')
               /\ pc' = "idle" =>
                     (pc = "idle" /\ result' = result)
                     \/ result'[1] \notin { "true", "read" }
  <2>2. Executed => Executed'
    BY ONLY <1>1, <2>1, ExecutedStays
  <2>3. intact =>
            /\ Sane(loader') /\ AtRest'
            /\ pc' = "idle" /\ op'.kind \in OpKinds /\ result'[1] \in { "true", "read" }
                  => Executed'
    BY ONLY <1>1, <1>4, <1>6, <2>1, <2>2
  <2> QED BY ONLY <1>1, <1>3, <1>4, <1>6, <2>1, <2>3 DEF BootInv, Sane
<1> QED BY ONLY <1>1, <1>5, <1>6

\* Nothing changes for the boot loader while what is in flight is the same.
LEMMA RestStays ==
    ASSUME UNCHANGED << loader, flight >>, DOMAIN tx = { 0, 1 },
           Busy => tx'[flight.buf] = tx[flight.buf], AtRest
    PROVE  AtRest'
<1>1. CASE ExpectsFrame /\ (Busy => flight.dev # "MCU")
  BY ONLY <1>1, UNCHANGED << loader, flight >> DEF AtRest, ExpectsFrame, Busy
<1>2. CASE ExpectsEcho /\ Carries(Boot!Ack)
  <2>1. Busy
    BY ONLY <1>2 DEF Carries, Busy
  <2>2. Carries(Boot!Ack)'
    BY ONLY <1>2, <2>1, UNCHANGED << loader, flight >>,
            Busy => tx'[flight.buf] = tx[flight.buf] DEF Carries, Boot!Ack
  <2> QED BY ONLY <1>2, <2>2, UNCHANGED << loader, flight >> DEF AtRest, ExpectsEcho
<1> QED BY ONLY <1>1, <1>2, AtRest DEF AtRest

\* The program asks for a reset, which begins, or is given up before anything is done.
LEMMA ResetBoot ==
    ASSUME TypeInv, TypeInv', BootInv,
           (\E to \in BOOLEAN : Reset(to)) \/ ResetTimesOut \/ BootPin
    PROVE  BootInv'
<1>1. /\ UNCHANGED << bootOnly, runs, calls, intact, tx, flight, loader >>
      /\ pc \notin BootPCs
      /\ pc' # "idle" \/ result' = << "false" >>
  <2>1. CASE \E to \in BOOLEAN : Reset(to)
    BY ONLY <2>1 DEF Reset, BootPCs, bootOnly, link
  <2>2. CASE ResetTimesOut
    BY ONLY <2>2 DEF ResetTimesOut, BootPCs, bootOnly, resetOnly, link
  <2>3. CASE BootPin
    BY ONLY <2>3 DEF BootPin, BootPCs, bootOnly
  <2> QED BY ONLY <2>1, <2>2, <2>3,
              (\E to \in BOOLEAN : Reset(to)) \/ ResetTimesOut \/ BootPin
<1>2. AtRest => AtRest'
  <2>1. DOMAIN tx = { 0, 1 }
    BY ONLY TypeInv DEF TypeInv, LinkInv
  <2> QED BY ONLY <1>1, <2>1, RestStays
<1>3. pc' = "idle" => result'[1] \notin { "true", "read" }
  BY ONLY <1>1
<1> QED BY ONLY <1>1, <1>2, <1>3, TypeInv, TypeInv', BootInv, RestKept

\* The boot loader, or the firmware, has been started.
LEMMA RestartBoot ==
    ASSUME TypeInv, Restart
    PROVE  BootInv'
<1>1. /\ runs' = (IF want THEN "loader" ELSE "firmware")
      /\ loader' = Boot!Booted /\ op'.kind = "reset"
      /\ pc' = (IF want THEN "boot" ELSE "idle")
  BY ONLY TypeInv, Restart
     DEF Restart, Restarted, TypeInv, ResetTypes, Boot!NoOp
<1>2. "reset" \notin OpKinds
  BY DEF OpKinds
<1>3. Sane(loader')
  BY ONLY <1>1 DEF Boot!Booted, Sane
<1>4. pc' = "idle" => runs' = "firmware"
  BY ONLY <1>1
<1>5. pc' \notin BootPCs => pc' = "idle"
  BY ONLY <1>1 DEF BootPCs
<1> QED BY ONLY <1>1, <1>2, <1>3, <1>4, <1>5 DEF BootInv, Sane

\* A step of a native call: the boot loader does not run.
LEMMA NativeStepBoot ==
    ASSUME TypeInv, TypeInv', BootInv, NativeStep
    PROVE  BootInv'
<1>1. pc \in NativePCs /\ pc \notin BootPCs /\ UNCHANGED << bootOnly, resetOnly >>
  BY ONLY NativeStep, NativeBusyPC DEF NativeStep, NativePCs, BootPCs
<1>2. runs # "loader" /\ runs' = runs
  BY ONLY <1>1, TypeInv DEF TypeInv, ResetTypes, NativePCs, BootPCs, resetOnly
<1> QED BY ONLY <1>1, <1>2, TypeInv, TypeInv', BootInv, RestKept

\* So it is at the other steps of a program that speaks to the firmware.
LEMMA NativeClientBoot ==
    ASSUME TypeInv, TypeInv', BootInv, speaks = "firmware", Native!Client,
           UNCHANGED << bootOnly, resetOnly >>
    PROVE  BootInv'
<1>1. runs = "firmware" /\ runs' = runs
  BY ONLY TypeInv, speaks = "firmware", UNCHANGED resetOnly
     DEF TypeInv, ResetTypes, resetOnly
<1>2. pc \notin BootPCs
  BY ONLY <1>1, TypeInv DEF TypeInv, ResetTypes, BootPCs, NativePCs
<1> QED BY ONLY <1>1, <1>2, TypeInv, TypeInv', BootInv, RestKept,
            UNCHANGED << bootOnly, resetOnly >>

\* A program that speaks to the boot loader turns to the TF card.
LEMMA OthersBoot ==
    ASSUME TypeInv, TypeInv', BootInv, Native!Others,
           UNCHANGED << bootOnly, resetOnly >>
    PROVE  BootInv'
<1>1. /\ pc = "idle" /\ ~Busy /\ runs' = runs /\ UNCHANGED bootOnly
      /\ UNCHANGED << calls, result, intact, loader >>
      /\ flight' = flight \/ flight'.dev = "TF"
  BY ONLY Native!Others, UNCHANGED << bootOnly, resetOnly >>, SameLink
     DEF Native!Others, Native!nativeVars, bootOnly, resetOnly, NoFlight
<1>2. AtRest => AtRest'
  <2> SUFFICES ASSUME AtRest PROVE AtRest'
    OBVIOUS
  <2>1. ExpectsFrame
    BY ONLY <1>1, AtRest DEF AtRest, Carries, Busy
  <2>2. Busy' => flight'.dev # "MCU"
    BY ONLY <1>1 DEF Busy
  <2> QED BY ONLY <1>1, <2>1, <2>2 DEF AtRest, ExpectsFrame
<1>3. pc \notin BootPCs
  BY ONLY <1>1 DEF BootPCs
<1> QED BY ONLY <1>1, <1>2, <1>3, TypeInv, TypeInv', BootInv, RestKept

\* A transfer of the firmware's has ended.
LEMMA FirmwareBoot ==
    ASSUME TypeInv, TypeInv', BootInv, runs = "firmware",
           UNCHANGED << bootOnly, resetOnly >>
    PROVE  BootInv'
<1>1. runs' = runs /\ runs # "loader"
  BY ONLY runs = "firmware", UNCHANGED resetOnly DEF resetOnly
<1>2. pc \notin BootPCs
  BY ONLY runs = "firmware", TypeInv DEF TypeInv, ResetTypes, BootPCs, NativePCs
<1> QED BY ONLY <1>1, <1>2, TypeInv, TypeInv', BootInv, RestKept,
            UNCHANGED bootOnly

\* A transfer for another device has ended.
LEMMA OtherTransferEndsBoot ==
    ASSUME TypeInv, TypeInv', BootInv, runs = "loader", Native!OtherTransferEnds,
           UNCHANGED << bootOnly, resetOnly >>
    PROVE  BootInv'
<1>1. /\ Busy /\ flight.dev # "MCU" /\ Ends(<< Filler >>) /\ runs' = "loader"
      /\ UNCHANGED << pc, calls, result, intact, op, todo, data, loader >>
  BY ONLY Native!OtherTransferEnds, SameLink, runs = "loader",
          UNCHANGED << bootOnly, resetOnly >>
     DEF Native!OtherTransferEnds, Native!nativeVars, bootOnly, resetOnly
<1>2. ~Busy'
  BY ONLY <1>1 DEF Ends, Busy, NoFlight
<1>3. AtRest => AtRest'
  BY ONLY <1>1, <1>2 DEF AtRest, Carries, ExpectsFrame
<1>4. CASE pc \notin BootPCs
  <2>1. UNCHANGED << bootOnly, runs >>
    BY ONLY UNCHANGED << bootOnly, resetOnly >> DEF bootOnly, resetOnly
  <2>2. pc' = "idle" => pc = "idle" /\ result' = result
    BY ONLY <1>1
  <2> QED BY ONLY <1>1, <1>3, <1>4, <2>1, <2>2, TypeInv, TypeInv', BootInv, RestKept
<1>5. CASE pc \in BootPCs
  <2>1. /\ op.kind \in OpKinds => op \in Boot!Operations
        /\ op.kind \in OpKinds \cup { "reset" }
        /\ intact => Sane(loader) /\ (op.kind \in OpKinds => InCall)
    BY ONLY <1>5, BootInv, runs = "loader" DEF BootInv, Sane
  <2>2. pc # "idle"
    BY ONLY <1>5 DEF BootPCs
  <2>3. ~Refused
    BY ONLY <1>1 DEF Refused, Carries
  <2>4. \A h : ~Making(h)
    BY ONLY <1>1 DEF Making, Carries
  <2>5. \A j : ~Waits(j)
    BY ONLY <1>1, <2>4 DEF Waits
  <2>6. \A j : About(j) => About(j)'
    <3> SUFFICES ASSUME NEW j, About(j) PROVE About(j)'
      OBVIOUS
    <3>1. j = 0 /\ AtRest
      BY ONLY <1>1, <2>4, About(j) DEF About
    <3> QED BY ONLY <1>3, <3>1 DEF About
  <2>7. InCall => InCall'
    BY ONLY <1>1, <2>3, <2>5, <2>6, CallIs
  <2> QED BY ONLY <1>1, <1>5, <2>1, <2>2, <2>7 DEF BootInv, Sane
<1> QED BY ONLY <1>4, <1>5

\* What is left of a sequence: its first element, and the rest.
LEMMA PartRest ==
    ASSUME NEW S, NEW s \in Seq(S), NEW n \in Nat, n = Len(s), NEW a \in 1 .. n
    PROVE  /\ SubSeq(s, a, n) \in Seq(S) /\ SubSeq(s, a, n) # << >>
           /\ Head(SubSeq(s, a, n)) = s[a]
           /\ Tail(SubSeq(s, a, n)) = SubSeq(s, a + 1, n)
           /\ Tail(SubSeq(s, a, n)) = << >> => a = n
           /\ a = n => Tail(SubSeq(s, a, n)) = << >>
<1>1. \A i \in 1 .. n : s[i] \in S
  BY ONLY n = Len(s), s \in Seq(S), ElementOfSeq
<1> DEFINE t == SubSeq(s, a, n)
           u == SubSeq(s, a + 1, n)
<1>2. /\ t \in Seq(S) /\ Len(t) = (IF a <= n THEN n - a + 1 ELSE 0)
      /\ \A i \in 1 .. n - a + 1 : t[i] = s[a + i - 1]
  <2>1. a \in Int /\ n \in Int /\ \A i \in a .. n : i \in 1 .. n
    BY ONLY n \in Nat, a \in 1 .. n
  <2>2. \A i \in a .. n : s[i] \in S
    BY ONLY <1>1, <2>1
  <2> QED BY ONLY <2>1, <2>2, SubSeqProperties
<1>3. /\ u \in Seq(S) /\ Len(u) = (IF a + 1 <= n THEN n - (a + 1) + 1 ELSE 0)
      /\ \A i \in 1 .. n - (a + 1) + 1 : u[i] = s[a + 1 + i - 1]
  <2>1. a + 1 \in Int /\ n \in Int /\ \A i \in a + 1 .. n : i \in 1 .. n
    BY ONLY n \in Nat, a \in 1 .. n
  <2>2. \A i \in a + 1 .. n : s[i] \in S
    BY ONLY <1>1, <2>1
  <2> QED BY ONLY <2>1, <2>2, SubSeqProperties
<1> HIDE DEF t, u
<1>4. PICK m \in Nat : m = n - a
  BY ONLY n \in Nat, a \in 1 .. n
<1>5. Len(t) = m + 1 /\ \A i \in 1 .. m + 1 : t[i] = s[a + i - 1]
  <2>1. (IF a <= n THEN n - a + 1 ELSE 0) = m + 1 /\ n - a + 1 = m + 1
    BY ONLY <1>4, n \in Nat, a \in 1 .. n
  <2> QED BY ONLY <1>2, <2>1
<1>6. Len(u) = m /\ \A i \in 1 .. m : u[i] = s[a + i]
  <2>1. (IF a + 1 <= n THEN n - (a + 1) + 1 ELSE 0) = m /\ n - (a + 1) + 1 = m
    BY ONLY <1>4, n \in Nat, a \in 1 .. n
  <2>2. \A i \in 1 .. m : a + 1 + i - 1 = a + i
    BY ONLY m \in Nat, n \in Nat, a \in 1 .. n
  <2> QED BY ONLY <1>3, <2>1, <2>2
<1>7. t # << >>
  BY ONLY <1>2, <1>5, m \in Nat, EmptySeq
<1>8. Head(t) = s[a]
  <2>1. Head(t) = t[1]
    BY ONLY <1>2, <1>7, HeadTailProperties
  <2>2. 1 \in 1 .. m + 1 /\ a + 1 - 1 = a
    BY ONLY m \in Nat, n \in Nat, a \in 1 .. n
  <2> QED BY ONLY <1>5, <2>1, <2>2
<1>9. /\ Tail(t) \in Seq(S) /\ Len(Tail(t)) = m
      /\ \A i \in 1 .. m : Tail(t)[i] = t[i + 1]
  <2>1. /\ Tail(t) \in Seq(S) /\ Len(Tail(t)) = Len(t) - 1
        /\ \A i \in 1 .. Len(Tail(t)) : Tail(t)[i] = t[i + 1]
    BY ONLY <1>2, <1>7, HeadTailProperties
  <2>2. Len(Tail(t)) = m
    BY ONLY <1>5, <2>1, m \in Nat
  <2> QED BY ONLY <2>1, <2>2
<1>10. \A i \in 1 .. m : Tail(t)[i] = u[i]
  <2> TAKE i \in 1 .. m
  <2>1. i + 1 \in 1 .. m + 1 /\ a + (i + 1) - 1 = a + i
    BY ONLY m \in Nat, n \in Nat, a \in 1 .. n, i \in 1 .. m
  <2> QED BY ONLY <1>5, <1>6, <1>9, <2>1, i \in 1 .. m
<1>11. Tail(t) = u
  <2>1. Len(Tail(t)) = Len(u) /\ \A i \in 1 .. Len(Tail(t)) : Tail(t)[i] = u[i]
    BY ONLY <1>6, <1>9, <1>10
  <2> QED BY ONLY <1>3, <1>9, <2>1, SeqEqual
<1>12. Tail(t) = << >> <=> a = n
  <2>1. Tail(t) = << >> <=> m = 0
    BY ONLY <1>9, EmptySeq
  <2> QED BY ONLY <1>4, <2>1, n \in Nat, a \in 1 .. n
<1> QED BY ONLY <1>2, <1>7, <1>8, <1>11, <1>12 DEF t, u

\* The routine has done j steps of its call.
Through(j) ==
    /\ op \in Boot!Operations /\ calls \in Nat /\ j \in 0 .. Len(Whole) - 1
    /\ todo = SubSeq(Whole, j + 1, Len(Whole)) /\ DataAt(j)

\* Then this step is next, and the others are left.
LEMMA TodoIs ==
    ASSUME NEW n \in Nat, n = Len(Whole), NEW j, Through(j)
    PROVE  /\ n > 8 /\ j \in 0 .. n - 1 /\ Known(j)
           /\ Head(todo) = Whole[j + 1] /\ Tail(todo) = SubSeq(Whole, (j + 1) + 1, n)
           /\ Tail(todo) = << >> <=> j + 1 = n
           /\ todo # Refusing
<1>1. op \in Boot!Operations /\ calls \in Nat /\ j \in 0 .. n - 1
      /\ todo = SubSeq(Whole, j + 1, n)
  BY ONLY Through(j), n = Len(Whole) DEF Through
<1>2. n > 8 /\ Known(j)
  BY ONLY <1>1, n = Len(Whole), StepKnown
<1>3. Whole \in Seq(Steps)
  BY ONLY <1>1, ScriptRight DEF Whole
<1>4. j + 1 \in 1 .. n
  BY ONLY <1>1, n \in Nat
<1> DEFINE w == Whole
           a == j + 1
<1> HIDE DEF w, a
<1>5. w \in Seq(Steps) /\ n = Len(w) /\ a \in 1 .. n
  BY ONLY <1>3, <1>4, n = Len(Whole) DEF w, a
<1>6. /\ SubSeq(w, a, n) \in Seq(Steps) /\ SubSeq(w, a, n) # << >>
      /\ Head(SubSeq(w, a, n)) = w[a]
      /\ Tail(SubSeq(w, a, n)) = SubSeq(w, a + 1, n)
      /\ Tail(SubSeq(w, a, n)) = << >> => a = n
      /\ a = n => Tail(SubSeq(w, a, n)) = << >>
  BY ONLY <1>5, n \in Nat, PartRest
<1>7. /\ Head(todo) = Whole[j + 1] /\ Tail(todo) = SubSeq(Whole, (j + 1) + 1, n)
      /\ Tail(todo) = << >> <=> j + 1 = n
  BY ONLY <1>1, <1>6 DEF w, a
<1>8. todo # Refusing
  <2>1. Whole[j + 1].what # "refused"
    BY ONLY <1>2, NextIs
  <2> QED BY ONLY <1>7, <2>1, Scripts
<1> QED BY ONLY <1>1, <1>2, <1>7, <1>8

\* Most steps receive nothing.
LEMMA DataKeeps ==
    ASSUME NEW n \in Nat, n = Len(Whole), NEW j, Through(j),
           Whole[j + 1].what \notin { "value", "receive" }
    PROVE  DataAt(j + 1)
<1>1. /\ op \in Boot!Operations /\ calls \in Nat /\ j \in 0 .. n - 1 /\ DataAt(j)
  BY ONLY Through(j), n = Len(Whole) DEF Through
<1>2. ASSUME op.kind = "version", j + 1 >= 6 PROVE j >= 6
  <2>1. Whole[6].what = "value"
    BY ONLY <1>1, <1>2, VersionIs, StepIs
  <2>2. j # 5
    BY ONLY <2>1, Whole[j + 1].what \notin { "value", "receive" }
  <2> QED BY ONLY <1>1, <1>2, <2>2, n \in Nat
<1>3. ASSUME op.kind = "id", j + 1 >= 7 PROVE j >= 7
  <2>1. Whole[7].what = "receive"
    BY ONLY <1>1, <1>3, IdIs, StepIs
  <2>2. j # 6
    BY ONLY <2>1, Whole[j + 1].what \notin { "value", "receive" }
  <2> QED BY ONLY <1>1, <1>3, <2>2, n \in Nat
<1>4. ASSUME op.kind = "read", j + 1 >= 16 PROVE j >= 16
  <2>1. Whole[16].what = "receive"
    BY ONLY <1>1, <1>4, ReadIs, StepIs
  <2>2. j # 15
    BY ONLY <2>1, Whole[j + 1].what \notin { "value", "receive" }
  <2> QED BY ONLY <1>1, <1>4, <2>2, n \in Nat
<1> QED BY ONLY <1>1, <1>2, <1>3, <1>4 DEF DataAt

\* At the end of a script that ends in an acknowledgement, that is all the boot loader
\* expects; behind the last step of any, another frame.
LEMMA LastAwaited ==
    ASSUME op \in Boot!Operations, calls \in Nat, NEW n \in Nat, n = Len(Whole)
    PROVE  /\ op.kind # "read" => Awaited(n - 1) = << "echo" >>
           /\ Awaited(n) = << "frame" >>
<1>1. Awaited(n) = << "frame" >>
  BY ONLY n = Len(Whole) DEF Awaited
<1>2. ASSUME op.kind # "read" PROVE Awaited(n - 1) = << "echo" >>
  <2>1. Whole[n] = EchoStep
    BY ONLY <1>2, op \in Boot!Operations, calls \in Nat, n = Len(Whole), n \in Nat,
            LastStep
  <2>2. n > 8
    BY ONLY n = Len(Whole), op \in Boot!Operations, calls \in Nat, StepKnown
  <2>3. n - 1 \in 1 .. n - 1 /\ ~(n - 1 < 5) /\ (n - 1) + 1 = n
    BY ONLY <2>2, n \in Nat
  <2>4. Awaited(n - 1) = SubSeq(Tokens, n, n)
    <3>1. /\ Awaited(n - 1) = SubSeq(Tokens, (n - 1) + 1, Horizon(n - 1))
          /\ ~(op.kind = "erase" /\ (n - 1) < 5) => Horizon(n - 1) = n
      BY ONLY <2>3, op \in Boot!Operations, calls \in Nat, n \in Nat, n = Len(Whole),
              HorizonIs
    <3> QED BY ONLY <2>3, <3>1
  <2>5. << "echo" >> = SubSeq(Tokens, n, n)
    <3> DEFINE W == << "echo" >>
    <3>1. W \in Seq({ "echo" }) /\ Len(W) = 1 /\ W[1] = "echo"
      OBVIOUS
    <3> HIDE DEF W
    <3>2. n \in 1 .. n + 1 /\ n \in 0 .. n /\ Spans(n, n, 1) /\ 1 \in Nat
              /\ n + 1 - 1 = n
      BY ONLY <2>2, n \in Nat DEF Spans
    <3>3. \A i \in 1 .. 1 : W[i] = Token(Whole[n + i - 1])
      <4> TAKE i \in 1 .. 1
      <4>1. i = 1
        OBVIOUS
      <4>2. Token(Whole[n]) = "echo"
        BY ONLY <2>1, TokenIs
      <4> QED BY ONLY <3>1, <3>2, <4>1, <4>2
    <3>4. W = SubSeq(Tokens, n, n)
      <4> DEFINE a == n
                 b == n
                 k == 1
                 S == { "echo" }
      <4>1. /\ W \in Seq(S) /\ Len(W) = k /\ a \in 1 .. n + 1 /\ b \in 0 .. n
            /\ k \in Nat /\ Spans(a, b, k)
            /\ \A i \in 1 .. k : W[i] = Token(Whole[a + i - 1])
        BY ONLY <3>1, <3>2, <3>3
      <4> HIDE DEF a, b, k, S
      <4>2. W = SubSeq(Tokens, a, b)
        BY ONLY <4>1, n \in Nat, n = Len(Whole), TokensMatch
      <4> QED BY ONLY <4>2 DEF a, b
    <3> QED BY ONLY <3>4 DEF W
  <2> QED BY ONLY <2>4, <2>5
<1> QED BY ONLY <1>1, <1>2

\* What is claimed of a call in progress, and of one that has returned.
Kept ==
    /\ pc \in BootPCs => InCall
    /\ pc \notin BootPCs => AtRest
    /\ pc = "idle" /\ result[1] \in { "true", "read" } => Executed

\* The boot loader does nothing by itself.
LEMMA LoaderWaits ==
    ASSUME UNCHANGED << op, calls, loader >>
    PROVE  \A h : LoaderAt(h)' <=> LoaderAt(h)
BY ONLY UNCHANGED << op, calls, loader >>, LoaderHere, LoaderThere

\* The routine goes on to the next step.
LEMMA GoesToNext ==
    ASSUME NEW n \in Nat, n = Len(Whole), NEW j, Through(j), UNCHANGED << op, calls >>,
           Boot!Proceed, DataAt(j + 1)', j + 1 < n, About(j + 1)'
    PROVE  Kept'
<1>1. /\ j \in 0 .. n - 1 /\ Tail(todo) = SubSeq(Whole, (j + 1) + 1, n)
      /\ Tail(todo) # << >>
  BY ONLY n \in Nat, n = Len(Whole), Through(j), j + 1 < n, TodoIs
<1>2. todo' = SubSeq(Whole, (j + 1) + 1, n) /\ pc' = "boot"
  BY ONLY <1>1, Boot!Proceed DEF Boot!Proceed
<1>3. j + 1 \in 0 .. n - 1
  BY ONLY <1>1, j + 1 < n, n \in Nat
<1>4. Whole' = Whole
  BY ONLY UNCHANGED << op, calls >>, ScriptStays
<1>5. InCall'
  BY ONLY <1>2, <1>3, <1>4, n = Len(Whole), DataAt(j + 1)', About(j + 1)' DEF InCall
<1> QED BY ONLY <1>2, <1>5 DEF Kept, BootPCs

\* It returns from the call, with which the boot loader is done, too.
LEMMA GoesOut ==
    ASSUME NEW n \in Nat, n = Len(Whole), NEW j, Through(j), UNCHANGED << op, calls >>,
           Boot!Proceed, DataAt(j + 1)', j + 1 = n, AtRest',
           op.kind # "read" => loader'.did = << op.kind, calls, Told >>
    PROVE  Kept'
<1>1. Tail(todo) = << >>
  BY ONLY n \in Nat, n = Len(Whole), Through(j), j + 1 = n, TodoIs
<1>2. pc' = "idle"
  BY ONLY <1>1, Boot!Proceed DEF Boot!Proceed
<1>3. Whole' = Whole /\ Told' = Told
  BY ONLY UNCHANGED << op, calls >>, ScriptStays
<1>4. DataAt(Len(Whole))'
  BY ONLY <1>3, DataAt(j + 1)', n = Len(Whole), j + 1 = n DEF DataAt
<1>5. op'.kind \in { "write", "erase", "jump" } =>
          loader'.did = << op'.kind, calls', Told' >>
  BY ONLY <1>3, UNCHANGED << op, calls >>,
          op.kind # "read" => loader'.did = << op.kind, calls, Told >>
<1>6. Executed'
  BY ONLY <1>4, <1>5 DEF Executed
<1> QED BY ONLY <1>2, <1>6, AtRest' DEF Kept, BootPCs

\* It stays at a step.
LEMMA GoesNowhere ==
    ASSUME NEW j, Through(j), UNCHANGED << op, calls, todo, data >>,
           (pc' = "boot" /\ About(j)') \/ (pc' = "boot_wait" /\ Waits(j)')
    PROVE  Kept'
<1>1. Whole' = Whole /\ (DataAt(j)' <=> DataAt(j))
  BY ONLY UNCHANGED << op, calls, data >>, ScriptStays, DataStays
<1>2. InCall'
  BY ONLY <1>1, Through(j), UNCHANGED todo,
          (pc' = "boot" /\ About(j)') \/ (pc' = "boot_wait" /\ Waits(j)')
     DEF Through, InCall
<1> QED BY ONLY <1>2, (pc' = "boot" /\ About(j)') \/ (pc' = "boot_wait" /\ Waits(j)')
        DEF Kept, BootPCs

\* It fails.
LEMMA GoesWrong ==
    ASSUME Boot!Fail, AtRest'
    PROVE  Kept'
<1>1. pc' = "idle" /\ result'[1] = "false"
  BY ONLY Boot!Fail DEF Boot!Fail
<1> QED BY ONLY <1>1, AtRest' DEF Kept, BootPCs

\* Most steps receive nothing.
LEMMA DataKept ==
    ASSUME NEW n \in Nat, n = Len(Whole), NEW j, Through(j),
           UNCHANGED << op, calls, data >>,
           Whole[j + 1].what \notin { "value", "receive" }
    PROVE  DataAt(j + 1)'
<1>1. DataAt(j + 1)
  BY ONLY n \in Nat, n = Len(Whole), Through(j),
          Whole[j + 1].what \notin { "value", "receive" }, DataKeeps
<1> QED BY ONLY <1>1, UNCHANGED << op, calls, data >>, DataStays

\* What it is doing when nothing is in flight: only the byte in front of an answer may
\* not have been sent.
LEMMA IdleAbout ==
    ASSUME NEW n \in Nat, n = Len(Whole), NEW j, Through(j), About(j), ~Busy, j > 0
    PROVE  /\ device = "MCU"
           /\ \/ LoaderAt(j)
              \/ /\ LoaderAt(j - 1) /\ j - 1 \in 0 .. n - 1 /\ (j - 1) + 1 = j
                 /\ Whole[j] = SkipStep /\ Whole[j + 1] = PollStep
<1>1. j # 0 /\ op \in Boot!Operations /\ calls \in Nat /\ j \in 0 .. n - 1
  BY ONLY j > 0, Through(j), n = Len(Whole) DEF Through
<1>2. \A h : ~Making(h)
  BY ONLY ~Busy DEF Making, Carries, Busy
<1>3. device = "MCU" /\ (LoaderAt(j) \/ (Whole[j].what = "skip" /\ LoaderAt(j - 1)))
  <2>1. /\ device = "MCU"
        /\ \/ LoaderAt(j)
           \/ Whole[j].what = "skip" /\ LoaderAt(j - 1)
           \/ Making(j - 1)
           \/ Making(j - 2)
    BY ONLY <1>1, About(j) DEF About
  <2>2. ~Making(j - 1) /\ ~Making(j - 2)
    BY ONLY <1>2
  <2> QED BY ONLY <2>1, <2>2
<1>4. ASSUME Whole[j].what = "skip"
      PROVE  /\ j - 1 \in 0 .. n - 1 /\ (j - 1) + 1 = j
             /\ Whole[j] = SkipStep /\ Whole[j + 1] = PollStep
  <2>1. j - 1 \in 0 .. n - 1 /\ (j - 1) + 1 = j /\ (j - 1) + 2 = j + 1
    BY ONLY <1>1, n \in Nat
  <2>2. Known(j - 1)
    BY ONLY <1>1, <2>1, n = Len(Whole), StepKnown
  <2>3. SkipNext(j - 1)
    BY ONLY <1>4, <2>1, <2>2, NextIs
  <2> QED BY ONLY <2>1, <2>3 DEF SkipNext
<1> QED BY ONLY <1>3, <1>4

\* A word is put on its way.
LEMMA WordGoes ==
    ASSUME TypeInv, device = "MCU", NEW word, NEW mode \in { "write", "exchange" },
           StartSending(mode, device), tx' = [ tx EXCEPT ![idx] = word ]
    PROVE  Carries(word)' /\ device' = "MCU"
<1>1. DOMAIN tx = { 0, 1 } /\ idx \in { 0, 1 }
  BY ONLY TypeInv DEF TypeInv, LinkInv
<1>2. flight'.mode = mode /\ flight'.dev = "MCU" /\ flight'.buf = idx /\ device' = "MCU"
  BY ONLY device = "MCU", StartSending(mode, device) DEF StartSending
<1>3. tx'[idx] = word
  BY ONLY <1>1, tx' = [ tx EXCEPT ![idx] = word ]
<1> QED BY ONLY <1>2, <1>3 DEF Carries

\* The routine is somewhere in its script, or has been refused.
LEMMA CallCases ==
    ASSUME TypeInv, op \in Boot!Operations, InCall
    PROVE  /\ calls \in Nat /\ Len(Whole) \in Nat
           /\ \/ Refused
              \/ \E j : /\ Through(j)
                        /\ (pc = "boot" /\ About(j)) \/ (pc = "boot_wait" /\ Waits(j))
<1>1. calls \in Nat
  BY ONLY TypeInv, ConstantsNat DEF TypeInv, NativeTypes
<1>2. Len(Whole) \in Nat
  BY ONLY <1>1, op \in Boot!Operations, StepKnown
<1> QED BY ONLY <1>1, <1>2, op \in Boot!Operations, InCall DEF InCall, Through

\* A frame is sent, once what the call before it sent last has been.
LEMMA FrameStartBoot ==
    ASSUME TypeInv, op \in Boot!Operations, InCall, Boot!FrameStart
    PROVE  Kept'
<1>1. PICK n \in Nat : n = Len(Whole)
  BY ONLY TypeInv, op \in Boot!Operations, InCall, CallCases
<1>2. /\ pc = "boot" /\ Head(todo).what = "frame" /\ ~Busy
      /\ tx' = [ tx EXCEPT ![0] = Head(todo).v ] /\ device' = "MCU"
      /\ flight' = [ NoFlight EXCEPT !.mode = "write", !.dev = "MCU", !.n = 1 ]
      /\ data' = data /\ Boot!Proceed /\ UNCHANGED << calls, op, loader >>
  BY ONLY Boot!FrameStart, SameLink DEF Boot!FrameStart
<1>3. PICK j : Through(j) /\ About(j)
  <2>1. ~Refused
    BY ONLY <1>2, Scripts DEF Refused
  <2> QED BY ONLY <1>2, <2>1, TypeInv, op \in Boot!Operations, InCall, CallCases
<1>4. n > 8 /\ j \in 0 .. n - 1 /\ Known(j) /\ Head(todo) = Whole[j + 1]
  BY ONLY <1>1, <1>3, n \in Nat, TodoIs
<1>5. Whole[j + 1].what = "frame" /\ FrameNext(j) /\ j = 0
  BY ONLY <1>2, <1>4, NextIs DEF FrameNext
<1>6. ExpectsFrame
  <2>1. AtRest
    BY ONLY <1>3, <1>5 DEF About
  <2> QED BY ONLY <1>2, <2>1 DEF AtRest, Carries, Busy
<1>7. LoaderAt(0)
  <2>1. ~(0 > 0) /\ ~(0 >= n - 1)
    BY ONLY <1>4, n \in Nat
  <2>2. Awaited(0) = << "frame" >>
    BY DEF Awaited
  <2> QED BY ONLY <1>1, <1>6, <2>1, <2>2 DEF LoaderAt, ExpectsFrame
<1>8. Whole' = Whole /\ (LoaderAt(0)' <=> LoaderAt(0))
  BY ONLY <1>2, ScriptStays, LoaderWaits
<1>9. Carries(Whole[1].v)'
  <2>1. flight'.mode = "write" /\ flight'.dev = "MCU" /\ flight'.buf = 0
    BY ONLY <1>2 DEF NoFlight
  <2>2. tx'[0] = Head(todo).v
    BY ONLY <1>2, TypeInv DEF TypeInv, LinkInv
  <2>3. 0 + 1 = 1
    OBVIOUS
  <2>4. tx'[flight'.buf] = Whole'[1].v
    BY ONLY <1>4, <1>5, <1>8, <2>1, <2>2, <2>3
  <2> QED BY ONLY <2>1, <2>4 DEF Carries
<1>10. Making(0)'
  BY ONLY <1>5, <1>7, <1>8, <1>9 DEF Making
<1>11. About(j + 1)'
  <2>1. j + 1 = 1 /\ 1 > 0 /\ 1 - 1 = 0
    BY ONLY <1>5
  <2>2. About(1)'
    BY ONLY <1>2, <1>5, <1>8, <1>10, <2>1 DEF About
  <2> QED BY ONLY <2>1, <2>2
<1>12. DataAt(j + 1)'
  BY ONLY <1>1, <1>2, <1>3, <1>5, n \in Nat, DataKept
<1>13. j + 1 < n
  BY ONLY <1>4, <1>5, n \in Nat
<1> QED BY ONLY <1>1, <1>2, <1>3, <1>11, <1>12, <1>13, n \in Nat, GoesToNext

\* A word is sent, and nothing received for it.
LEMMA SendStartBoot ==
    ASSUME TypeInv, op \in Boot!Operations, InCall, Boot!SendStart
    PROVE  Kept'
<1>1. PICK n \in Nat : n = Len(Whole)
  BY ONLY TypeInv, op \in Boot!Operations, InCall, CallCases
<1>2. /\ pc = "boot" /\ Head(todo).what = "send" /\ StartSending("write", device)
      /\ tx' = [ tx EXCEPT ![idx] = Head(todo).v ]
      /\ data' = data /\ Boot!Proceed /\ UNCHANGED << calls, op, loader >>
  BY ONLY Boot!SendStart, SameLink DEF Boot!SendStart
<1>3. PICK j : Through(j) /\ About(j)
  <2>1. ~Refused
    BY ONLY <1>2, Scripts DEF Refused
  <2> QED BY ONLY <1>2, <2>1, TypeInv, op \in Boot!Operations, InCall, CallCases
<1>4. n > 8 /\ j \in 0 .. n - 1 /\ Known(j) /\ Head(todo) = Whole[j + 1]
  BY ONLY <1>1, <1>3, n \in Nat, TodoIs
<1>5. Whole[j + 1].what = "send" /\ j > 0 /\ j + 1 < n
  BY ONLY <1>1, <1>2, <1>4, NextIs DEF TalkStep, TellNext, SumNext, Inside
<1>6. device = "MCU" /\ LoaderAt(j)
  <2>1. ~Busy
    BY ONLY <1>2 DEF StartSending
  <2>2. Whole[j + 1] # PollStep
    BY ONLY <1>5, StepIs
  <2> QED BY ONLY <1>1, <1>3, <1>5, <2>1, <2>2, n \in Nat, IdleAbout
<1>7. PICK word : word = Head(todo).v
  OBVIOUS
<1>8. Carries(word)' /\ device' = "MCU"
  BY ONLY <1>2, <1>6, <1>7, TypeInv, WordGoes
<1>9. Whole' = Whole /\ (LoaderAt(j)' <=> LoaderAt(j))
  BY ONLY <1>2, ScriptStays, LoaderWaits
<1>10. Making(j)'
  <2>1. Whole'[j + 1].what = "send" /\ Whole'[j + 1].v = word
    BY ONLY <1>4, <1>5, <1>7, <1>9
  <2> QED BY ONLY <1>6, <1>8, <1>9, <2>1 DEF Making, Carries
<1>11. About(j + 1)'
  <2>1. (j + 1) - 1 = j /\ j + 1 > 0
    BY ONLY <1>4, <1>5, n \in Nat
  <2> QED BY ONLY <1>5, <1>8, <1>9, <1>10, <2>1 DEF About
<1>12. DataAt(j + 1)'
  BY ONLY <1>1, <1>2, <1>3, <1>5, n \in Nat, DataKept
<1> QED BY ONLY <1>1, <1>2, <1>3, <1>5, <1>11, <1>12, n \in Nat, GoesToNext

\* A word is sent, and one received for it.
LEMMA ExchangeStartBoot ==
    ASSUME TypeInv, op \in Boot!Operations, InCall, Boot!ExchangeStart
    PROVE  Kept'
<1>1. PICK n \in Nat : n = Len(Whole)
  BY ONLY TypeInv, op \in Boot!Operations, InCall, CallCases
<1>2. /\ pc = "boot" /\ Head(todo).what \notin { "frame", "send", "receive" }
      /\ StartSending("exchange", device) /\ tx' = [ tx EXCEPT ![idx] = Head(todo).v ]
      /\ pc' = "boot_wait" /\ UNCHANGED << calls, op, todo, data, loader >>
  BY ONLY Boot!ExchangeStart, SameLink DEF Boot!ExchangeStart
<1>3. ~Busy
  BY ONLY <1>2 DEF StartSending
<1>4. PICK word : word = Head(todo).v
  OBVIOUS
<1>5. device = "MCU" => Carries(word)' /\ device' = "MCU"
  BY ONLY <1>2, <1>4, TypeInv, WordGoes
<1>6. CASE Refused
  <2>1. todo = Refusing /\ device = "MCU" /\ ExpectsEcho
    BY ONLY <1>2, <1>6 DEF Refused
  <2>2. word = Boot!Ack
    BY ONLY <1>4, <2>1, Scripts
  <2>3. Carries(Boot!Ack)' /\ device' = "MCU"
    BY ONLY <1>5, <2>1, <2>2 DEF Carries, Boot!Ack
  <2>4. Refused'
    BY ONLY <1>2, <2>1, <2>3 DEF Refused, Refusing, ExpectsEcho
  <2> QED BY ONLY <1>2, <2>4 DEF Kept, InCall, BootPCs
<1>7. CASE ~Refused
  <2>1. PICK j : Through(j) /\ About(j)
    BY ONLY <1>2, <1>7, TypeInv, op \in Boot!Operations, InCall, CallCases
  <2>2. n > 8 /\ j \in 0 .. n - 1 /\ Known(j) /\ Head(todo) = Whole[j + 1]
    BY ONLY <1>1, <2>1, n \in Nat, TodoIs
  <2>3. j > 0
    <3>1. j = 0 => FrameNext(j)
      BY ONLY <2>1, <2>2 DEF Known, AckStep, DataStep, TalkStep, SkipNext, PollNext,
          EchoNext, DummyNext, ValueNext, SizeNext, ReceiveNext, TellNext, SumNext,
          Inside
    <3>2. j # 0
      BY ONLY <1>2, <2>2, <3>1, WhatIs
    <3> QED BY ONLY <2>2, <3>2, n \in Nat
  <2>4. Whole' = Whole /\ \A h : LoaderAt(h)' <=> LoaderAt(h)
    BY ONLY <1>2, ScriptStays, LoaderWaits
  <2>5. /\ device = "MCU"
        /\ \/ LoaderAt(j)
           \/ /\ LoaderAt(j - 1) /\ j - 1 \in 0 .. n - 1 /\ (j - 1) + 1 = j
              /\ Whole[j] = SkipStep /\ Whole[j + 1] = PollStep
    BY ONLY <1>1, <1>3, <2>1, <2>3, n \in Nat, IdleAbout
  <2>6. Carries(word)' /\ device' = "MCU"
    BY ONLY <1>5, <2>5
  <2>7. CASE LoaderAt(j)
    <3>1. Whole'[j + 1].what # "receive" /\ Whole'[j + 1].v = word
      BY ONLY <1>2, <1>4, <2>2, <2>4
    <3>2. Making(j)'
      BY ONLY <2>4, <2>6, <2>7, <3>1 DEF Making, Carries
    <3>3. Waits(j)'
      BY ONLY <2>3, <2>6, <3>2 DEF Waits
    <3> QED BY ONLY <1>2, <2>1, <3>3, GoesNowhere
  <2>8. CASE /\ LoaderAt(j - 1) /\ (j - 1) + 1 = j
             /\ Whole[j] = SkipStep /\ Whole[j + 1] = PollStep
    <3>1. Whole'[j].what # "receive" /\ Whole'[j].v = word
              /\ Whole'[j + 1].what = "poll"
      BY ONLY <1>4, <2>2, <2>4, <2>8, StepIs
    <3>2. Making(j - 1)'
      BY ONLY <2>4, <2>6, <2>8, <3>1 DEF Making, Carries
    <3>3. Waits(j)'
      BY ONLY <2>3, <2>6, <3>1, <3>2 DEF Waits
    <3> QED BY ONLY <1>2, <2>1, <3>3, GoesNowhere
  <2> QED BY ONLY <2>5, <2>7, <2>8
<1> QED BY ONLY <1>6, <1>7

\* What the boot loader is asked for is to be sent.
LEMMA ReceiveStartBoot ==
    ASSUME Readable, TypeInv, op \in Boot!Operations, InCall, Boot!ReceiveStart
    PROVE  Kept'
<1>1. PICK n \in Nat : n = Len(Whole)
  BY ONLY TypeInv, op \in Boot!Operations, InCall, CallCases
<1>2. /\ pc = "boot" /\ Head(todo).what = "receive"
      /\ StartReading("read", Head(todo).v) /\ pc' = "boot_wait"
      /\ UNCHANGED << device, calls, op, todo, data, loader >>
  BY ONLY Boot!ReceiveStart, SameLink DEF Boot!ReceiveStart
<1>3. PICK j : Through(j) /\ About(j)
  <2>1. ~Refused
    BY ONLY <1>2, Scripts DEF Refused
  <2> QED BY ONLY <1>2, <2>1, TypeInv, op \in Boot!Operations, InCall, CallCases
<1>4. n > 8 /\ j \in 0 .. n - 1 /\ Known(j) /\ Head(todo) = Whole[j + 1]
  BY ONLY <1>1, <1>3, n \in Nat, TodoIs
<1>5. ReceiveNext(j) /\ Whole[j + 1].what = "receive"
  BY ONLY <1>2, <1>4, NextIs
<1>6. j > 0
  BY ONLY <1>5 DEF ReceiveNext
<1>7. ~Busy /\ flight'.mode = "read" /\ flight'.dev = device
      /\ flight'.n = Length(Head(todo).v)
  BY ONLY <1>2 DEF StartReading
<1>8. device = "MCU" /\ LoaderAt(j)
  <2>1. Whole[j + 1] # PollStep
    BY ONLY <1>5, StepIs
  <2> QED BY ONLY <1>1, <1>3, <1>6, <1>7, <2>1, n \in Nat, IdleAbout
<1>9. PICK k \in 1 .. Window : Whole[j + 1].v = k
  <2>1. Window \in Nat
    BY ONLY ConstantsNat
  <2>2. CASE Whole[j + 1] = Boot!Step("receive", 2)
    BY ONLY <2>1, <2>2, Readable, StepIs DEF Readable
  <2>3. CASE op.kind = "read" /\ Whole[j + 1] = Boot!Step("receive", op.n)
    BY ONLY <2>1, <2>3, Readable, StepIs, op \in Boot!Operations, OpNumbers DEF Readable
  <2> QED BY ONLY <1>5, <2>2, <2>3 DEF ReceiveNext
<1>10. flight'.n = Whole[j + 1].v
  <2>1. k \in Int
    BY ONLY k \in 1 .. Window
  <2>2. Length(k) = k
    BY ONLY <2>1, k \in 1 .. Window, LengthIs
  <2> QED BY ONLY <1>4, <1>7, <1>9, <2>2
<1>11. Whole' = Whole /\ (LoaderAt(j)' <=> LoaderAt(j))
  BY ONLY <1>2, ScriptStays, LoaderWaits
<1>12. Making(j)'
  BY ONLY <1>5, <1>7, <1>8, <1>10, <1>11 DEF Making
<1>13. Waits(j)'
  BY ONLY <1>2, <1>6, <1>8, <1>12 DEF Waits
<1> QED BY ONLY <1>2, <1>3, <1>13, GoesNowhere

\* What the routine waits for has been made.
LEMMA StepArrives ==
    ASSUME TypeInv, op \in Boot!Operations, InCall, NEW what, what # "refused",
           Boot!Arrives(what)
    PROVE  /\ pc = "boot_wait" /\ ~Busy /\ ~Busy' /\ device' = "MCU"
           /\ UNCHANGED << calls, op, loader >> /\ rx[idx'] = rx[1 - idx]
           /\ Boot!Unit = rx[1 - idx][1]
           /\ \E j : /\ Through(j) /\ Made(j) /\ j > 0 /\ Whole[j + 1].what = what
                     /\ Head(todo) = Whole[j + 1] /\ Known(j)
                     /\ j \in 0 .. Len(Whole) - 1
<1>1. PICK n \in Nat : n = Len(Whole)
  BY ONLY TypeInv, op \in Boot!Operations, InCall, CallCases
<1>2. /\ pc = "boot_wait" /\ Head(todo).what = what /\ ~Busy /\ idx' = 1 - idx
      /\ UNCHANGED << device, rx, flight, calls, op, loader >>
  BY ONLY Boot!Arrives(what), SameLink DEF Boot!Arrives, Flip
<1>3. ~Busy'
  BY ONLY <1>2 DEF Busy
<1>4. Boot!Unit = rx[1 - idx][1] /\ rx[idx'] = rx[1 - idx]
  BY ONLY <1>2 DEF Boot!Unit
<1>5. PICK j : Through(j) /\ Waits(j)
  <2>1. ~Refused
    BY ONLY <1>2, what # "refused", Scripts DEF Refused
  <2> QED BY ONLY <1>2, <2>1, TypeInv, op \in Boot!Operations, InCall, CallCases
<1>6. n > 8 /\ j \in 0 .. n - 1 /\ Known(j) /\ Head(todo) = Whole[j + 1]
  BY ONLY <1>1, <1>5, n \in Nat, TodoIs
<1>7. j > 0 /\ device = "MCU" /\ Made(j)
  <2>1. ~Making(j) /\ ~Making(j - 1)
    BY ONLY <1>2 DEF Making, Carries, Busy
  <2> QED BY ONLY <1>5, <2>1 DEF Waits
<1> QED BY ONLY <1>1, <1>2, <1>3, <1>4, <1>5, <1>6, <1>7

\* The step has been made, and the routine goes on, or returns.
LEMMA StepDone ==
    ASSUME op \in Boot!Operations, calls \in Nat, NEW j, Through(j), j > 0,
           LoaderAt(j + 1),
           ~Busy', device' = "MCU", UNCHANGED << calls, op, loader >>, Boot!Proceed,
           DataAt(j + 1)'
    PROVE  Kept'
<1>1. PICK n \in Nat : n = Len(Whole)
  BY ONLY op \in Boot!Operations, calls \in Nat, StepKnown
<1>2. j \in 0 .. n - 1
  BY ONLY <1>1, Through(j) DEF Through
<1>3. LoaderAt(j + 1)'
  BY ONLY LoaderAt(j + 1), UNCHANGED << calls, op, loader >>, LoaderWaits
<1>4. CASE j + 1 < n
  <2>1. j + 1 > 0
    BY ONLY <1>2, n \in Nat
  <2>2. About(j + 1)'
    BY ONLY <1>3, <2>1, ~Busy', device' = "MCU" DEF About
  <2> QED BY ONLY <1>1, <1>4, <2>2, n \in Nat, Through(j), UNCHANGED << calls, op >>,
              Boot!Proceed, DataAt(j + 1)', GoesToNext
<1>5. CASE j + 1 = n
  <2>1. Awaited(n) = << "frame" >>
    BY ONLY <1>1, n \in Nat, op \in Boot!Operations, calls \in Nat, LastAwaited
  <2>2. ExpectsFrame
    BY ONLY <1>5, <2>1, LoaderAt(j + 1) DEF LoaderAt, ExpectsFrame
  <2>3. AtRest'
    BY ONLY <2>2, ~Busy', UNCHANGED loader DEF AtRest, ExpectsFrame
  <2>4. op.kind # "read" => loader'.did = << op.kind, calls, Told >>
    <3>1. j + 1 >= n - 1
      BY ONLY <1>5, n \in Nat
    <3> QED BY ONLY <1>1, <3>1, LoaderAt(j + 1), UNCHANGED loader DEF LoaderAt
  <2> QED BY ONLY <1>1, <1>5, <2>3, <2>4, n \in Nat, Through(j),
              UNCHANGED << calls, op >>, Boot!Proceed, DataAt(j + 1)', GoesOut
<1>6. j + 1 < n \/ j + 1 = n
  BY ONLY <1>2, n \in Nat
<1> QED BY ONLY <1>4, <1>5, <1>6

\* The steps for which nothing of use is received.
LEMMA ExchangeArrivesBoot ==
    ASSUME TypeInv, op \in Boot!Operations, InCall, Boot!ExchangeArrives
    PROVE  Kept'
<1>1. PICK what \in { "skip", "echo", "exchange" } : Boot!Arrives(what)
  BY ONLY Boot!ExchangeArrives DEF Boot!ExchangeArrives
<1>2. data' = data /\ Boot!Proceed
  BY ONLY Boot!ExchangeArrives DEF Boot!ExchangeArrives
<1>3. what # "refused" /\ what # "poll" /\ what \notin { "value", "receive" }
  BY ONLY what \in { "skip", "echo", "exchange" }
<1>4. /\ ~Busy' /\ device' = "MCU" /\ UNCHANGED << calls, op, loader >>
      /\ \E j : Through(j) /\ Made(j) /\ j > 0 /\ Whole[j + 1].what = what
  BY ONLY <1>1, <1>3, TypeInv, op \in Boot!Operations, InCall, StepArrives
<1>5. PICK j : Through(j) /\ Made(j) /\ j > 0 /\ Whole[j + 1].what = what
  BY ONLY <1>4
<1>6. calls \in Nat /\ Len(Whole) \in Nat
  BY ONLY TypeInv, op \in Boot!Operations, InCall, CallCases
<1>7. LoaderAt(j + 1)
  BY ONLY <1>3, <1>5 DEF Made
<1>8. DataAt(j + 1)'
  BY ONLY <1>2, <1>3, <1>4, <1>5, <1>6, DataKept
<1> QED BY ONLY <1>2, <1>4, <1>5, <1>6, <1>7, <1>8, op \in Boot!Operations, StepDone

\* The version has been received.
LEMMA ValueArrivesBoot ==
    ASSUME TypeInv, op \in Boot!Operations, InCall, Boot!ValueArrives
    PROVE  Kept'
<1>1. Boot!Arrives("value") /\ data' = << Boot!Unit >> /\ Boot!Proceed
  BY ONLY Boot!ValueArrives DEF Boot!ValueArrives
<1>2. /\ ~Busy' /\ device' = "MCU" /\ UNCHANGED << calls, op, loader >>
      /\ Boot!Unit = rx[1 - idx][1]
      /\ \E j : Through(j) /\ Made(j) /\ j > 0 /\ Whole[j + 1].what = "value"
         /\ Known(j)
  BY ONLY <1>1, TypeInv, op \in Boot!Operations, InCall, StepArrives
<1>3. PICK j : Through(j) /\ Made(j) /\ j > 0 /\ Whole[j + 1].what = "value" /\ Known(j)
  BY ONLY <1>2
<1>4. calls \in Nat
  BY ONLY TypeInv, op \in Boot!Operations, InCall, CallCases
<1>5. LoaderAt(j + 1) /\ Boot!Unit = << "value", calls >>
  BY ONLY <1>2, <1>3 DEF Made
<1>6. op.kind = "version"
  BY ONLY <1>3, NextIs DEF ValueNext
<1>7. DataAt(j + 1)'
  BY ONLY <1>1, <1>2, <1>5, <1>6 DEF DataAt
<1> QED BY ONLY <1>1, <1>2, <1>3, <1>4, <1>5, <1>7, op \in Boot!Operations, StepDone

\* The units of what is as long as was asked for are that.
LEMMA UnitsWhole ==
    ASSUME NEW n \in Nat
    PROVE  Units(Bytes0(n), n) = Bytes0(n)
<1>1. \A i \in 1 .. n : Bytes0(n)[i] = << "stored", calls, i >>
  BY DEF Bytes0
<1>2. Len(Bytes0(n)) = n
  <2>1. Bytes0(n) \in Seq({ << "stored", calls, i >> : i \in 1 .. n })
    BY DEF Bytes0
  <2>2. DOMAIN Bytes0(n) = 1 .. n
    BY DEF Bytes0
  <2> QED BY <2>1, <2>2, LenProperties
<1>3. \A i \in 1 .. n : i <= n
  OBVIOUS
<1> QED BY <1>1, <1>2, <1>3 DEF Units, Bytes0

\* What was asked for has been received.
LEMMA ReceiveArrivesBoot ==
    ASSUME TypeInv, op \in Boot!Operations, InCall, Boot!ReceiveArrives
    PROVE  Kept'
<1>1. /\ Boot!Arrives("receive") /\ data' = Units(rx[idx'], Head(todo).v)
      /\ Boot!Proceed
  BY ONLY Boot!ReceiveArrives, SameLink DEF Boot!ReceiveArrives
<1>2. /\ ~Busy' /\ device' = "MCU" /\ UNCHANGED << calls, op, loader >>
      /\ rx[idx'] = rx[1 - idx]
      /\ \E j : /\ Through(j) /\ Made(j) /\ j > 0 /\ Whole[j + 1].what = "receive"
                /\ Head(todo) = Whole[j + 1] /\ Known(j)
  BY ONLY <1>1, TypeInv, op \in Boot!Operations, InCall, StepArrives
<1>3. PICK j : /\ Through(j) /\ Made(j) /\ j > 0 /\ Whole[j + 1].what = "receive"
               /\ Head(todo) = Whole[j + 1] /\ Known(j)
  BY ONLY <1>2
<1>4. calls \in Nat
  BY ONLY TypeInv, op \in Boot!Operations, InCall, CallCases
<1>5. LoaderAt(j + 1) /\ rx[1 - idx] = Bytes0(Whole[j + 1].v)
  BY ONLY <1>3 DEF Made
<1>6. ReceiveNext(j)
  BY ONLY <1>3, NextIs
<1>7. Whole[j + 1].v \in Nat
  BY ONLY <1>6, StepIs, op \in Boot!Operations, OpNumbers DEF ReceiveNext
<1>8. data' = Bytes0(Whole[j + 1].v)
  <2>1. PICK k \in Nat : k = Whole[j + 1].v
    BY ONLY <1>7
  <2>2. Units(Bytes0(k), k) = Bytes0(k)
    BY ONLY k \in Nat, UnitsWhole
  <2> QED BY ONLY <1>1, <1>2, <1>3, <1>5, <2>1, <2>2
<1>9. \A k : Bytes0(k)' = Bytes0(k)
  BY ONLY <1>2 DEF Bytes0
<1>10. DataAt(j + 1)'
  <2>1. CASE op.kind = "id" /\ Whole[j + 1] = Boot!Step("receive", 2)
    <3>1. Whole[j + 1].v = 2
      BY ONLY <2>1, StepIs
    <3> QED BY ONLY <1>2, <1>8, <1>9, <2>1, <3>1 DEF DataAt
  <2>2. CASE op.kind = "read" /\ Whole[j + 1] = Boot!Step("receive", op.n)
    <3>1. Whole[j + 1].v = op.n
      BY ONLY <2>2, StepIs
    <3> QED BY ONLY <1>2, <1>8, <1>9, <2>2, <3>1 DEF DataAt
  <2> QED BY ONLY <1>6, <2>1, <2>2 DEF ReceiveNext
<1> QED BY ONLY <1>1, <1>2, <1>3, <1>4, <1>5, <1>10, op \in Boot!Operations, StepDone

\* A part of a sequence, element by element.
LEMMA PartIs ==
    ASSUME NEW S, NEW s \in Seq(S), NEW n \in Nat, n = Len(s), NEW a \in 1 .. n,
           NEW k \in Nat, Spans(a, n, k)
    PROVE  /\ SubSeq(s, a, n) \in Seq(S) /\ Len(SubSeq(s, a, n)) = k
           /\ \A i \in 1 .. k : SubSeq(s, a, n)[i] = s[a + i - 1]
<1>1. \A i \in 1 .. n : s[i] \in S
  BY ONLY n = Len(s), s \in Seq(S), ElementOfSeq
<1>2. a \in Int /\ n \in Int /\ \A i \in a .. n : i \in 1 .. n
  BY ONLY n \in Nat, a \in 1 .. n
<1>3. \A i \in a .. n : s[i] \in S
  BY ONLY <1>1, <1>2
<1>4. /\ SubSeq(s, a, n) \in Seq(S)
      /\ Len(SubSeq(s, a, n)) = (IF a <= n THEN n - a + 1 ELSE 0)
      /\ \A i \in 1 .. n - a + 1 : SubSeq(s, a, n)[i] = s[a + i - 1]
  BY ONLY <1>2, <1>3, SubSeqProperties
<1>5. n - a + 1 = k /\ a <= n
  <2>1. k + a = n + 1
    BY ONLY Spans(a, n, k) DEF Spans
  <2> QED BY ONLY <2>1, n \in Nat, a \in 1 .. n, k \in Nat
<1> QED BY ONLY <1>4, <1>5

\* In the script of the identity the number of bytes that are asked for is the number
\* of those that are announced.
LEMMA SizedRest ==
    ASSUME op \in Boot!Operations, calls \in Nat, op.kind = "id",
           todo = SubSeq(Whole, 6, 10)
    PROVE  /\ todo[2].v = 2
           /\ << Boot!Step("receive", 2) >> \o SubSeq(todo, 3, Len(todo)) =
                  SubSeq(Whole, 7, 10)
<1>1. Whole \in Seq(Steps)
  BY ONLY op \in Boot!Operations, calls \in Nat, ScriptRight DEF Whole
<1>2. Len(Whole) = 10 /\ Whole[7] = Boot!Step("receive", 2)
  BY ONLY op \in Boot!Operations, calls \in Nat, op.kind = "id", IdIs
<1> DEFINE w == Whole
           t == SubSeq(Whole, 6, 10)
           first == << Boot!Step("receive", 2) >>
           rest == SubSeq(t, 3, 5)
           goal == SubSeq(Whole, 7, 10)
<1>3. t \in Seq(Steps) /\ Len(t) = 5 /\ \A i \in 1 .. 5 : t[i] = Whole[6 + i - 1]
  <2> DEFINE a == 6
             n == 10
             k == 5
             s == Whole
  <2>1. n \in Nat /\ a \in 1 .. n /\ k \in Nat /\ Spans(a, n, k)
    BY DEF Spans
  <2>2. s \in Seq(Steps) /\ n = Len(s)
    BY ONLY <1>1, <1>2
  <2> HIDE DEF a, n, k, s
  <2>3. /\ SubSeq(s, a, n) \in Seq(Steps) /\ Len(SubSeq(s, a, n)) = k
        /\ \A i \in 1 .. k : SubSeq(s, a, n)[i] = s[a + i - 1]
    BY ONLY <2>1, <2>2, PartIs
  <2> QED BY ONLY <2>3 DEF a, n, k, s
<1>4. goal \in Seq(Steps) /\ Len(goal) = 4
          /\ \A i \in 1 .. 4 : goal[i] = Whole[7 + i - 1]
  <2> DEFINE a == 7
             n == 10
             k == 4
             s == Whole
  <2>1. n \in Nat /\ a \in 1 .. n /\ k \in Nat /\ Spans(a, n, k)
    BY DEF Spans
  <2>2. s \in Seq(Steps) /\ n = Len(s)
    BY ONLY <1>1, <1>2
  <2> HIDE DEF a, n, k, s
  <2>3. /\ SubSeq(s, a, n) \in Seq(Steps) /\ Len(SubSeq(s, a, n)) = k
        /\ \A i \in 1 .. k : SubSeq(s, a, n)[i] = s[a + i - 1]
    BY ONLY <2>1, <2>2, PartIs
  <2> QED BY ONLY <2>3 DEF a, n, k, s
<1> HIDE DEF t, goal
<1>5. rest \in Seq(Steps) /\ Len(rest) = 3 /\ \A i \in 1 .. 3 : rest[i] = t[3 + i - 1]
  <2> DEFINE a == 3
             n == 5
             k == 3
             s == t
  <2>1. n \in Nat /\ a \in 1 .. n /\ k \in Nat /\ Spans(a, n, k)
    BY DEF Spans
  <2>2. s \in Seq(Steps) /\ n = Len(s)
    BY ONLY <1>3
  <2> HIDE DEF a, n, k, s
  <2>3. /\ SubSeq(s, a, n) \in Seq(Steps) /\ Len(SubSeq(s, a, n)) = k
        /\ \A i \in 1 .. k : SubSeq(s, a, n)[i] = s[a + i - 1]
    BY ONLY <2>1, <2>2, PartIs
  <2> QED BY ONLY <2>3 DEF a, n, k, s
<1>6. /\ first \in Seq(Steps) /\ Len(first) = 1 /\ first[1] = Boot!Step("receive", 2)
  <2>1. Boot!Step("receive", 2) \in Steps
    BY ONLY PlainSteps
  <2> QED BY ONLY <2>1
<1> HIDE DEF rest, first
<1>7. /\ first \o rest \in Seq(Steps) /\ Len(first \o rest) = 4
      /\ (first \o rest)[1] = first[1]
      /\ \A i \in 1 .. 3 : (first \o rest)[1 + i] = rest[i]
  <2>1. first \in Seq(Steps) /\ rest \in Seq(Steps) /\ 1 \in Nat /\ Len(first) = 1
    BY ONLY <1>5, <1>6
  <2>2. /\ first \o rest \in Seq(Steps) /\ Len(first \o rest) = 1 + Len(rest)
        /\ \A i \in 1 .. 1 : (first \o rest)[i] = first[i]
        /\ \A i \in 1 .. Len(rest) : (first \o rest)[1 + i] = rest[i]
    BY ONLY <2>1, Behind
  <2> QED BY ONLY <1>5, <2>2
<1>8. \A i \in 1 .. 4 : (first \o rest)[i] = goal[i]
  <2>1. goal[1] = Whole[7] /\ goal[2] = Whole[8] /\ goal[3] = Whole[9]
            /\ goal[4] = Whole[10]
    BY ONLY <1>4
  <2>2. t[3] = Whole[8] /\ t[4] = Whole[9] /\ t[5] = Whole[10]
    BY ONLY <1>3
  <2>3. rest[1] = t[3] /\ rest[2] = t[4] /\ rest[3] = t[5]
    BY ONLY <1>5
  <2>4. /\ (first \o rest)[2] = rest[1] /\ (first \o rest)[3] = rest[2]
        /\ (first \o rest)[4] = rest[3]
    BY ONLY <1>7
  <2>5. \A i \in 1 .. 4 : i = 1 \/ i = 2 \/ i = 3 \/ i = 4
    OBVIOUS
  <2> QED BY ONLY <1>2, <1>6, <1>7, <2>1, <2>2, <2>3, <2>4, <2>5
<1>9. first \o rest = goal
  BY ONLY <1>4, <1>7, <1>8, SeqEqual
<1>10. todo = t /\ Len(todo) = 5 /\ todo[2] = Whole[7]
  <2>1. todo = t
    BY ONLY todo = SubSeq(Whole, 6, 10) DEF t
  <2>2. t[2] = Whole[7]
    BY ONLY <1>3
  <2> QED BY ONLY <1>3, <2>1, <2>2
<1>11. todo[2].v = 2
  BY ONLY <1>2, <1>10, StepIs
<1>12. << Boot!Step("receive", 2) >> \o SubSeq(todo, 3, Len(todo))
           = SubSeq(Whole, 7, 10)
  BY ONLY <1>9, <1>10 DEF first, rest, goal
<1> QED BY ONLY <1>11, <1>12

\* The number of bytes of the identity has been received.
LEMMA SizeArrivesBoot ==
    ASSUME TypeInv, op \in Boot!Operations, InCall, Boot!SizeArrives
    PROVE  Kept'
<1>1. Boot!Arrives("size") /\ pc' = "boot" /\ data' = data
  BY ONLY Boot!SizeArrives DEF Boot!SizeArrives
<1>2. /\ ~Busy' /\ device' = "MCU" /\ UNCHANGED << calls, op, loader >>
      /\ Boot!Unit = rx[1 - idx][1]
      /\ \E j : Through(j) /\ Made(j) /\ j > 0 /\ Whole[j + 1].what = "size" /\ Known(j)
  BY ONLY <1>1, TypeInv, op \in Boot!Operations, InCall, StepArrives
<1>3. PICK j : Through(j) /\ Made(j) /\ j > 0 /\ Whole[j + 1].what = "size" /\ Known(j)
  BY ONLY <1>2
<1>4. calls \in Nat /\ Len(Whole) \in Nat
  BY ONLY TypeInv, op \in Boot!Operations, InCall, CallCases
<1>5. LoaderAt(j + 1) /\ Boot!Unit = << "size", 1 >>
  BY ONLY <1>2, <1>3 DEF Made
<1>6. j = 5 /\ op.kind = "id"
  BY ONLY <1>3, NextIs DEF SizeNext
<1>7. Len(Whole) = 10 /\ todo = SubSeq(Whole, 6, 10)
  <2>1. Len(Whole) = 10
    BY ONLY <1>4, <1>6, op \in Boot!Operations, IdIs
  <2> QED BY ONLY <1>3, <1>6, <2>1 DEF Through
<1>8. todo' = SubSeq(Whole, 7, 10)
  <2>1. /\ todo[2].v = 2
        /\ << Boot!Step("receive", 2) >> \o SubSeq(todo, 3, Len(todo)) =
               SubSeq(Whole, 7, 10)
    BY ONLY <1>4, <1>6, <1>7, op \in Boot!Operations, SizedRest
  <2>2. todo' = << Boot!Step("receive", 2) >> \o SubSeq(todo, 3, Len(todo))
    <3>1. Boot!Unit[2] + 1 = 2 /\ ~(2 < 2)
      BY ONLY <1>5
    <3> QED BY ONLY <2>1, <3>1, Boot!SizeArrives DEF Boot!SizeArrives
  <2> QED BY ONLY <2>1, <2>2
<1>9. Whole' = Whole /\ LoaderAt(6)'
  <2>1. Whole' = Whole /\ (LoaderAt(j + 1)' <=> LoaderAt(j + 1)) /\ j + 1 = 6
    BY ONLY <1>2, <1>6, ScriptStays, LoaderWaits
  <2> QED BY ONLY <1>5, <2>1
<1>10. About(6)'
  <2>1. 6 > 0
    OBVIOUS
  <2> QED BY ONLY <1>2, <1>9, <2>1 DEF About
<1>11. DataAt(6)'
  <2>1. DataAt(j + 1)'
    BY ONLY <1>1, <1>2, <1>3, <1>4, DataKept
  <2>2. j + 1 = 6
    BY ONLY <1>6
  <2> QED BY ONLY <2>1, <2>2
<1>12. 6 \in 0 .. Len(Whole') - 1 /\ 6 + 1 = 7
  BY ONLY <1>7, <1>9
<1>13. InCall'
  BY ONLY <1>1, <1>7, <1>8, <1>9, <1>10, <1>11, <1>12 DEF InCall
<1> QED BY ONLY <1>1, <1>13 DEF Kept, BootPCs

\* An answer has been received.  While it is asked for often enough, it is counted.
LEMMA PollArrivesBoot ==
    ASSUME TypeInv, op \in Boot!Operations, InCall, Boot!PollArrives, intact'
    PROVE  Kept'
<1>1. Boot!Arrives("poll") /\ data' = data
  BY ONLY Boot!PollArrives DEF Boot!PollArrives
<1>2. /\ ~Busy' /\ device' = "MCU" /\ UNCHANGED << calls, op, loader >>
      /\ Boot!Unit = rx[1 - idx][1]
      /\ \E j : Through(j) /\ Made(j) /\ j > 0 /\ Whole[j + 1].what = "poll" /\ Known(j)
  BY ONLY <1>1, TypeInv, op \in Boot!Operations, InCall, StepArrives
<1>3. PICK j : Through(j) /\ Made(j) /\ j > 0 /\ Whole[j + 1].what = "poll" /\ Known(j)
  BY ONLY <1>2
<1>4. calls \in Nat /\ Len(Whole) \in Nat
  BY ONLY TypeInv, op \in Boot!Operations, InCall, CallCases
<1>5. \/ Boot!Unit = Boot!Ack /\ LoaderAt(j + 1)
      \/ Boot!Unit = Boot!Nack /\ ExpectsEcho
      \/ Boot!Unit \notin { Boot!Ack, Boot!Nack } /\ LoaderAt(j)
  BY ONLY <1>2, <1>3 DEF Made
<1>6. \/ Boot!Unit = Boot!Ack /\ Boot!Proceed
      \/ /\ Boot!Unit = Boot!Nack /\ todo' = << Boot!Step("refused", Boot!Ack) >>
         /\ pc' = "boot"
      \/ Boot!Unit \notin { Boot!Ack, Boot!Nack } /\ pc' = "boot" /\ todo' = todo
  BY ONLY Boot!PollArrives, intact' DEF Boot!PollArrives
<1>7. CASE Boot!Unit = Boot!Ack
  <2>1. Boot!Proceed /\ LoaderAt(j + 1)
    BY ONLY <1>5, <1>6, <1>7, Replies
  <2>2. DataAt(j + 1)'
    BY ONLY <1>1, <1>2, <1>3, <1>4, DataKept
  <2> QED BY ONLY <1>2, <1>3, <1>4, <2>1, <2>2, op \in Boot!Operations, StepDone
<1>8. CASE Boot!Unit = Boot!Nack
  <2>1. ExpectsEcho /\ todo' = Refusing' /\ pc' = "boot"
    BY ONLY <1>5, <1>6, <1>8, Replies DEF Refusing, Boot!Step, Boot!Ack
  <2>2. Refused'
    BY ONLY <1>2, <2>1 DEF Refused, ExpectsEcho
  <2> QED BY ONLY <2>1, <2>2 DEF Kept, InCall, BootPCs
<1>9. CASE Boot!Unit \notin { Boot!Ack, Boot!Nack }
  <2>1. LoaderAt(j) /\ pc' = "boot" /\ todo' = todo
    BY ONLY <1>5, <1>6, <1>9
  <2>2. LoaderAt(j)'
    BY ONLY <1>2, <2>1, LoaderWaits
  <2>3. About(j)'
    BY ONLY <1>2, <1>3, <2>2 DEF About
  <2> QED BY ONLY <1>1, <1>2, <1>3, <2>1, <2>3, GoesNowhere
<1> QED BY ONLY <1>7, <1>8, <1>9

\* A refusal has been acknowledged.
LEMMA RefusedArrivesBoot ==
    ASSUME TypeInv, op \in Boot!Operations, InCall, Boot!RefusedArrives
    PROVE  Kept'
<1>1. /\ pc = "boot_wait" /\ Head(todo).what = "refused" /\ ~Busy /\ Boot!Fail
      /\ UNCHANGED << flight, loader >>
  BY ONLY Boot!RefusedArrives, SameLink DEF Boot!RefusedArrives, Boot!Arrives
<1>2. Refused
  <2>1. ASSUME NEW j, Through(j) PROVE FALSE
    <3>1. PICK n \in Nat : n = Len(Whole)
      BY ONLY TypeInv, op \in Boot!Operations, InCall, CallCases
    <3>2. Known(j) /\ Head(todo) = Whole[j + 1]
      BY ONLY <2>1, <3>1, n \in Nat, TodoIs
    <3> QED BY ONLY <1>1, <3>2, NextIs
  <2> QED BY ONLY <2>1, TypeInv, op \in Boot!Operations, InCall, CallCases
<1>3. ExpectsFrame
  BY ONLY <1>1, <1>2 DEF Refused, Carries, Busy
<1>4. AtRest'
  BY ONLY <1>1, <1>3 DEF AtRest, ExpectsFrame, Busy
<1> QED BY ONLY <1>1, <1>4, GoesWrong

\* What is in flight stays in flight.
LEMMA FlightStays ==
    ASSUME UNCHANGED << tx, flight, device, op, calls, loader >>
    PROVE  /\ \A h : Making(h)' <=> Making(h)
           /\ \A word : Carries(word)' <=> Carries(word)
           /\ AtRest' <=> AtRest
<1>1. \A word : Carries(word)' <=> Carries(word)
  BY ONLY UNCHANGED << tx, flight, device, op, calls, loader >> DEF Carries
<1>2. Whole' = Whole /\ \A h : LoaderAt(h)' <=> LoaderAt(h)
  BY ONLY UNCHANGED << tx, flight, device, op, calls, loader >>, ScriptStays,
          LoaderWaits
<1>3. \A h : Making(h)' <=> Making(h)
  BY ONLY <1>2, UNCHANGED << tx, flight, device, op, calls, loader >>
     DEF Making, Carries
<1>4. AtRest' <=> AtRest
  BY ONLY UNCHANGED << tx, flight, device, op, calls, loader >>
     DEF AtRest, Carries, ExpectsEcho, ExpectsFrame, Busy, Boot!Ack
<1> QED BY ONLY <1>1, <1>3, <1>4

\* What is in flight when the routine is about to take a step of an acknowledgement.
LEMMA BusyAbout ==
    ASSUME NEW n \in Nat, n = Len(Whole), NEW j, Through(j), About(j), Busy,
           Whole[j + 1].what \in { "skip", "echo" }
    PROVE  /\ Whole[j + 1].what = "skip" /\ Making(j - 1) /\ device = "MCU"
           /\ j + 1 < n /\ j > 0
<1>1. n > 8 /\ j \in 0 .. n - 1 /\ Known(j)
  BY ONLY n \in Nat, n = Len(Whole), Through(j), TodoIs
<1>2. SkipNext(j) \/ EchoNext(j)
  BY ONLY <1>1, Whole[j + 1].what \in { "skip", "echo" }, NextIs
<1>3. j > 0 /\ j # 0
  BY ONLY <1>1, <1>2, n \in Nat DEF SkipNext, EchoNext
<1>4. /\ device = "MCU"
      /\ \/ Making(j - 1) /\ Whole[j].what \in { "frame", "send", "skip", "echo" }
         \/ Whole[j].what = "skip" /\ j > 1
  BY ONLY <1>3, About(j), Busy DEF About
<1>5. Whole[j].what = "skip" /\ j > 1 => Whole[j + 1].what = "poll"
  <2> SUFFICES ASSUME Whole[j].what = "skip", j > 1 PROVE Whole[j + 1].what = "poll"
    OBVIOUS
  <2>1. j - 1 \in 0 .. n - 1 /\ (j - 1) + 1 = j /\ (j - 1) + 2 = j + 1
    BY ONLY <1>1, <1>3, n \in Nat
  <2>2. Known(j - 1)
    BY ONLY <2>1, n = Len(Whole), Through(j), StepKnown DEF Through
  <2>3. SkipNext(j - 1)
    BY ONLY <2>1, <2>2, Whole[j].what = "skip", NextIs
  <2>4. Whole[j + 1] = PollStep
    BY ONLY <2>1, <2>3 DEF SkipNext
  <2> QED BY ONLY <2>4, StepIs
<1>6. Making(j - 1) /\ Whole[j].what \in { "frame", "send", "skip", "echo" }
  BY ONLY <1>4, <1>5, Whole[j + 1].what \in { "skip", "echo" }
<1>7. ~EchoNext(j)
  <2>1. EchoNext(j) => Whole[j].what = "poll"
    BY ONLY StepIs DEF EchoNext
  <2> QED BY ONLY <1>6, <2>1
<1>8. Whole[j + 1].what = "skip" /\ j + 1 < n
  BY ONLY <1>1, <1>2, <1>7, n = Len(Whole), n \in Nat, WhatIs DEF SkipNext
<1> QED BY ONLY <1>3, <1>4, <1>6, <1>8

\* The bytes around an answer may not have been sent in time.  They are when the next
\* word is: the boot loader misses none of them.
LEMMA SkipTimesOut ==
    ASSUME TypeInv, op \in Boot!Operations, InCall, Busy,
           pc \in { "boot", "boot_wait" },
           Head(todo).what \in { "skip", "echo" }, Boot!Proceed,
           UNCHANGED << link, calls, op, loader, data >>
    PROVE  Kept'
<1>1. PICK n \in Nat : n = Len(Whole)
  BY ONLY TypeInv, op \in Boot!Operations, InCall, CallCases
<1>2. PICK j : /\ Through(j)
               /\ (pc = "boot" /\ About(j)) \/ (pc = "boot_wait" /\ Waits(j))
  <2>1. ~Refused
    BY ONLY Head(todo).what \in { "skip", "echo" }, Scripts DEF Refused
  <2> QED BY ONLY <2>1, TypeInv, op \in Boot!Operations, InCall, CallCases
<1>3. n > 8 /\ j \in 0 .. n - 1 /\ Known(j) /\ Head(todo) = Whole[j + 1]
  BY ONLY <1>1, <1>2, n \in Nat, TodoIs
<1>4. Whole[j + 1].what \in { "skip", "echo" }
  BY ONLY <1>3, Head(todo).what \in { "skip", "echo" }
<1>5. UNCHANGED << tx, flight, device >>
  BY ONLY UNCHANGED link DEF link
<1>6. /\ \A h : Making(h)' <=> Making(h)
      /\ \A word : Carries(word)' <=> Carries(word)
      /\ Whole' = Whole /\ \A h : LoaderAt(h)' <=> LoaderAt(h)
  BY ONLY <1>5, UNCHANGED << link, calls, op, loader, data >>, FlightStays, ScriptStays,
          LoaderWaits
<1>7. DataAt(j + 1)'
  BY ONLY <1>1, <1>2, <1>4, UNCHANGED << link, calls, op, loader, data >>, n \in Nat,
          DataKept
<1>8. /\ (j + 1) - 1 = j /\ (j + 1) - 2 = j - 1 /\ j + 1 > 0 /\ (j > 0 => j + 1 > 1)
      /\ (j + 1 < n \/ j + 1 = n)
  BY ONLY <1>3, n \in Nat
<1>9. CASE pc = "boot" /\ About(j)
  <2>1. /\ Whole[j + 1].what = "skip" /\ Making(j - 1) /\ device = "MCU"
        /\ j + 1 < n /\ j > 0
    BY ONLY <1>1, <1>2, <1>4, <1>9, Busy, n \in Nat, BusyAbout
  <2>2. About(j + 1)'
    BY ONLY <1>5, <1>6, <1>8, <2>1 DEF About
  <2> QED BY ONLY <1>1, <1>2, <1>7, <2>1, <2>2, Boot!Proceed, n \in Nat,
              UNCHANGED << link, calls, op, loader, data >>, GoesToNext
<1>10. CASE pc = "boot_wait" /\ Waits(j)
  <2>1. device = "MCU" /\ Making(j) /\ j > 0
    BY ONLY <1>4, <1>10, Busy DEF Waits
  <2>2. CASE j + 1 < n
    <3>1. About(j + 1)'
      BY ONLY <1>4, <1>5, <1>6, <1>8, <2>1 DEF About
    <3> QED BY ONLY <1>1, <1>2, <1>7, <2>2, <3>1, Boot!Proceed, n \in Nat,
                UNCHANGED << link, calls, op, loader, data >>, GoesToNext
  <2>3. CASE j + 1 = n
    <3>1. op.kind # "read"
      <4>1. SkipNext(j) \/ EchoNext(j)
        BY ONLY <1>3, <1>4, NextIs
      <4>2. op.kind = "read" => Whole[j + 1].what = "receive"
        <5> SUFFICES ASSUME op.kind = "read" PROVE Whole[j + 1].what = "receive"
          OBVIOUS
        <5>1. n = 16 /\ Whole[16] = Boot!Step("receive", op.n)
          BY ONLY <1>1, <1>2, ReadIs, op.kind = "read" DEF Through
        <5> QED BY ONLY <2>3, <5>1, StepIs
      <4> QED BY ONLY <1>4, <4>2
    <3>2. n - 1 = j /\ j >= n - 1
      BY ONLY <1>3, <2>3, n \in Nat
    <3>3. op \in Boot!Operations /\ calls \in Nat
      BY ONLY <1>2 DEF Through
    <3>4. Awaited(j) = << "echo" >> /\ Whole[j + 1] = EchoStep
      <4>1. Awaited(n - 1) = << "echo" >> /\ Whole[n] = EchoStep
        BY ONLY <1>1, <3>1, <3>3, n \in Nat, LastAwaited, LastStep
      <4> QED BY ONLY <2>3, <3>2, <4>1
    <3>5. ExpectsEcho /\ Carries(Boot!Ack)
      BY ONLY <2>1, <3>4, StepIs DEF Making, LoaderAt, ExpectsEcho
    <3>6. AtRest'
      <4>1. AtRest
        BY ONLY <3>5 DEF AtRest
      <4> QED BY ONLY <1>5, <4>1, UNCHANGED << link, calls, op, loader, data >>,
                  FlightStays
    <3>7. loader'.did = << op.kind, calls, Told >>
      BY ONLY <1>1, <2>1, <3>1, <3>2, UNCHANGED << link, calls, op, loader, data >>
         DEF Making, LoaderAt
    <3> QED BY ONLY <1>1, <1>2, <1>7, <2>3, <3>6, <3>7, Boot!Proceed, n \in Nat,
                UNCHANGED << link, calls, op, loader, data >>, GoesOut
  <2> QED BY ONLY <1>8, <2>2, <2>3
<1> QED BY ONLY <1>2, <1>9, <1>10

\* A step could not be taken in time.
LEMMA BootTimesOutBoot ==
    ASSUME TypeInv, op \in Boot!Operations, InCall, Boot!TimesOut, intact'
    PROVE  Kept'
<1>1. pc \in { "boot", "boot_wait" } /\ Busy /\ UNCHANGED << link, calls, op, loader >>
  <2>1. Boot!link' = link'
    BY DEF Boot!link, link
  <2> QED BY ONLY <2>1, Boot!TimesOut, SameLink DEF Boot!TimesOut
<1>2. \/ /\ Head(todo).what \in { "skip", "echo" } /\ data' = data /\ Boot!Proceed
      \/ Head(todo).what \in { "frame", "refused" } /\ Boot!Fail
  BY ONLY Boot!TimesOut, intact' DEF Boot!TimesOut
<1>3. CASE Head(todo).what \in { "skip", "echo" } /\ data' = data /\ Boot!Proceed
  BY ONLY <1>1, <1>3, TypeInv, op \in Boot!Operations, InCall, SkipTimesOut
<1>4. CASE Head(todo).what \in { "frame", "refused" } /\ Boot!Fail
  <2>1. AtRest
    <3>1. CASE Refused
      BY ONLY <1>1, <3>1 DEF Refused, AtRest
    <3>2. CASE ~Refused
      <4>1. PICK n \in Nat : n = Len(Whole)
        BY ONLY TypeInv, op \in Boot!Operations, InCall, CallCases
      <4>2. PICK j : /\ Through(j)
                     /\ (pc = "boot" /\ About(j)) \/ (pc = "boot_wait" /\ Waits(j))
        BY ONLY <3>2, TypeInv, op \in Boot!Operations, InCall, CallCases
      <4>3. Known(j) /\ Head(todo) = Whole[j + 1]
        BY ONLY <4>1, <4>2, n \in Nat, TodoIs
      <4>4. j = 0
        BY ONLY <1>4, <4>3, NextIs DEF FrameNext
      <4>5. About(j)
        BY ONLY <4>2, <4>4 DEF Waits
      <4> QED BY ONLY <4>4, <4>5 DEF About
    <3> QED BY ONLY <3>1, <3>2
  <2>2. UNCHANGED << tx, flight, device >>
    BY ONLY <1>1 DEF link
  <2>3. AtRest'
    BY ONLY <1>1, <2>1, <2>2, FlightStays
  <2> QED BY ONLY <1>4, <2>3, GoesWrong
<1> QED BY ONLY <1>2, <1>3, <1>4

\* A call begins while the last word of the one before may still be in flight.
LEMMA BootCallBoot ==
    ASSUME TypeInv, BootInv, NEW o \in Boot!Operations, Boot!Call(o), speaks = "loader",
           UNCHANGED << nativeOnly, resetOnly >>
    PROVE  BootInv'
<1>1. /\ pc = "idle" /\ intact /\ pc' = "boot" /\ calls' = calls + 1 /\ op' = o
      /\ todo' = Boot!Script(o, calls') /\ tx' = Forgotten(tx, Filler)
      /\ UNCHANGED << flight, intact, loader >>
  BY ONLY Boot!Call(o), SameLink DEF Boot!Call
<1>2. runs = "loader" /\ runs' = "loader"
  BY ONLY TypeInv, speaks = "loader", UNCHANGED << nativeOnly, resetOnly >>
     DEF TypeInv, ResetTypes, resetOnly
<1>3. Sane(loader) /\ AtRest
  BY ONLY <1>1, <1>2, BootInv DEF BootInv, Sane, BootPCs
<1>4. AtRest'
  <2>1. DOMAIN tx = { 0, 1 } /\ (Busy => flight.buf \in { 0, 1 })
    BY ONLY TypeInv DEF TypeInv, LinkInv, Flights
  <2>2. Busy => tx'[flight.buf] = tx[flight.buf]
    BY ONLY <1>1, <2>1 DEF Forgotten
  <2> QED BY ONLY <1>1, <1>3, <2>1, <2>2, RestStays
<1>5. op'.kind \in OpKinds
  BY ONLY <1>1, OperationsOK
<1>6. calls' \in Nat
  BY ONLY <1>1, TypeInv, ConstantsNat DEF TypeInv, NativeTypes
<1>7. Whole' = todo' /\ todo' \in Seq(Steps) /\ todo' # << >>
  BY ONLY <1>1, <1>6, ScriptRight DEF Whole
<1>8. todo' = SubSeq(Whole', 0 + 1, Len(Whole')) /\ 0 \in 0 .. Len(Whole') - 1
  <2> DEFINE s == todo'
  <2>1. s \in Seq(Steps) /\ s # << >>
    BY ONLY <1>7
  <2> HIDE DEF s
  <2>2. SubSeq(s, 1, Len(s)) = s
    BY ONLY <2>1, PartAll
  <2>3. Len(s) \in Nat /\ Len(s) > 0
    BY ONLY <2>1, LenProperties, EmptySeq
  <2>4. 0 \in 0 .. Len(s) - 1 /\ 0 + 1 = 1
    BY ONLY <2>3
  <2> QED BY ONLY <1>7, <2>2, <2>4 DEF s
<1>9. DataAt(0)'
  <2>1. ~(0 >= 6) /\ ~(0 >= 7) /\ ~(0 >= 16)
    OBVIOUS
  <2> QED BY ONLY <2>1 DEF DataAt
<1>10. About(0)'
  BY ONLY <1>4 DEF About
<1>11. InCall'
  BY ONLY <1>1, <1>8, <1>9, <1>10 DEF InCall
<1> QED BY ONLY <1>1, <1>2, <1>3, <1>5, <1>11 DEF BootInv, Sane, BootPCs

\* What no step of a call changes.
LEMMA BootStepKeeps ==
    ASSUME BootStep
    PROVE  /\ pc \in BootPCs /\ pc' \in BootPCs \cup { "idle" }
           /\ UNCHANGED << op, calls, loader, runs, want >> /\ (intact' => intact)
<1> USE DEF Boot!Proceed, Boot!Fail, Boot!Arrives, BootPCs, resetOnly
<1>1. CASE Boot!FrameStart \/ Boot!SendStart \/ Boot!ExchangeStart \/ Boot!ReceiveStart
  BY <1>1 DEF Boot!FrameStart, Boot!SendStart, Boot!ExchangeStart, Boot!ReceiveStart,
     BootStep
<1>2. CASE Boot!ExchangeArrives \/ Boot!ValueArrives \/ Boot!SizeArrives
           \/ Boot!ReceiveArrives \/ Boot!RefusedArrives
  BY <1>2 DEF Boot!ExchangeArrives, Boot!ValueArrives, Boot!SizeArrives,
     Boot!ReceiveArrives, Boot!RefusedArrives, BootStep
<1>3. CASE Boot!PollArrives
  BY <1>3 DEF Boot!PollArrives, BootStep
<1>4. CASE Boot!TimesOut \/ Boot!ReceiveTimesOut \/ Boot!ReceiveAborted
  BY <1>4 DEF Boot!TimesOut, Boot!ReceiveTimesOut, Boot!ReceiveAborted, BootStep
<1> QED BY <1>1, <1>2, <1>3, <1>4 DEF BootStep, Boot!DriverStep

\* A step of a call, while none was given up half-way.
LEMMA CallStepKept ==
    ASSUME Readable, TypeInv, op \in Boot!Operations, InCall, BootStep, intact'
    PROVE  Kept'
<1>1. ~Boot!ReceiveTimesOut
  BY ONLY intact' DEF Boot!ReceiveTimesOut
<1>2. ~Boot!ReceiveAborted
  <2>1. pc \in { "boot", "boot_wait" }
    BY ONLY InCall DEF InCall, Refused
  <2> QED BY ONLY <2>1 DEF Boot!ReceiveAborted
<1>3. \/ Boot!FrameStart \/ Boot!SendStart \/ Boot!ExchangeStart \/ Boot!ReceiveStart
      \/ Boot!ExchangeArrives \/ Boot!ValueArrives \/ Boot!SizeArrives
      \/ Boot!ReceiveArrives \/ Boot!PollArrives \/ Boot!RefusedArrives \/ Boot!TimesOut
  BY ONLY <1>1, <1>2, BootStep DEF BootStep, Boot!DriverStep
<1>4. CASE Boot!FrameStart \/ Boot!SendStart \/ Boot!ExchangeStart \/ Boot!ReceiveStart
  BY ONLY <1>4, Readable, TypeInv, op \in Boot!Operations, InCall, FrameStartBoot,
          SendStartBoot, ExchangeStartBoot, ReceiveStartBoot
<1>5. CASE Boot!ExchangeArrives \/ Boot!ValueArrives \/ Boot!SizeArrives
           \/ Boot!ReceiveArrives
  BY ONLY <1>5, TypeInv, op \in Boot!Operations, InCall, ExchangeArrivesBoot,
          ValueArrivesBoot, SizeArrivesBoot, ReceiveArrivesBoot
<1>6. CASE Boot!PollArrives \/ Boot!RefusedArrives \/ Boot!TimesOut
  BY ONLY <1>6, TypeInv, op \in Boot!Operations, InCall, intact', PollArrivesBoot,
          RefusedArrivesBoot, BootTimesOutBoot
<1> QED BY ONLY <1>3, <1>4, <1>5, <1>6

\* When a reset returns, the boot loader expects a frame, whether it was refused or not.
LEMMA ResetEnds ==
    ASSUME SyncInv, SyncInv', BootStep, op.kind = "reset", intact', pc' = "idle"
    PROVE  AtRest'
<1>1. /\ pc \in BootPCs /\ UNCHANGED << op, calls, loader, runs, want >>
  BY ONLY BootStep, BootStepKeeps
<1>2. /\ want /\ runs = "loader"
      /\ (pc = "boot" /\ SyncBoot) \/ (pc = "boot_wait" /\ SyncWait)
  BY ONLY <1>1, SyncInv, op.kind = "reset" DEF SyncInv
<1>3. CASE result'[1] = "true"
  <2>1. want' /\ Synchronised'
    BY ONLY <1>1, <1>2, <1>3, SyncInv', op.kind = "reset" DEF SyncInv
  <2> QED BY ONLY <2>1 DEF Synchronised, AtRest, ExpectsFrame, ExpectsEcho, Flying,
             Carries, Busy
<1>4. CASE result'[1] # "true"
  <2>1. ~Boot!Proceed
    BY ONLY <1>4, op.kind = "reset", pc' = "idle" DEF Boot!Proceed, Boot!Done
  <2>2. pc # "boot_abort"
    BY ONLY <1>2
  <2>3. Boot!RefusedArrives
            \/ (Boot!TimesOut /\ Head(todo).what \in { "frame", "refused" })
    BY ONLY <2>1, <2>2, BootStep, intact', pc' = "idle"
       DEF BootStep, Boot!DriverStep, Boot!FrameStart, Boot!SendStart,
           Boot!ExchangeStart, Boot!ReceiveStart, Boot!ExchangeArrives,
           Boot!ValueArrives, Boot!SizeArrives, Boot!ReceiveArrives, Boot!PollArrives,
           Boot!TimesOut, Boot!ReceiveTimesOut, Boot!ReceiveAborted
  <2>4. todo = Refusing
    <3>1. Head(todo).what \in { "frame", "refused" }
      BY ONLY <2>3 DEF Boot!RefusedArrives, Boot!Arrives
    <3> QED BY ONLY <1>2, <3>1, InScript, WhereItIs
  <2>5. /\ todo # Starting /\ todo # Asking /\ todo # Polling
    BY ONLY <2>4, WhereItIs
  <2>6. CASE Boot!RefusedArrives
    <3>1. pc = "boot_wait" /\ ~Busy /\ UNCHANGED << flight, loader >>
      BY ONLY <2>6, SameLink DEF Boot!RefusedArrives, Boot!Arrives
    <3>2. ExpectsFrame
      BY ONLY <1>2, <2>4, <2>5, <3>1 DEF SyncWait, Flying, Busy
    <3> QED BY ONLY <3>1, <3>2 DEF AtRest, ExpectsFrame, Busy
  <2>7. CASE Boot!TimesOut
    <3>1. Busy /\ UNCHANGED << link, op, calls, loader >>
      <4>1. Boot!link' = link'
        BY DEF Boot!link, link
      <4> QED BY ONLY <2>7, <4>1, SameLink DEF Boot!TimesOut
    <3>2. Flying(Boot!Ack) /\ ExpectsEcho
      BY ONLY <1>2, <2>4, <2>5, <3>1 DEF SyncBoot, SyncWait
    <3>3. AtRest
      BY ONLY <3>2 DEF AtRest, Flying, Carries
    <3>4. UNCHANGED << tx, flight, device >>
      BY ONLY <3>1 DEF link
    <3> QED BY ONLY <3>1, <3>3, <3>4, FlightStays
  <2> QED BY ONLY <2>3, <2>6, <2>7
<1> QED BY ONLY <1>3, <1>4

\* A step of a call of the boot loader, or of the reset that starts it.
LEMMA BootStepBoot ==
    ASSUME Readable, TypeInv, SyncInv, SyncInv', BootInv, BootStep
    PROVE  BootInv'
<1>1. /\ pc \in BootPCs /\ pc' \in BootPCs \cup { "idle" }
      /\ UNCHANGED << op, calls, loader, runs, want >> /\ (intact' => intact)
  BY ONLY BootStep, BootStepKeeps
<1>2. runs = "loader" /\ pc # "idle"
  BY ONLY <1>1, TypeInv DEF TypeInv, ResetTypes, BootPCs, NativePCs
<1>3. /\ op.kind \in OpKinds => op \in Boot!Operations
      /\ op.kind \in OpKinds \cup { "reset" }
      /\ intact => Sane(loader) /\ (op.kind \in OpKinds => InCall)
  BY ONLY <1>1, <1>2, BootInv DEF BootInv, Sane
<1>4. ASSUME op.kind \in OpKinds, intact' PROVE Kept'
  BY ONLY <1>1, <1>3, <1>4, Readable, TypeInv, BootStep, CallStepKept
<1>5. ASSUME op.kind = "reset", intact', pc' = "idle" PROVE AtRest'
  BY ONLY <1>5, SyncInv, SyncInv', BootStep, ResetEnds
<1>6. pc' \notin BootPCs <=> pc' = "idle"
  BY ONLY <1>1 DEF BootPCs
<1>7. intact' =>
        /\ pc' \notin BootPCs => AtRest'
        /\ pc' \in BootPCs /\ op'.kind \in OpKinds => InCall'
        /\ pc' = "idle" /\ op'.kind \in OpKinds /\ result'[1] \in { "true", "read" } =>
              Executed'
  BY ONLY <1>1, <1>3, <1>4, <1>5, <1>6 DEF Kept
<1> QED BY ONLY <1>1, <1>2, <1>3, <1>7 DEF BootInv, Sane

\* A transfer that is stopped half-way.
LEMMA BootTransferStopsBoot ==
    ASSUME TypeInv, BootInv, runs = "loader", Boot!TransferStops,
           UNCHANGED << nativeOnly, resetOnly >>
    PROVE  BootInv'
<1>1. /\ flight.stop /\ runs' = "loader" /\ UNCHANGED << pc, op, intact >>
  BY ONLY runs = "loader", Boot!TransferStops, UNCHANGED << nativeOnly, resetOnly >>
     DEF Boot!TransferStops, resetOnly
<1>2. ~intact
  BY ONLY <1>1, TypeInv DEF TypeInv, LinkInv
<1>3. /\ op.kind \in OpKinds => op \in Boot!Operations
      /\ pc \in BootPCs => op.kind \in OpKinds \cup { "reset" }
  BY ONLY BootInv DEF BootInv
<1> QED BY ONLY <1>1, <1>2, <1>3 DEF BootInv

\* A program that speaks to either calls it, resets the MCU or turns to the TF card.
LEMMA ClientBoot ==
    ASSUME TypeInv, TypeInv', BootInv, Client
    PROVE  BootInv'
<1>1. CASE \E to \in BOOLEAN : Reset(to)
  BY ONLY <1>1, TypeInv, TypeInv', BootInv, ResetBoot
<1>2. CASE speaks = "firmware" /\ Native!Client /\ UNCHANGED << bootOnly, resetOnly >>
  BY ONLY <1>2, TypeInv, TypeInv', BootInv, NativeClientBoot
<1>3. CASE /\ speaks = "loader" /\ \E o \in Boot!Operations : Boot!Call(o)
           /\ UNCHANGED << nativeOnly, resetOnly >>
  <2>1. PICK o \in Boot!Operations : Boot!Call(o)
    BY ONLY <1>3
  <2> QED BY ONLY <1>3, <2>1, TypeInv, BootInv, BootCallBoot
<1>4. CASE speaks = "loader" /\ Native!Others /\ UNCHANGED << bootOnly, resetOnly >>
  BY ONLY <1>4, TypeInv, TypeInv', BootInv, OthersBoot
<1> QED BY ONLY <1>1, <1>2, <1>3, <1>4, Client DEF Client

\* The CPU takes a step of a call or of a reset.
LEMMA DriverBoot ==
    ASSUME Readable, TypeInv, TypeInv', SyncInv, SyncInv', BootInv, DriverStep
    PROVE  BootInv'
<1>1. CASE NativeStep
  BY ONLY <1>1, TypeInv, TypeInv', BootInv, NativeStepBoot
<1>2. CASE BootStep
  BY ONLY <1>2, Readable, TypeInv, SyncInv, SyncInv', BootInv, BootStepBoot
<1>3. CASE ResetTimesOut \/ BootPin
  BY ONLY <1>3, TypeInv, TypeInv', BootInv, ResetBoot
<1>4. CASE Restart
  BY ONLY <1>4, TypeInv, RestartBoot
<1> QED BY ONLY <1>1, <1>2, <1>3, <1>4, DriverStep DEF DriverStep

\* A transfer ends, whoever it is with.
LEMMA HardwareBoot ==
    ASSUME Readable, TypeInv, TypeInv', SyncInv', BootInv, HardwareStep
    PROVE  BootInv'
<1>1. CASE runs = "firmware" /\ Native!HardwareStep
           /\ UNCHANGED << bootOnly, resetOnly >>
  BY ONLY <1>1, TypeInv, TypeInv', BootInv, FirmwareBoot
<1>2. CASE runs = "loader" /\ Boot!HardwareStep /\ UNCHANGED << nativeOnly, resetOnly >>
  <2>1. CASE Boot!TransferEnds
    BY ONLY <1>2, <2>1, Readable, TypeInv, TypeInv', SyncInv', BootInv,
            BootTransferEndsBoot
  <2>2. CASE Boot!TransferStops
    BY ONLY <1>2, <2>2, TypeInv, BootInv, BootTransferStopsBoot
  <2> QED BY ONLY <1>2, <2>1, <2>2 DEF Boot!HardwareStep
<1>3. CASE /\ runs = "loader" /\ Native!OtherTransferEnds
           /\ UNCHANGED << bootOnly, resetOnly >>
  BY ONLY <1>3, TypeInv, TypeInv', BootInv, OtherTransferEndsBoot
<1> QED BY ONLY <1>1, <1>2, <1>3, HardwareStep DEF HardwareStep

\* Nothing happens.
LEMMA BootStutters == BootInv /\ UNCHANGED vars => BootInv'
<1> SUFFICES ASSUME BootInv, UNCHANGED vars PROVE BootInv'
  OBVIOUS
<1>1. /\ UNCHANGED << idx, device, tx, rx, flight, pc, calls, result, intact >>
      /\ UNCHANGED << op, todo, data, loader, runs >>
  BY ONLY UNCHANGED vars DEF vars, link, shared, bootOnly, resetOnly
<1>2. /\ \A h : Making(h)' <=> Making(h)
      /\ \A word : Carries(word)' <=> Carries(word)
      /\ AtRest' <=> AtRest
  BY ONLY <1>1, FlightStays
<1>3. \A h : LoaderAt(h)' <=> LoaderAt(h)
  BY ONLY <1>1, LoaderWaits
<1>4. Whole' = Whole /\ (Busy' <=> Busy) /\ \A n : Bytes0(n)' = Bytes0(n)
  <2>1. Whole' = Whole
    BY ONLY <1>1, ScriptStays
  <2> QED BY ONLY <1>1, <2>1 DEF Busy, Bytes0
<1>5. \A j : About(j) => About(j)'
  BY ONLY <1>1, <1>2, <1>3, <1>4 DEF About
<1>6. \A h : Made(h) => Made(h)'
  BY ONLY <1>1, <1>3, <1>4 DEF Made, ExpectsEcho, Boot!Ack, Boot!Nack
<1>7. \A j : Waits(j) => Waits(j)'
  BY ONLY <1>1, <1>2, <1>4, <1>6 DEF Waits
<1>8. Refused => Refused'
  BY ONLY <1>1, <1>2, <1>4 DEF Refused, Refusing, ExpectsEcho, ExpectsFrame, Carries,
     Boot!Ack
<1>9. InCall => InCall'
  BY ONLY <1>1, <1>5, <1>7, <1>8, CallIs
<1>10. Executed => Executed'
  BY ONLY <1>1, ExecutedStays
<1> QED BY ONLY <1>1, <1>2, <1>9, <1>10, BootInv DEF BootInv

\* Before the first call the firmware runs.
LEMMA BootInit == Init => BootInv
BY DEF Init, Native!Init, Boot!Init, Boot!NoOp, Boot!Booted, BootInv, BootPCs, OpKinds

\* No step breaks the invariant.
LEMMA BootStepInv ==
    Readable /\ TypeInv /\ TypeInv' /\ SyncInv /\ SyncInv' /\ BootInv /\ [Next]_vars
        => BootInv'
BY ONLY ClientBoot, DriverBoot, HardwareBoot, BootStutters DEF Next

\* A call that returned something true was carried out as it was meant, and what it
\* returns is what the boot loader holds.
LEMMA ExecutedIsDone ==
    ASSUME op \in Boot!Operations, calls \in Nat, Executed
    PROVE  /\ op.kind \in { "write", "erase", "jump" } =>
                  loader.did = << op.kind, calls, Boot!Meant(op, calls) >>
           /\ op.kind = "read" =>
                  data = [ i \in 1 .. op.n |-> << "stored", calls, i >> ]
           /\ op.kind = "id" => data = [ i \in 1 .. 2 |-> << "stored", calls, i >> ]
           /\ op.kind = "version" => data = << << "value", calls >> >>
<1>1. op.kind \in { "write", "erase", "jump" } => Told = Boot!Meant(op, calls)
  BY DEF Told
<1>2. PICK n \in Nat : n = Len(Whole)
  <2>1. Whole \in Seq(Steps)
    BY ONLY op \in Boot!Operations, calls \in Nat, ScriptRight DEF Whole
  <2> QED BY ONLY <2>1, LenProperties
<1>3. /\ op.kind = "version" => n = 9
      /\ op.kind = "id" => n = 10
      /\ op.kind = "read" => n = 16
  BY ONLY <1>2, op \in Boot!Operations, calls \in Nat, VersionIs, IdIs, ReadIs
<1>4. DataAt(n) /\ (op.kind \in { "write", "erase", "jump" } =>
                       loader.did = << op.kind, calls, Told >>)
  BY ONLY <1>2, Executed DEF Executed
<1>5. op.kind = "version" => data = << << "value", calls >> >>
  <2>0. 9 >= 6
    OBVIOUS
  <2>1. op.kind = "version" => n >= 6
    BY ONLY <1>3, <2>0
  <2> QED BY ONLY <1>4, <2>1 DEF DataAt
<1>6. op.kind = "id" => data = Bytes0(2)
  <2>0. 10 >= 7
    OBVIOUS
  <2>1. op.kind = "id" => n >= 7
    BY ONLY <1>3, <2>0
  <2> QED BY ONLY <1>4, <2>1 DEF DataAt
<1>7. op.kind = "read" => data = Bytes0(op.n)
  <2>0. 16 >= 16
    OBVIOUS
  <2>1. op.kind = "read" => n >= 16
    BY ONLY <1>3, <2>0
  <2> QED BY ONLY <1>4, <2>1 DEF DataAt
<1> QED BY ONLY <1>1, <1>4, <1>5, <1>6, <1>7 DEF Bytes0

\* The invariant says what TrueMeansDone does, and what LoaderFollows does.
LEMMA BootIsDone == TypeInv /\ BootInv => TrueMeansDone /\ Boot!LoaderFollows
<1> SUFFICES ASSUME TypeInv, BootInv PROVE TrueMeansDone /\ Boot!LoaderFollows
  OBVIOUS
<1>1. runs \in { "firmware", "loader" } /\ calls \in Nat
  BY ONLY TypeInv, ConstantsNat DEF TypeInv, ResetTypes, NativeTypes
<1>2. Boot!LoaderFollows
  BY ONLY <1>1, BootInv DEF BootInv, Boot!LoaderFollows
<1>3. ASSUME pc = "idle", intact, result \in { << "true" >>, << "read" >> }
      PROVE  /\ op.kind \in { "write", "erase", "jump" } =>
                    loader.did = << op.kind, calls, Boot!Meant(op, calls) >>
             /\ op.kind = "read" =>
                    data = [ i \in 1 .. op.n |-> << "stored", calls, i >> ]
             /\ op.kind = "id" => data = [ i \in 1 .. 2 |-> << "stored", calls, i >> ]
             /\ op.kind = "version" => data = << << "value", calls >> >>
  <2>1. CASE op.kind \notin OpKinds
    BY ONLY <2>1 DEF OpKinds
  <2>2. CASE op.kind \in OpKinds
    <3>1. op \in Boot!Operations /\ runs = "loader"
      BY ONLY <1>1, <2>2, BootInv DEF BootInv
    <3>2. result[1] \in { "true", "read" }
      BY ONLY <1>3
    <3>3. Executed
      BY ONLY <1>3, <2>2, <3>1, <3>2, BootInv DEF BootInv
    <3> QED BY ONLY <1>1, <3>1, <3>3, ExecutedIsDone
  <2> QED BY ONLY <2>1, <2>2
<1>4. TrueMeansDone
  BY ONLY <1>3 DEF TrueMeansDone, Boot!TrueMeansDone
<1> QED BY ONLY <1>2, <1>4

\* The invariant holds throughout.
LEMMA BootHolds == Readable => (Spec => []BootInv)
<1> SUFFICES ASSUME Readable PROVE Spec => []BootInv
  OBVIOUS
<1>1. Init => SyncInv
  BY SyncInit
<1>2. TypeInv /\ TypeInv' /\ SyncInv /\ [Next]_vars => SyncInv'
  BY SyncStep
<1>3. Init => BootInv
  BY BootInit
<1>4. TypeInv /\ TypeInv' /\ SyncInv /\ SyncInv' /\ BootInv /\ [Next]_vars => BootInv'
  BY BootStepInv
<1> QED BY <1>1, <1>2, <1>3, <1>4, McuTypeInv, PTL DEF Spec

\* A call of the boot loader that succeeds, where none was given up half-way, has done
\* what it was called for on the address, the sectors and the bytes it names, and what
\* it read is what the boot loader sent for it, whole, whichever timeouts went
\* unnoticed on the way (src/core/mcu/nile_mcu_boot_*.c).
THEOREM BootCallsAreDone == Readable => (Spec => []TrueMeansDone)
<1> SUFFICES ASSUME Readable PROVE Spec => []TrueMeansDone
  OBVIOUS
<1>1. Spec => []BootInv
  BY BootHolds
<1>2. TypeInv /\ BootInv => TrueMeansDone
  BY BootIsDone
<1> QED BY <1>1, <1>2, McuTypeInv, PTL

\* The two sides never disagree about where in either protocol they are, unless a call
\* was given up half-way since the reset: the firmware takes no word for another's, and
\* the boot loader meets nothing it does not expect and no wrong checksum, however many
\* calls are made, with whatever sizes, and whatever it refuses.
THEOREM TwoSidesFollow == Roomy /\ Readable => (Spec => []McuFollows)
<1> SUFFICES ASSUME Roomy, Readable PROVE Spec => []McuFollows
  OBVIOUS
<1>1. Spec => []Native!ArgumentsAreOwn
  BY FirmwareFollows
<1>2. Spec => []BootInv
  BY BootHolds
<1>3. TypeInv /\ BootInv /\ Native!ArgumentsAreOwn => McuFollows
  BY BootIsDone DEF McuFollows
<1> QED BY <1>1, <1>2, <1>3, McuTypeInv, PTL
==============================================================================
