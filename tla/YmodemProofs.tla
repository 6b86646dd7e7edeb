---------------------------- MODULE YmodemProofs ----------------------------
(***************************************************************************)
(* The YModem transfer, for every protocol, number and length of files,    *)
(* frame size, retry limit and number of faults.                           *)
(*                                                                         *)
(* Form is the inductive invariant of the types: what is on the line is an *)
(* atom, and a body on it names a file of the batch; the loops of both     *)
(* ends are strictly below their limits while they go on.                  *)
(*                                                                         *)
(* SaveInv is the inductive invariant of what the receiver saves.  LineInv *)
(* orders what is on the line by file and number; it holds whatever goes   *)
(* wrong, as reading, losing and corrupting only thins the line.  While no *)
(* save fails and the ends are not apart, PreInv says how far the sender   *)
(* can be before the file is open, FrameInv that the receiver holds the    *)
(* first e blocks, awaits the next one, and finds nothing on the line that *)
(* is behind e or a whole round of sequence numbers ahead: the number then *)
(* tells the block.  DoneInv keeps the result once receiver_run returns.   *)
(*                                                                         *)
(* WholeInv is the inductive invariant of a transfer without faults.  The  *)
(* frames on the line are a Chain in which each repeats or succeeds the    *)
(* one before it, the last one is the one the sender is at, and the next   *)
(* to be read repeats or succeeds the receiver's position: no block can be *)
(* missing when the EOT arrives, however the ends' timeouts interleave.    *)
(***************************************************************************)
EXTENDS Ymodem, SequenceTheorems, TLAPS

Units   == (0 .. Files) \X Nat
Areas   == {d \in Seq(Units) : d # <<>>}
Bodies  == [t : {"body"}, seq : 0 .. SeqCount - 1, data : Areas, crc : 1 .. 2, ok : BOOLEAN,
            f : 1 .. Files, k : Nat]
Eots    == [t : {"eot"}, f : 1 .. Files, k : Nat]
Atoms   == {HEAD, CAN, JUNK} \cup Eots \cup Bodies
Answers == {"C", "NAK", "ACK", "CAN", "noise"}
States  == {"CONNECTING", "CONNECTED", "FILEXFER", "ENDOFXFER", "ENDING", "ENDED"}

Results == {"none", "OK", "ERR_CAN", "ERR_ACK", "ERR_RETRY", "ERR_FILE", "ERR_CRC", "ERR_SEQ", "ERR_HEAD"}

LineForm == toR \in Seq(Atoms) /\ toS \in Seq(Answers)
Senders  ==
  [at : {"handshake", "info", "info_request", "data", "eot", "eot1", "eot2", "end_request",
         "end", "done"},
   ymodem : BOOLEAN, file : 1 .. Files, chunk : Nat \ {0}, try : Nat, crc : 1 .. 2, res : Results]
SndForm  ==
  /\ snd \in Senders
  /\ snd.chunk <= Chunks
  /\ snd.try < HandshakeRetry \/ snd.try < SendRetry
Receivers ==
  [at : {"request", "wait", "first", "frames", "done"}, shake : 0 .. HandshakeRetry,
   head : {"none", "SOH", "EOT", "bad"}, errors : 0 .. SendRetry - 1, crc : 1 .. 2, ymodem : BOOLEAN, state : States,
   expected : 0 .. SeqCount - 1, file : 0 .. Files, open : BOOLEAN, res : Results]
RcvForm   == rcv \in Receivers /\ (rcv.at \in {"wait", "first"} => rcv.shake < HandshakeRetry)
FaultForm == faults \in [line : Nat, save : Nat] /\ faults.line + faults.save <= MaxFaults

Form == LineForm /\ SndForm /\ RcvForm /\ FaultForm /\ apart \in BOOLEAN

\* The bounds of the constants, one by one.
LEMMA Sizes ==
  /\ Files \in Nat /\ Files >= 1 /\ FileLen \in Nat /\ FileLen >= 1
  /\ SohSize \in Nat /\ SohSize >= 1 /\ StxSize \in Nat /\ StxSize >= 1
  /\ SeqCount \in Nat /\ SeqCount >= 2 /\ HandshakeRetry \in Nat /\ HandshakeRetry >= 1
  /\ SendRetry \in Nat /\ SendRetry >= 1 /\ MaxFaults \in Nat /\ SohSize < StxSize
  BY YmodemAssumption

\* The greater and the smaller of two numbers (Max and Min of the library).
LEMMA Greater ==
  ASSUME NEW a \in Int, NEW b \in Int
  PROVE  Max({a, b}) \in {a, b} /\ Max({a, b}) >= a /\ Max({a, b}) >= b
<1> DEFINE P(x) == \A y \in {a, b} : x >= y
<1>1. \E x \in {a, b} : P(x)  OBVIOUS
<1>2. (CHOOSE x \in {a, b} : P(x)) \in {a, b} /\ P(CHOOSE x \in {a, b} : P(x))
  <2> HIDE DEF P
  <2> QED  BY <1>1
<1> QED  BY <1>2 DEF Max

LEMMA Smaller ==
  ASSUME NEW a \in Int, NEW b \in Int
  PROVE  Min({a, b}) \in {a, b} /\ Min({a, b}) <= a /\ Min({a, b}) <= b
<1> DEFINE P(x) == \A y \in {a, b} : x =< y
<1>1. \E x \in {a, b} : P(x)  OBVIOUS
<1>2. (CHOOSE x \in {a, b} : P(x)) \in {a, b} /\ P(CHOOSE x \in {a, b} : P(x))
  <2> HIDE DEF P
  <2> QED  BY <1>1
<1> QED  BY <1>2 DEF Min

\* Sequence numbers are remainders.
LEMMA Remainder ==
  ASSUME NEW a \in Nat, NEW n \in Nat, n >= 1
  PROVE  a % n \in 0 .. n - 1
  OBVIOUS

\* Division with remainder, for a divisor that is not a constant number.
LEMMA Division ==
  ASSUME NEW a \in Nat, NEW n \in Nat, n >= 1
  PROVE  \E q \in Nat, r \in 0 .. n - 1 : a % n = r /\ a = n * q + r
<1> DEFINE q == a \div n  r == a % n
<1>1. a % n = a - n * (a \div n)  OBVIOUS
<1>2. q \in Nat  OBVIOUS
<1>3. r \in 0 .. n - 1  OBVIOUS
<1>4. r = a - n * q /\ a % n = r  BY <1>1
<1> HIDE DEF q, r
<1>5. n * q \in Nat  BY <1>2
<1>6. a = n * q + r  BY <1>3, <1>4, <1>5
<1> QED  BY <1>2, <1>3, <1>4, <1>6

\* The remainder is unique.
LEMMA Quotients ==
  ASSUME NEW n \in Nat, n >= 1, NEW p \in Nat, NEW q \in Nat, NEW r \in 0 .. n - 1,
         NEW s \in 0 .. n - 1, n * p + r = n * q + s
  PROVE  r = s
<1>1. CASE q >= p + 1
  <2>1. n * q >= n * (p + 1)  BY <1>1, Z3
  <2>2. n * (p + 1) = n * p + n  OBVIOUS
  <2>3. n * p \in Nat /\ n * q \in Nat  OBVIOUS
  <2> QED  BY <2>1, <2>2, <2>3
<1>2. CASE p >= q + 1
  <2>1. n * p >= n * (q + 1)  BY <1>2, Z3
  <2>2. n * (q + 1) = n * q + n  OBVIOUS
  <2>3. n * p \in Nat /\ n * q \in Nat  OBVIOUS
  <2> QED  BY <2>1, <2>2, <2>3
<1>3. CASE p = q
  <2>1. n * p \in Nat  OBVIOUS
  <2> QED  BY <2>1, <1>3
<1> QED  BY <1>1, <1>2, <1>3

LEMMA RemainderIs ==
  ASSUME NEW n \in Nat, n >= 1, NEW q \in Nat, NEW r \in 0 .. n - 1
  PROVE  (n * q + r) % n = r
<1> DEFINE a == n * q + r
<1>1. a \in Nat  OBVIOUS
<1> HIDE DEF a
<1>2. PICK p \in Nat, s \in 0 .. n - 1 : a % n = s /\ a = n * p + s  BY <1>1, Division
<1>4. s = r
  <2>1. n * p + s = n * q + r  BY <1>2 DEF a
  <2> QED  BY <2>1, Quotients
<1> QED  BY <1>2, <1>4 DEF a

LEMMA SmallRemainder ==
  ASSUME NEW n \in Nat, n >= 1, NEW r \in 0 .. n - 1
  PROVE  r % n = r
<1>1. n * 0 + r = r  OBVIOUS
<1> QED  BY <1>1, RemainderIs

\* Two numbers less than n apart with the same remainder are equal.
LEMMA SameRemainder ==
  ASSUME NEW a \in Nat, NEW b \in Nat, NEW n \in Nat, n >= 1, a <= b, b < a + n, a % n = b % n
  PROVE  a = b
<1>1. PICK p \in Nat, r \in 0 .. n - 1 : a % n = r /\ a = n * p + r  BY Division
<1>2. PICK q \in Nat, s \in 0 .. n - 1 : b % n = s /\ b = n * q + s  BY Division
<1>7. r = s  BY <1>1, <1>2
<1>3. n * p \in Nat /\ n * q \in Nat  OBVIOUS
<1>4. CASE q >= p + 1
  <2>1. n * q >= n * (p + 1)  BY <1>4, Z3
  <2>2. n * (p + 1) = n * p + n  OBVIOUS
  <2> QED  BY <1>1, <1>2, <1>3, <1>7, <2>1, <2>2
<1>5. CASE p >= q + 1
  <2>1. n * p >= n * (q + 1)  BY <1>5, Z3
  <2>2. n * (q + 1) = n * q + n  OBVIOUS
  <2> QED  BY <1>1, <1>2, <1>3, <1>7, <2>1, <2>2
<1>6. CASE p = q  BY <1>1, <1>2, <1>6, <1>7
<1> QED  BY <1>4, <1>5, <1>6

LEMMA NextRemainder ==
  ASSUME NEW a \in Nat, NEW n \in Nat, n >= 1
  PROVE  ((a % n) + 1) % n = (a + 1) % n
<1>1. PICK q \in Nat, r \in 0 .. n - 1 : a % n = r /\ a = n * q + r  BY Division
<1>2. n * q \in Nat  OBVIOUS
<1>3. CASE r + 1 <= n - 1
  <2>1. r + 1 \in 0 .. n - 1 /\ a + 1 = n * q + (r + 1)  BY <1>1, <1>2, <1>3
  <2>2. (r + 1) % n = r + 1  BY <2>1, SmallRemainder
  <2>3. (n * q + (r + 1)) % n = r + 1  BY <2>1, RemainderIs
  <2> QED  BY <1>1, <2>1, <2>2, <2>3
<1>4. CASE r + 1 = n
  <2>1. n * (q + 1) = n * q + n  OBVIOUS
  <2>2. a + 1 = n * (q + 1) + 0 /\ n = n * 1 + 0  BY <1>1, <1>2, <1>4, <2>1
  <2>3. (n * (q + 1) + 0) % n = 0 /\ (n * 1 + 0) % n = 0  BY RemainderIs
  <2> QED  BY <1>1, <1>4, <2>2, <2>3
<1> QED  BY <1>1, <1>3, <1>4

LEMMA PreviousRemainder ==
  ASSUME NEW a \in Nat, NEW n \in Nat, n >= 1
  PROVE  (((a + 1) % n) + n - 1) % n = a % n
<1> DEFINE s == (a + 1) % n
<1>1. s \in 0 .. n - 1  OBVIOUS
<1> HIDE DEF s
<1>2. s + n - 1 \in Nat  BY <1>1
<1> DEFINE b == s + n - 1
<1>3. b \in Nat  BY <1>2
<1> HIDE DEF b
<1>4. ((b % n) + 1) % n = (b + 1) % n  BY <1>3, NextRemainder
<1>5. b + 1 = n * 1 + s  BY <1>1 DEF b
<1>6. (b + 1) % n = s  BY <1>1, <1>5, RemainderIs
<1>7. ((a % n) + 1) % n = s  BY NextRemainder DEF s
<1> DEFINE x == a % n  y == b % n
<1>8. x \in 0 .. n - 1 /\ y \in 0 .. n - 1  BY <1>3
<1> HIDE DEF x, y
<1>9. (x + 1) % n = (y + 1) % n  BY <1>4, <1>6, <1>7 DEF x, y
<1>10. CASE x <= y
  <2>1. x + 1 \in Nat /\ y + 1 \in Nat /\ x + 1 <= y + 1 /\ y + 1 < (x + 1) + n  BY <1>8, <1>10
  <2>2. x + 1 = y + 1  BY <2>1, <1>9, SameRemainder
  <2> QED  BY <2>2, <1>8 DEF x, y, b, s
<1>11. CASE y <= x
  <2>1. x + 1 \in Nat /\ y + 1 \in Nat /\ y + 1 <= x + 1 /\ x + 1 < (y + 1) + n  BY <1>8, <1>11
  <2>2. y + 1 = x + 1  BY <2>1, <1>9, SameRemainder
  <2> QED  BY <2>2, <1>8 DEF x, y, b, s
<1> QED  BY <1>8, <1>10, <1>11

LEMMA Cancel ==
  ASSUME NEW a \in Int, NEW b \in Int, NEW n \in Nat, n >= 1, a * n <= b * n
  PROVE  a <= b
  BY Z3

\* Both protocols send at least one block.
LEMMA ChunksOfSender ==
  ASSUME snd \in Senders
  PROVE  Chunks \in Nat /\ Chunks >= 1 /\ BlockSize \in Nat /\ BlockSize >= 1
<1>1. BlockSize \in Nat /\ BlockSize >= 1  BY Sizes DEF BlockSize
<1>2. ASSUME NEW a \in Nat, NEW b \in Nat, b >= 1
      PROVE  a \div b \in Nat /\ (a >= b => a \div b >= 1)
  BY <1>2, Z3
<1>3. FileLen \div StxSize + 1 \in Nat /\ FileLen \div StxSize + 1 >= 1
  BY <1>2, Sizes
<1>4. FileLen + SohSize - 1 \in Nat /\ FileLen + SohSize - 1 >= SohSize  BY Sizes
<1>5. (FileLen + SohSize - 1) \div SohSize \in Nat /\ (FileLen + SohSize - 1) \div SohSize >= 1
  <2> DEFINE a == FileLen + SohSize - 1
  <2> HIDE DEF a
  <2> QED  BY <1>2, <1>4, Sizes DEF a
<1> QED  BY <1>1, <1>3, <1>5 DEF Chunks

LEMMA ChunksPositive ==
  ASSUME SndForm
  PROVE  Chunks \in Nat /\ Chunks >= 1 /\ BlockSize \in Nat /\ BlockSize >= 1
  BY ChunksOfSender DEF SndForm

\* A block names its file in every unit it carries of it.
LEMMA ChunkDataForm ==
  ASSUME SndForm, NEW f \in 1 .. Files, NEW k \in Nat \ {0}
  PROVE  ChunkData(f, k) \in Areas
<1> DEFINE size == IF snd.ymodem /\ ChunkLen(k) > SohSize THEN StxSize ELSE SohSize
           start == (k - 1) * BlockSize
           area == [j \in 1 .. size |-> IF j <= ChunkLen(k) THEN Unit(f, start + j) ELSE Pad]
<1>1. size \in Nat /\ size >= 1  BY Sizes
<1>2. start \in Nat
  <2>1. BlockSize \in Nat /\ k - 1 \in Nat  BY ChunksPositive
  <2> QED  BY <2>1
<1>3. ChunkData(f, k) = area  BY DEF ChunkData
<1> HIDE DEF start, size
<1>4. ASSUME NEW j \in 1 .. size PROVE area[j] \in Units
  BY <1>1, <1>2, Sizes DEF Units, Unit, Pad
<1>5. area \in Seq(Units) /\ Len(area) = size  BY <1>1, <1>4
<1>6. area # <<>>
  <2> HIDE DEF area
  <2> QED  BY <1>5, <1>1, EmptySeq
<1> QED  BY <1>3, <1>5, <1>6 DEF Areas

LEMMA BodyForm ==
  ASSUME NEW seq \in 0 .. SeqCount - 1, NEW data \in Areas, NEW crc \in 1 .. 2,
         NEW f \in 1 .. Files, NEW k \in Nat
  PROVE  <<HEAD, Body(seq, data, crc, f, k)>> \in Seq(Atoms)
  BY DEF Body, Bodies, Atoms

LEMMA TransmissionForm ==
  ASSUME SndForm, NEW at, NEW f \in 1 .. Files, NEW k \in Nat \ {0}, NEW crc \in 1 .. 2
  PROVE  Transmission(at, f, k, crc) \in Seq(Atoms)
<1>1. CASE at \in {"info", "info_request"}
  <2>1. InfoData(f) \in Areas  BY Sizes DEF InfoData, Areas, Units, Unit
  <2>2. Transmission(at, f, k, crc) = <<HEAD, Body(0, InfoData(f), crc, f, 0)>>
    BY <1>1 DEF Transmission
  <2> QED  BY <2>1, <2>2, BodyForm, Sizes
<1>2. CASE at = "data"
  <2>1. k % SeqCount \in 0 .. SeqCount - 1  BY Remainder, Sizes
  <2>2. Transmission(at, f, k, crc) = <<HEAD, Body(k % SeqCount, ChunkData(f, k), crc, f, k)>>
    BY <1>2 DEF Transmission
  <2> QED  BY <2>1, <2>2, BodyForm, ChunkDataForm
<1>3. CASE at \in {"eot", "eot1", "eot2"}
  <2>1. Transmission(at, f, k, crc) = <<EOT(f, Chunks + 1)>>  BY <1>3 DEF Transmission
  <2>2. Chunks + 1 \in Nat  BY ChunksPositive
  <2>3. EOT(f, Chunks + 1) \in Atoms
    <3> DEFINE n == Chunks + 1
    <3>1. n \in Nat  BY <2>2
    <3> HIDE DEF n
    <3>2. EOT(f, n) \in Atoms  BY <3>1 DEF EOT, Eots, Atoms
    <3> QED  BY <3>2 DEF n
  <2> QED  BY <2>1, <2>3
<1>4. CASE at = "end"
  <2>1. EndData \in Areas  BY Sizes DEF EndData, Areas, Units, Pad
  <2>2. Transmission(at, f, k, crc) = <<HEAD, Body(0, EndData, crc, f, Chunks + 2)>>
    BY <1>4 DEF Transmission
  <2>3. Chunks + 2 \in Nat  BY ChunksPositive
  <2> QED  BY <2>1, <2>2, <2>3, BodyForm, Sizes
<1>5. CASE at \notin {"info", "info_request", "data", "eot", "eot1", "eot2", "end"}
  <2>1. Transmission(at, f, k, crc) = <<>>  BY <1>5 DEF Transmission
  <2> QED  BY <2>1
<1> QED  BY <1>1, <1>2, <1>3, <1>4, <1>5

-----------------------------------------------------------------------------
(* The sender.                                                              *)

\* The protocol of a transfer is fixed, and with it the number of blocks.
LEMMA ChunksFixed == snd'.ymodem = snd.ymodem => Chunks' = Chunks
  BY DEF Chunks

\* The loops below send atoms, and stay below their limits.
LEMMA EnterForm ==
  ASSUME LineForm, SndForm, NEW at \in {"info", "data", "eot", "eot1", "eot2", "end_request", "end"},
         NEW f \in 1 .. Files, NEW k \in Nat \ {0}, k <= Chunks, Enter(at, f, k)
  PROVE  SndForm' /\ toR' \in Seq(Atoms)
<1>0. snd' = [snd EXCEPT !.at = at, !.file = f, !.chunk = k, !.try = 0]  BY DEF Enter
<1>1. SndForm'
  <2>1. snd' \in Senders /\ snd'.ymodem = snd.ymodem /\ snd'.chunk = k /\ snd'.try = 0
    BY <1>0, Sizes DEF SndForm, Senders
  <2> QED  BY <2>1, ChunksFixed, Sizes DEF SndForm
<1>2. snd'.crc \in 1 .. 2  BY <1>1 DEF SndForm, Senders
<1>3. Transmission(at, f, k, snd'.crc) \in Seq(Atoms)  BY <1>2, TransmissionForm
<1> QED  BY <1>1, <1>3, ConcatProperties DEF Enter, LineForm

LEMMA FinishForm ==
  ASSUME LineForm, SndForm, NEW res \in Results, Finish(res)
  PROVE  SndForm' /\ toR' \in Seq(Atoms)
<1>1. SndForm'
  <2>1. snd'.ymodem = snd.ymodem  BY DEF SndForm, Senders, Finish
  <2> QED  BY <2>1, ChunksFixed, Sizes DEF SndForm, Senders, Finish
<1>2. <<CAN>> \in Seq(Atoms) /\ <<>> \in Seq(Atoms)  BY DEF Atoms
<1> QED  BY <1>1, <1>2, ConcatProperties DEF Finish, LineForm

LEMMA AgainForm ==
  ASSUME LineForm, SndForm, NEW res \in Results,
         NEW at \in {"info", "data", "eot", "eot1", "eot2", "end_request", "end"}, Again(at, res)
  PROVE  SndForm' /\ toR' \in Seq(Atoms)
<1>1. CASE snd.try + 1 < SendRetry
  <2>0. snd' = [snd EXCEPT !.at = at, !.try = @ + 1]  BY <1>1 DEF Again
  <2>1. SndForm'
    <3>1. /\ snd' \in Senders /\ snd'.ymodem = snd.ymodem /\ snd'.chunk = snd.chunk
          /\ snd'.try = snd.try + 1
      <4>1. snd.try \in Nat /\ snd.try + 1 \in Nat  BY DEF SndForm, Senders
      <4>2. snd' = [snd EXCEPT !.at = at, !.try = snd.try + 1]  BY <2>0
      <4> QED  BY <4>1, <4>2 DEF SndForm, Senders
    <3> QED  BY <1>1, <3>1, ChunksFixed, Sizes DEF SndForm
  <2>2. Transmission(at, snd.file, snd.chunk, snd.crc) \in Seq(Atoms)
    BY TransmissionForm DEF SndForm, Senders
  <2>3. toR' = toR \o Transmission(at, snd.file, snd.chunk, snd.crc)  BY <1>1 DEF Again
  <2> QED  BY <2>1, <2>2, <2>3, ConcatProperties DEF LineForm
<1>2. CASE ~(snd.try + 1 < SendRetry)
  BY <1>2, FinishForm DEF Again
<1> QED  BY <1>1, <1>2

\* What is read is taken from the front of the answers.
LEMMA ReadForm ==
  ASSUME LineForm
  PROVE  /\ \A c : Wait(c) => toS' \in Seq(Answers)
         /\ \A cs : NoneOf(cs) => toS' \in Seq(Answers)
<1>1. toS # <<>> => Tail(toS) \in Seq(Answers)  BY HeadTailProperties DEF LineForm
<1> QED  BY <1>1 DEF Wait, NoneOf, LineForm

LEMMA HandshakeStep ==
  ASSUME LineForm, SndForm, sender_handshake
  PROVE  SndForm' /\ LineForm'
<1>1. ASSUME NEW c \in {"C", "NAK"}, NEW crc \in 1 .. 2, NEW at \in {"info", "data"}, Wait(c),
             snd' = [snd EXCEPT !.at = at, !.crc = crc, !.try = 0],
             toR' = toR \o Transmission(at, 1, 1, crc)
      PROVE  SndForm' /\ LineForm'
  <2>1. SndForm'
    <3>1. snd' \in Senders /\ snd'.ymodem = snd.ymodem /\ snd'.chunk = snd.chunk /\ snd'.try = 0
      BY <1>1, Sizes DEF SndForm, Senders
    <3> QED  BY <3>1, ChunksFixed, Sizes DEF SndForm
  <2>2. Transmission(at, 1, 1, crc) \in Seq(Atoms)  BY TransmissionForm, Sizes
  <2> QED  BY <1>1, <2>1, <2>2, ConcatProperties, ReadForm DEF LineForm
<1>2. ASSUME toS' = <<>>, snd.try + 1 < HandshakeRetry, snd' = [snd EXCEPT !.try = @ + 1],
             UNCHANGED toR
      PROVE  SndForm' /\ LineForm'
  <2>1. snd'.ymodem = snd.ymodem  BY <1>2 DEF SndForm, Senders
  <2>2. SndForm'  BY <1>2, <2>1, ChunksFixed, Sizes, SMTT(30) DEF SndForm, Senders
  <2> QED  BY <1>2, <2>2 DEF LineForm
<1>3. ASSUME toS' = <<>>, Finish("ERR_RETRY")
      PROVE  SndForm' /\ LineForm'
  BY <1>3, FinishForm DEF Results, LineForm
<1>4. CASE /\ toS' = <<>>
           /\ IF snd.try + 1 < HandshakeRetry
              THEN snd' = [snd EXCEPT !.try = @ + 1] /\ UNCHANGED toR
              ELSE Finish("ERR_RETRY")
  BY <1>2, <1>3, <1>4
<1>5. CASE \E c \in {"C", "NAK"} :
             /\ Wait(c)
             /\ snd' = [snd EXCEPT !.at = IF snd.ymodem THEN "info" ELSE "data",
                                   !.crc = IF c = "C" THEN 2 ELSE 1, !.try = 0]
             /\ toR' = toR \o Transmission(IF snd.ymodem THEN "info" ELSE "data", 1, 1,
                                           IF c = "C" THEN 2 ELSE 1)
  <2>1. PICK c \in {"C", "NAK"} :
             /\ Wait(c)
             /\ snd' = [snd EXCEPT !.at = IF snd.ymodem THEN "info" ELSE "data",
                                   !.crc = IF c = "C" THEN 2 ELSE 1, !.try = 0]
             /\ toR' = toR \o Transmission(IF snd.ymodem THEN "info" ELSE "data", 1, 1,
                                           IF c = "C" THEN 2 ELSE 1)
    BY <1>5
  <2>2. (IF snd.ymodem THEN "info" ELSE "data") \in {"info", "data"}
        /\ (IF c = "C" THEN 2 ELSE 1) \in 1 .. 2
    OBVIOUS
  <2> QED  BY <2>1, <2>2, <1>1
<1> QED
  BY <1>4, <1>5 DEF sender_handshake

LEMMA FileFrameStep ==
  ASSUME LineForm, SndForm, sender_send_file_frame
  PROVE  SndForm' /\ LineForm'
<1>1. toS' \in Seq(Answers)  BY ReadForm DEF sender_send_file_frame
<1>2. SndForm' /\ toR' \in Seq(Atoms)
  <2>1. CASE snd' = [snd EXCEPT !.at = "info_request"] /\ UNCHANGED toR
    <3>1. snd'.ymodem = snd.ymodem  BY <2>1 DEF SndForm, Senders
    <3> QED  BY <2>1, <3>1, ChunksFixed DEF SndForm, Senders, LineForm
  <2>2. CASE Enter("data", snd.file, 1)
    BY <2>2, EnterForm, ChunksPositive DEF SndForm, Senders
  <2>3. CASE Again("info", "ERR_ACK")
    BY <2>3, AgainForm DEF Results
  <2> QED  BY <2>1, <2>2, <2>3 DEF sender_send_file_frame
<1> QED  BY <1>1, <1>2 DEF LineForm

LEMMA FrameStep ==
  ASSUME LineForm, SndForm, sender_send_frame
  PROVE  SndForm' /\ LineForm'
<1>1. toS' \in Seq(Answers)  BY ReadForm DEF sender_send_frame
<1>0. snd.file \in 1 .. Files /\ snd.chunk \in Nat \ {0} /\ snd.chunk <= Chunks /\ Chunks \in Nat
  BY ChunksPositive DEF SndForm, Senders
<1>2. SndForm' /\ toR' \in Seq(Atoms)
  <2>1. CASE snd.chunk < Chunks /\ Enter("data", snd.file, snd.chunk + 1)
    <3>1. snd.chunk + 1 \in Nat \ {0} /\ snd.chunk + 1 <= Chunks  BY <2>1, <1>0
    <3> QED  BY <2>1, <3>1, <1>0, EnterForm
  <2>2. CASE Enter(IF snd.ymodem THEN "eot1" ELSE "eot", snd.file, snd.chunk)
    BY <2>2, <1>0, EnterForm
  <2>3. CASE Finish("ERR_CAN") \/ Finish("ERR_ACK")
    BY <2>3, FinishForm DEF Results
  <2>4. CASE Again("data", "ERR_CAN")
    BY <2>4, AgainForm DEF Results
  <2> QED  BY <2>1, <2>2, <2>3, <2>4 DEF sender_send_frame
<1> QED  BY <1>1, <1>2 DEF LineForm

LEMMA EotStep ==
  ASSUME LineForm, SndForm, sender_send_eot
  PROVE  SndForm' /\ LineForm'
<1>1. toS' \in Seq(Answers)  BY ReadForm DEF sender_send_eot
<1>0. snd.file \in 1 .. Files /\ snd.chunk \in Nat \ {0} /\ snd.chunk <= Chunks /\ Chunks \in Nat
      /\ Chunks >= 1
  BY ChunksPositive DEF SndForm, Senders
<1>2. SndForm' /\ toR' \in Seq(Atoms)
  <2>1. CASE \E at \in {"eot2", "end_request"} : Enter(at, snd.file, snd.chunk)
    BY <2>1, <1>0, EnterForm
  <2>2. CASE SendEnd
    <3>1. CASE snd.file < Files /\ Enter("info", snd.file + 1, 1)
      <4>1. snd.file + 1 \in 1 .. Files  BY <3>1, <1>0, Sizes
      <4> QED  BY <3>1, <4>1, <1>0, EnterForm
    <3>2. CASE Enter("end", snd.file, snd.chunk)
      BY <3>2, <1>0, EnterForm
    <3> QED  BY <2>2, <3>1, <3>2 DEF SendEnd
  <2>3. CASE Finish("OK")
    BY <2>3, FinishForm DEF Results
  <2>4. CASE \E at \in {"eot", "eot1", "eot2", "end_request", "end"} : Again(at, "ERR_ACK")
    BY <2>4, AgainForm DEF Results
  <2> QED  BY <2>1, <2>2, <2>3, <2>4 DEF sender_send_eot
<1> QED  BY <1>1, <1>2 DEF LineForm

LEMMA SenderStep == ASSUME Form, sender_run PROVE Form'
<1>1. SndForm' /\ LineForm'
  BY HandshakeStep, FileFrameStep, FrameStep, EotStep DEF sender_run, Form
<1>2. RcvForm' /\ FaultForm'
  BY DEF sender_run, Form, RcvForm, FaultForm
<1>3. apart' \in BOOLEAN  BY Zenon DEF sender_run, Form, RunsAhead
<1> QED  BY <1>1, <1>2, <1>3 DEF Form
-----------------------------------------------------------------------------
(* The receiver and the line.                                               *)

LEMMA AnswerForm ==
  ASSUME LineForm, NEW s \in Seq(Answers), Answer(s)
  PROVE  toS' \in Seq(Answers)
  BY ConcatProperties DEF LineForm, Answer

\* The atom read, and what stays on the line behind its first byte.
LEMMA HeadForm ==
  ASSUME LineForm, toR # <<>>
  PROVE  /\ Head(toR) \in Atoms /\ Tail(toR) \in Seq(Atoms)
         /\ HeadClasses(Head(toR)) \subseteq {"SOH", "EOT", "bad"}
         /\ \A c : AfterHead(c) \in Seq(Atoms)
<1>1. Head(toR) \in Atoms /\ Tail(toR) \in Seq(Atoms)  BY HeadTailProperties DEF LineForm
<1>2. HeadClasses(Head(toR)) \subseteq {"SOH", "EOT", "bad"}
  BY DEF HeadClasses
<1>3. <<JUNK>> \in Seq(Atoms) /\ <<>> \in Seq(Atoms)  BY DEF Atoms
<1>4. ASSUME NEW c PROVE AfterHead(c) \in Seq(Atoms)
  BY <1>1, <1>3, ConcatProperties DEF AfterHead
<1> QED  BY <1>1, <1>2, <1>4

\* A frame that is verified is a body of the sender's.
LEMMA VerifiedForm ==
  ASSUME NEW line \in Seq(Atoms), receiver_verify_frame(line)
  PROVE  /\ Head(line) \in Bodies /\ Tail(line) \in Seq(Atoms)
         /\ Head(line).seq \in 0 .. SeqCount - 1
         /\ Head(line).data[1][1] \in 0 .. Files
<1>1. line # <<>> /\ Head(line).t = "body"  BY DEF receiver_verify_frame
<1>2. Head(line) \in Atoms /\ Tail(line) \in Seq(Atoms)  BY <1>1, HeadTailProperties
<1>3. Head(line) \in Bodies  BY <1>1, <1>2 DEF Atoms, HEAD, Eots, CAN, JUNK
<1>4. Head(line).data \in Areas /\ Head(line).seq \in 0 .. SeqCount - 1  BY <1>3 DEF Bodies
<1> DEFINE d == Head(line).data
<1> HIDE DEF d
<1>5. d \in Seq(Units) /\ d # <<>>  BY <1>4 DEF Areas, d
<1>6. d[1] \in Units  BY <1>5, EmptySeq, ElementOfSeq, LenProperties
<1>7. d[1][1] \in 0 .. Files  BY <1>6 DEF Units
<1> QED  BY <1>2, <1>3, <1>4, <1>7 DEF d

\* The results of the receiver's steps; those of its loops keep the handshake's bound.
Going(r) == r \in Receivers /\ (r.at \in {"wait", "first"} => r.shake < HandshakeRetry)

LEMMA ReturnForm ==
  ASSUME NEW r \in Receivers, NEW res \in Results
  PROVE  Going(Return(r, res))
  BY DEF Return, Going, Receivers

LEMMA FirstFailsForm ==
  ASSUME NEW r, Going(r), NEW res \in Results
  PROVE  Going(FirstFrameFails(r, res))
<1>1. CASE r.errors + 1 >= SendRetry
  BY <1>1, ReturnForm DEF FirstFrameFails, Going
<1>2. CASE ~(r.errors + 1 >= SendRetry)
  <2>1. r.errors + 1 \in 0 .. SendRetry - 1  BY <1>2, Sizes DEF Going, Receivers
  <2> QED  BY <1>2, <2>1 DEF FirstFrameFails, Going, Receivers
<1> QED  BY <1>1, <1>2

LEMMA OpenedForm ==
  ASSUME NEW r \in Receivers, NEW f \in 0 .. Files
  PROVE  Going(Opened(r, f)) /\ Opened(r, f).at = "frames" /\ Opened(r, f).state = "FILEXFER"
<1>1. 0 \in 0 .. SendRetry - 1  BY Sizes
<1>2. "FILEXFER" \in States  BY DEF States
<1>3. Opened(r, f) \in Receivers  BY <1>1, <1>2 DEF Opened, Receivers
<1>4. Opened(r, f).at = "frames" /\ Opened(r, f).state = "FILEXFER"  BY DEF Opened, Receivers
<1> QED  BY <1>3, <1>4 DEF Going

LEMMA FrameOkForm ==
  ASSUME NEW r, Going(r), FrameOk(r)
  PROVE  RcvForm'
<1>1. CASE r.state = "ENDED"
  <2>1. [r EXCEPT !.open = FALSE] \in Receivers  BY DEF Going, Receivers
  <2> QED  BY <1>1, <2>1, ReturnForm DEF FrameOk, RcvForm, Going, Results
<1>2. CASE r.state # "ENDED"
  <2>1. 0 \in 0 .. SendRetry - 1  BY Sizes
  <2> QED  BY <1>2, <2>1 DEF FrameOk, RcvForm, Going, Receivers
<1> QED  BY <1>1, <1>2

LEMMA FrameErrorForm ==
  ASSUME LineForm, NEW r, Going(r), NEW s \in Seq(Answers), FrameError(r, s)
  PROVE  RcvForm' /\ toS' \in Seq(Answers)
<1>1. CASE r.errors + 1 >= SendRetry
  <2>1. <<"CAN">> \in Seq(Answers)  BY DEF Answers
  <2>2. s \o <<"CAN">> \in Seq(Answers)  BY <2>1, ConcatProperties
  <2>3. rcv' = Return(r, "ERR_RETRY") /\ Answer(s \o <<"CAN">>)  BY <1>1 DEF FrameError
  <2>4. Going(Return(r, "ERR_RETRY"))  BY ReturnForm DEF Going, Results
  <2> QED  BY <2>2, <2>3, <2>4, AnswerForm DEF RcvForm, Going
<1>2. CASE ~(r.errors + 1 >= SendRetry)
  <2>1. r.errors + 1 \in 0 .. SendRetry - 1  BY <1>2, Sizes DEF Going, Receivers
  <2>2. rcv' = [r EXCEPT !.errors = r.errors + 1] /\ Answer(s)  BY <1>2 DEF FrameError
  <2>3. RcvForm'  BY <2>1, <2>2 DEF RcvForm, Going, Receivers
  <2> QED  BY <2>2, <2>3, AnswerForm
<1> QED  BY <1>1, <1>2

\* Lines, faults and the request, as they are after most steps.
LEMMA FaultsForm ==
  ASSUME FaultForm, SaveFault \/ SaveOk
  PROVE  FaultForm'
<1>1. CASE SaveOk  BY <1>1 DEF FaultForm, SaveOk
<1>2. CASE SaveFault
  <2>1. faults.line \in Nat /\ faults.save \in Nat  BY DEF FaultForm
  <2>2. faults' = [faults EXCEPT !.save = faults.save + 1]  BY <1>2 DEF SaveFault
  <2>3. faults' \in [line : Nat, save : Nat] /\ faults'.line = faults.line
        /\ faults'.save = faults.save + 1
    BY <2>1, <2>2 DEF FaultForm
  <2>4. faults.line + faults.save < MaxFaults  BY <1>2 DEF SaveFault, MoreFaults
  <2> QED  BY <2>1, <2>3, <2>4, Sizes DEF FaultForm
<1> QED  BY <1>1, <1>2

LEMMA RequestForm ==
  /\ \A crc : ReceiverRequest(crc) \in Answers
  /\ \A crc : <<ReceiverRequest(crc)>> \in Seq(Answers)
  /\ \A crc : <<"ACK", ReceiverRequest(crc)>> \in Seq(Answers)
  /\ \A crc : <<"ACK", ReceiverRequest(crc)>> \o <<"CAN">> \in Seq(Answers)
  /\ <<"ACK">> \in Seq(Answers) /\ <<"NAK">> \in Seq(Answers) /\ <<"CAN">> \in Seq(Answers)
  /\ <<"ACK", "NAK">> \in Seq(Answers) /\ <<>> \in Seq(Answers)
<1>1. \A crc : ReceiverRequest(crc) \in Answers  BY DEF ReceiverRequest, Answers
<1>2. <<"CAN">> \in Seq(Answers) /\ "ACK" \in Answers /\ "NAK" \in Answers  BY DEF Answers
<1>3. \A crc : <<"ACK", ReceiverRequest(crc)>> \in Seq(Answers)  BY <1>1, <1>2
<1>4. \A crc : <<"ACK", ReceiverRequest(crc)>> \o <<"CAN">> \in Seq(Answers)
  BY <1>2, <1>3, ConcatProperties
<1> QED  BY <1>1, <1>2, <1>3, <1>4

LEMMA RequestStep == ASSUME Form, receiver_send_request PROVE LineForm' /\ RcvForm' /\ FaultForm'
<1>1. FaultForm'  BY DEF receiver_send_request, Form, FaultForm
<1> DEFINE crc == IF rcv.crc = 2 /\ rcv.shake >= HandshakeRetry \div 2 THEN 1 ELSE rcv.crc
<1>2. crc \in 1 .. 2  BY DEF Form, RcvForm, Receivers
<1> HIDE DEF crc
<1>3. CASE rcv.shake < HandshakeRetry
  <2>1. rcv' = [rcv EXCEPT !.at = "wait", !.crc = crc] /\ Answer(<<ReceiverRequest(crc)>>)
        /\ UNCHANGED toR
    BY <1>3 DEF receiver_send_request, crc
  <2>2. RcvForm'  BY <1>2, <1>3, <2>1 DEF Form, RcvForm, Receivers
  <2>3. toS' \in Seq(Answers)  BY <2>1, AnswerForm, RequestForm DEF Form
  <2> QED  BY <1>1, <2>1, <2>2, <2>3 DEF Form, LineForm
<1>4. CASE ~(rcv.shake < HandshakeRetry)
  <2>1. rcv' = Return(rcv, "ERR_RETRY") /\ toR' = <<>> /\ UNCHANGED toS
    BY <1>4 DEF receiver_send_request
  <2>2. RcvForm'  BY <2>1, ReturnForm DEF Form, RcvForm, Going, Results
  <2> QED  BY <1>1, <2>1, <2>2 DEF Form, LineForm
<1> QED  BY <1>3, <1>4

LEMMA FirstByteStep == ASSUME Form, receiver_first_byte PROVE LineForm' /\ RcvForm' /\ FaultForm'
<1>1. FaultForm'  BY DEF receiver_first_byte, Form, FaultForm
<1>2. rcv.at \in {"wait", "first"} /\ rcv.shake + 1 \in 0 .. HandshakeRetry
  <2>1. rcv.at \in {"wait", "first"}  BY DEF receiver_first_byte
  <2>2. rcv.shake \in Nat /\ rcv.shake < HandshakeRetry
    BY <2>1 DEF Form, RcvForm, Receivers
  <2> QED  BY <2>1, <2>2, Sizes
<1>3. CASE rcv' = [rcv EXCEPT !.at = "request", !.shake = @ + 1] /\ UNCHANGED toR
  <2>1. RcvForm'  BY <1>2, <1>3 DEF Form, RcvForm, Receivers
  <2> QED  BY <1>1, <1>3, <2>1 DEF receiver_first_byte, Form, LineForm
<1>4. CASE toR # <<>> /\ \E c \in HeadClasses(Head(toR)) :
             /\ toR' = AfterHead(c)
             /\ rcv' = [rcv EXCEPT !.at = "first", !.head = c,
                                   !.errors = IF rcv.at = "wait" THEN 0 ELSE @]
  <2>1. PICK c \in HeadClasses(Head(toR)) :
             /\ toR' = AfterHead(c)
             /\ rcv' = [rcv EXCEPT !.at = "first", !.head = c,
                                   !.errors = IF rcv.at = "wait" THEN 0 ELSE @]
    BY <1>4
  <2>2. c \in {"SOH", "EOT", "bad"} /\ toR' \in Seq(Atoms)
    BY <1>4, <2>1, HeadForm DEF Form
  <2>3. (IF rcv.at = "wait" THEN 0 ELSE rcv.errors) \in 0 .. SendRetry - 1
    BY Sizes DEF Form, RcvForm, Receivers
  <2>4. rcv' = [rcv EXCEPT !.at = "first", !.head = c,
                           !.errors = IF rcv.at = "wait" THEN 0 ELSE rcv.errors]
    BY <2>1
  <2>5. RcvForm'  BY <1>2, <2>2, <2>3, <2>4 DEF Form, RcvForm, Receivers
  <2> QED  BY <1>1, <2>2, <2>5 DEF receiver_first_byte, Form, LineForm
<1> QED  BY <1>3, <1>4 DEF receiver_first_byte

LEMMA FirstInfoForm ==
  ASSUME Form, rcv.at = "first", NEW b \in Bodies, b.data[1][1] \in 0 .. Files, FirstInfoFrame(b)
  PROVE  RcvForm' /\ toS' \in Seq(Answers) /\ FaultForm'
<1> DEFINE r == [rcv EXCEPT !.ymodem = TRUE, !.expected = 1, !.state = "CONNECTED"]
<1>1. Going(r) /\ r \in Receivers
  <2>1. 1 \in 0 .. SeqCount - 1 /\ "CONNECTED" \in States  BY Sizes DEF States
  <2> QED  BY <2>1 DEF Form, RcvForm, Receivers, Going
<1> HIDE DEF r
<1>2. FaultForm'  BY FaultsForm DEF FirstInfoFrame, Form
<1>3. CASE rcv' = Opened(r, b.data[1][1]) /\ Answer(<<"ACK", ReceiverRequest(rcv.crc)>>)
  BY <1>1, <1>2, <1>3, OpenedForm, AnswerForm, RequestForm DEF Form, RcvForm, Going
<1>4. CASE /\ rcv' = FirstFrameFails(r, "ERR_FILE")
           /\ Answer(<<"ACK", ReceiverRequest(rcv.crc)>> \o <<"CAN">>)
  BY <1>1, <1>2, <1>4, FirstFailsForm, AnswerForm, RequestForm DEF Form, RcvForm, Going, Results
<1> QED  BY <1>3, <1>4 DEF FirstInfoFrame, r

LEMMA FirstDataForm ==
  ASSUME Form, rcv.at = "first", NEW b \in Bodies, FirstDataFrame(b)
  PROVE  RcvForm' /\ toS' \in Seq(Answers) /\ FaultForm'
<1> DEFINE r == [rcv EXCEPT !.ymodem = FALSE, !.expected = 2 % SeqCount, !.state = "CONNECTED"]
           r2 == [rcv EXCEPT !.ymodem = FALSE]
<1>1. Going(r) /\ r \in Receivers
  <2>1. 2 % SeqCount \in 0 .. SeqCount - 1 /\ "CONNECTED" \in States
    BY Sizes, Remainder DEF States
  <2> QED  BY <2>1 DEF Form, RcvForm, Receivers, Going
<1>2. Going(r2)  BY DEF Form, RcvForm, Receivers, Going
<1> HIDE DEF r, r2
<1>3. FaultForm'  BY FaultsForm DEF FirstDataFrame, Form, SaveOk
<1>4. CASE rcv' = Opened(r, 1) /\ Answer(<<"ACK">>)
  <2>1. 1 \in 0 .. Files  BY Sizes
  <2> QED  BY <1>1, <1>3, <1>4, <2>1, OpenedForm, AnswerForm, RequestForm DEF Form, RcvForm, Going
<1>5. CASE rcv' = FirstFrameFails(r, "ERR_FILE") /\ Answer(<<"CAN">>)
  BY <1>1, <1>3, <1>5, FirstFailsForm, AnswerForm, RequestForm DEF Form, RcvForm, Going, Results
<1>6. CASE rcv' = FirstFrameFails(r2, "ERR_SEQ") /\ Answer(<<"NAK">>)
  BY <1>2, <1>3, <1>6, FirstFailsForm, AnswerForm, RequestForm DEF Form, RcvForm, Going, Results
<1> QED  BY <1>4, <1>5, <1>6 DEF FirstDataFrame, r, r2

LEMMA FirstFrameStep ==
  ASSUME Form, receiver_process_first_frame
  PROVE  LineForm' /\ RcvForm' /\ FaultForm'
<1>1. CASE /\ toR' = <<>> /\ Answer(<<"NAK">>) /\ rcv' = FirstFrameFails(rcv, "ERR_CRC")
           /\ UNCHANGED <<saved, faults>>
  <2>1. Going(FirstFrameFails(rcv, "ERR_CRC"))
    BY FirstFailsForm DEF Form, RcvForm, Going, Results
  <2>2. RcvForm'  BY <1>1, <2>1 DEF RcvForm, Going
  <2>3. toS' \in Seq(Answers)  BY <1>1, AnswerForm, RequestForm DEF Form
  <2>4. FaultForm'  BY <1>1 DEF Form, FaultForm
  <2> QED  BY <1>1, <2>2, <2>3, <2>4 DEF LineForm
<1>2. CASE /\ receiver_verify_frame(toR) /\ toR' = Tail(toR)
           /\ FirstInfoFrame(Head(toR)) \/ FirstDataFrame(Head(toR))
  <2>1. Head(toR) \in Bodies /\ Tail(toR) \in Seq(Atoms) /\ Head(toR).data[1][1] \in 0 .. Files
    BY <1>2, VerifiedForm DEF Form, LineForm
  <2>2. rcv.at = "first"  BY DEF receiver_process_first_frame
  <2>3. RcvForm' /\ toS' \in Seq(Answers) /\ FaultForm'
    BY <1>2, <2>1, <2>2, FirstInfoForm, FirstDataForm
  <2> QED  BY <1>2, <2>1, <2>3 DEF LineForm
<1> QED  BY <1>1, <1>2 DEF receiver_process_first_frame

LEMMA TimeoutStep == ASSUME Form, receiver_timeout PROVE LineForm' /\ RcvForm' /\ FaultForm'
<1>1. Going(rcv) /\ <<"NAK">> \in Seq(Answers)  BY RequestForm DEF Form, RcvForm, Going
<1>2. RcvForm' /\ toS' \in Seq(Answers)  BY <1>1, FrameErrorForm DEF receiver_timeout, Form
<1> QED  BY <1>2 DEF receiver_timeout, Form, LineForm, FaultForm

LEMMA BadHeadStep == ASSUME Form, receiver_bad_head PROVE LineForm' /\ RcvForm' /\ FaultForm'
<1>1. Going(Return(rcv, "ERR_HEAD"))  BY ReturnForm DEF Form, RcvForm, Results
<1>2. RcvForm'  BY <1>1 DEF receiver_bad_head, RcvForm, Going
<1>3. toS' \in Seq(Answers)  BY AnswerForm, RequestForm DEF receiver_bad_head, Form
<1> QED  BY <1>2, <1>3 DEF receiver_bad_head, Form, LineForm, FaultForm

\* The end-of-transfer bytes only move the state on.
LEMMA StateForm ==
  ASSUME Form, NEW state \in States
  PROVE  Going([rcv EXCEPT !.state = state])
  BY DEF Form, RcvForm, Receivers, Going

LEMMA EndOfTransferStep == ASSUME Form, receiver_eot PROVE LineForm' /\ RcvForm' /\ FaultForm'
<1>1. RcvForm'
  <2>1. Going(rcv)  BY DEF Form, RcvForm, Going
  <2>2. \A state \in {"ENDED", "ENDOFXFER", "ENDING"} : Going([rcv EXCEPT !.state = state])
    BY StateForm DEF States
  <2> QED  BY <2>1, <2>2, FrameOkForm DEF receiver_eot
<1>2. toS' \in Seq(Answers)
  BY AnswerForm, RequestForm DEF receiver_eot, Form, LineForm
<1>3. toR' \in Seq(Atoms)
  <2>1. toR # <<>> /\ toR' \in {<<>>, AfterHead("EOT")}  BY DEF receiver_eot
  <2>2. <<>> \in Seq(Atoms) /\ AfterHead("EOT") \in Seq(Atoms)  BY <2>1, HeadForm DEF Form
  <2> QED  BY <2>1, <2>2
<1> QED  BY <1>1, <1>2, <1>3 DEF receiver_eot, Form, LineForm, FaultForm

LEMMA SaveForm ==
  ASSUME Form, NEW data, receiver_save_data(data)
  PROVE  RcvForm' /\ toS' \in Seq(Answers) /\ FaultForm'
<1> DEFINE r == [rcv EXCEPT !.expected = (@ + 1) % SeqCount]
           keep == SubSeq(data, 1, SaveSize(Len(data)))
           full == rcv.ymodem /\ Len(saved) + Len(keep) >= FileLen /\ rcv.state = "FILEXFER"
           r2 == [r EXCEPT !.state = IF full THEN "ENDOFXFER" ELSE @]
<1>1. Going(r)
  <2>1. rcv.expected \in Nat /\ rcv.expected + 1 \in Nat  BY Sizes DEF Form, RcvForm, Receivers
  <2>2. (rcv.expected + 1) % SeqCount \in 0 .. SeqCount - 1
    <3> DEFINE e == rcv.expected + 1
    <3>1. e \in Nat  BY <2>1
    <3> HIDE DEF e
    <3>2. e % SeqCount \in 0 .. SeqCount - 1  BY <3>1, Sizes, Remainder
    <3> QED  BY <3>2 DEF e
  <2>3. r = [rcv EXCEPT !.expected = (rcv.expected + 1) % SeqCount]  OBVIOUS
  <2> QED  BY <2>2, <2>3 DEF Form, RcvForm, Receivers, Going
<1>2. Going(r2)
  <2> HIDE DEF r, full
  <2>1. "ENDOFXFER" \in States  BY DEF States
  <2> QED  BY <1>1, <2>1 DEF Going, Receivers
<1>3. FaultForm'  BY FaultsForm DEF receiver_save_data, Form, SaveOk
<1>4. CASE FrameOk(r2) /\ Answer(IF full THEN <<"ACK", "NAK">> ELSE <<"ACK">>)
  <2> HIDE DEF r2, full
  <2>1. RcvForm'  BY <1>2, <1>4, FrameOkForm
  <2>2. (IF full THEN <<"ACK", "NAK">> ELSE <<"ACK">>) \in Seq(Answers)  BY RequestForm
  <2> QED  BY <1>3, <1>4, <2>1, <2>2, AnswerForm DEF Form
<1>5. CASE FrameError(r, <<"CAN">>)
  <2> HIDE DEF r
  <2> QED  BY <1>1, <1>3, <1>5, FrameErrorForm, RequestForm DEF Form
<1> QED  BY <1>4, <1>5 DEF receiver_save_data

LEMMA DataFrameForm ==
  ASSUME Form, NEW b, DataFrame(b)
  PROVE  RcvForm' /\ toS' \in Seq(Answers) /\ FaultForm'
<1>0. Going(rcv)  BY DEF Form, RcvForm, Going
<1>1. CASE receiver_save_data(b.data)  BY <1>1, SaveForm
<1>2. CASE FrameOk(rcv) /\ Answer(<<"ACK">>) /\ UNCHANGED <<saved, faults>>
  <2>1. RcvForm'  BY <1>0, <1>2, FrameOkForm
  <2>2. toS' \in Seq(Answers)  BY <1>2, AnswerForm, RequestForm DEF Form
  <2> QED  BY <1>2, <2>1, <2>2 DEF Form, FaultForm
<1>3. CASE FrameError(rcv, <<"NAK">>) /\ UNCHANGED <<saved, faults>>
  <2>1. RcvForm' /\ toS' \in Seq(Answers)  BY <1>0, <1>3, FrameErrorForm, RequestForm DEF Form
  <2> QED  BY <1>3, <2>1 DEF Form, FaultForm
<1> QED  BY <1>1, <1>2, <1>3 DEF DataFrame

LEMMA EndFrameForm ==
  ASSUME Form, NEW b, b.data[1][1] \in 0 .. Files, EndFrame(b)
  PROVE  RcvForm' /\ toS' \in Seq(Answers) /\ FaultForm'
<1>1. CASE /\ FrameOk([rcv EXCEPT !.state = "ENDED"]) /\ Answer(<<"ACK">>)
           /\ UNCHANGED <<saved, faults>>
  <2>1. Going([rcv EXCEPT !.state = "ENDED"])  BY StateForm DEF States
  <2>2. RcvForm'  BY <1>1, <2>1, FrameOkForm
  <2>3. toS' \in Seq(Answers)  BY <1>1, AnswerForm, RequestForm DEF Form
  <2> QED  BY <1>1, <2>2, <2>3 DEF Form, FaultForm
<1> DEFINE r == [rcv EXCEPT !.expected = 1, !.open = FALSE]
<1>2. Going(r) /\ r \in Receivers
  <2>1. 1 \in 0 .. SeqCount - 1  BY Sizes
  <2> QED  BY <2>1 DEF Form, RcvForm, Receivers, Going
<1> HIDE DEF r
<1>3. CASE /\ SaveOk /\ FrameOk(Opened(r, b.data[1][1]))
           /\ Answer(<<"ACK", ReceiverRequest(rcv.crc)>>)
  <2>1. RcvForm'  BY <1>2, <1>3, OpenedForm, FrameOkForm
  <2>2. toS' \in Seq(Answers)  BY <1>3, AnswerForm, RequestForm DEF Form
  <2> QED  BY <1>3, <2>1, <2>2, FaultsForm DEF Form
<1>4. CASE SaveFault /\ FrameError(r, <<"ACK", ReceiverRequest(rcv.crc)>> \o <<"CAN">>)
  <2>1. RcvForm' /\ toS' \in Seq(Answers)  BY <1>2, <1>4, FrameErrorForm, RequestForm DEF Form
  <2> QED  BY <1>4, <2>1, FaultsForm DEF Form
<1> QED  BY <1>1, <1>3, <1>4 DEF EndFrame, r

LEMMA ReceiveStep ==
  ASSUME Form, receiver_process_frame
  PROVE  LineForm' /\ RcvForm' /\ FaultForm'
<1> DEFINE line == AfterHead("SOH")
<1>1. line \in Seq(Atoms)  BY HeadForm DEF receiver_process_frame, Form
<1> HIDE DEF line
<1>2. CASE toR' = <<>> /\ FrameError(rcv, <<"NAK">>) /\ UNCHANGED <<saved, faults>>
  <2>1. Going(rcv)  BY DEF Form, RcvForm, Going
  <2>2. RcvForm' /\ toS' \in Seq(Answers)  BY <1>2, <2>1, FrameErrorForm, RequestForm DEF Form
  <2> QED  BY <1>2, <2>2 DEF Form, FaultForm, LineForm
<1>3. CASE /\ receiver_verify_frame(line)
           /\ EndFrame(Head(line)) \/ DataFrame(Head(line))
           /\ toR' \in {<<>>, Tail(line)}
  <2>1. Head(line).data[1][1] \in 0 .. Files /\ Tail(line) \in Seq(Atoms)
    BY <1>1, <1>3, VerifiedForm
  <2>2. RcvForm' /\ toS' \in Seq(Answers) /\ FaultForm'
    BY <1>3, <2>1, EndFrameForm, DataFrameForm
  <2>3. <<>> \in Seq(Atoms)  OBVIOUS
  <2> QED  BY <1>3, <2>1, <2>2, <2>3 DEF LineForm
<1> QED  BY <1>2, <1>3 DEF receiver_process_frame, line

LEMMA ReceiverStep == ASSUME Form, receiver_run PROVE Form'
<1>1. LineForm' /\ RcvForm' /\ FaultForm'
  BY RequestStep, FirstByteStep, FirstFrameStep, TimeoutStep, EndOfTransferStep, BadHeadStep,
     ReceiveStep
  DEF receiver_run
<1>2. SndForm'
  <2>1. snd' = snd  BY DEF receiver_run
  <2>2. Chunks' = Chunks  BY <2>1, ChunksFixed
  <2> QED  BY <2>1, <2>2 DEF Form, SndForm
<1>3. apart' \in BOOLEAN  BY Zenon DEF receiver_run, Form, NumberTakenForEot
<1> QED  BY <1>1, <1>2, <1>3 DEF Form

LEMMA RemoveForm ==
  ASSUME NEW S, NEW s \in Seq(S), NEW i \in DOMAIN s
  PROVE  RemoveAt(s, i) \in Seq(S)
<1>1. i \in 1 .. Len(s) /\ Len(s) \in Nat  BY LenProperties
<1>2. SubSeq(s, 1, i - 1) \in Seq(S)  BY <1>1, SubSeqProperties
<1>3. SubSeq(s, i + 1, Len(s)) \in Seq(S)  BY <1>1, SubSeqProperties
<1> QED  BY <1>2, <1>3, ConcatProperties DEF RemoveAt

LEMMA FaultStep == ASSUME Form, LineFault PROVE Form'
<1>1. FaultForm'
  <2>1. faults.line \in Nat /\ faults.save \in Nat  BY DEF Form, FaultForm
  <2>2. faults' = [faults EXCEPT !.line = faults.line + 1]  BY DEF LineFault
  <2>3. faults' \in [line : Nat, save : Nat] /\ faults'.line = faults.line + 1
        /\ faults'.save = faults.save
    BY <2>1, <2>2 DEF Form, FaultForm
  <2>4. faults.line + faults.save < MaxFaults  BY DEF LineFault, MoreFaults
  <2> QED  BY <2>1, <2>3, <2>4, Sizes DEF FaultForm
<1>2. SndForm'
  <2>1. snd' = snd  BY DEF LineFault
  <2>2. Chunks' = Chunks  BY <2>1, ChunksFixed
  <2> QED  BY <2>1, <2>2 DEF Form, SndForm
<1>3. RcvForm'  BY DEF LineFault, Form, RcvForm
<1>4. LineForm'
  <2>1. CASE \E i \in DOMAIN toR : toR' = RemoveAt(toR, i) /\ UNCHANGED toS
    BY <2>1, RemoveForm DEF Form, LineForm
  <2>2. CASE \E i \in DOMAIN toR : /\ toR[i].t = "body" /\ toR[i].ok
                                   /\ toR' = [toR EXCEPT ![i].ok = FALSE] /\ UNCHANGED toS
    <3>1. PICK i \in DOMAIN toR : /\ toR[i].t = "body"
                                  /\ toR' = [toR EXCEPT ![i].ok = FALSE] /\ UNCHANGED toS
      BY <2>2
    <3>2. i \in 1 .. Len(toR) /\ toR[i] \in Atoms
      BY ElementOfSeq, LenProperties DEF Form, LineForm
    <3>3. toR[i] \in Bodies  BY <3>1, <3>2 DEF Atoms, HEAD, Eots, CAN, JUNK
    <3>4. [toR[i] EXCEPT !.ok = FALSE] \in Atoms  BY <3>3 DEF Bodies, Atoms
    <3>5. toR' = [toR EXCEPT ![i] = [toR[i] EXCEPT !.ok = FALSE]]  BY <3>1
    <3> DEFINE a == [toR[i] EXCEPT !.ok = FALSE]
    <3> HIDE DEF a
    <3>6. [toR EXCEPT ![i] = a] \in Seq(Atoms)
      BY <3>2, <3>4, ExceptSeq DEF Form, LineForm, a
    <3> QED  BY <3>1, <3>5, <3>6 DEF Form, LineForm, a
  <2>3. CASE \E i \in DOMAIN toS : /\ UNCHANGED toR
                                   /\ toS' \in {RemoveAt(toS, i), [toS EXCEPT ![i] = "noise"]}
    <3>1. PICK i \in DOMAIN toS : /\ UNCHANGED toR
                                  /\ toS' \in {RemoveAt(toS, i), [toS EXCEPT ![i] = "noise"]}
      BY <2>3
    <3>2. "noise" \in Answers  BY DEF Answers
    <3>3. [toS EXCEPT ![i] = "noise"] \in Seq(Answers)  BY <3>2, ExceptSeq DEF Form, LineForm
    <3>4. RemoveAt(toS, i) \in Seq(Answers)  BY RemoveForm DEF Form, LineForm
    <3> QED  BY <3>1, <3>3, <3>4 DEF Form, LineForm
  <2> QED  BY <2>1, <2>2, <2>3 DEF LineFault
<1> QED  BY <1>1, <1>2, <1>3, <1>4 DEF Form, LineFault
-----------------------------------------------------------------------------

LEMMA InitForm == ASSUME Init PROVE Form
<1>1. LineForm  BY DEF Init, LineForm
<1>2. FaultForm  BY Sizes DEF Init, FaultForm
<1>3. RcvForm
  <2>1. 0 \in 0 .. SendRetry - 1 /\ 0 \in 0 .. SeqCount - 1 /\ 0 \in 0 .. Files
        /\ 0 \in 0 .. HandshakeRetry
    BY Sizes
  <2>2. "CONNECTING" \in States /\ "none" \in Results  BY DEF States, Results
  <2> QED  BY <2>1, <2>2 DEF Init, RcvForm, Receivers
<1>4. SndForm
  <2>1. 1 \in 1 .. Files /\ "none" \in Results  BY Sizes DEF Results
  <2>2. PICK y \in BOOLEAN :
          snd = [at |-> "handshake", ymodem |-> y, file |-> 1, chunk |-> 1, try |-> 0,
                 crc |-> 2, res |-> "none"]
    BY YmodemAssumption DEF Init
  <2>3. snd \in Senders  BY <2>1, <2>2 DEF Senders
  <2>4. Chunks \in Nat /\ Chunks >= 1
    BY <2>3, ChunksOfSender
  <2> QED  BY <2>2, <2>3, <2>4, Sizes DEF SndForm
<1> QED  BY <1>1, <1>2, <1>3, <1>4 DEF Form, Init

LEMMA StepForm == Form /\ [Next]_vars => Form'
<1>1. CASE Form /\ UNCHANGED vars
  <2>1. Chunks' = Chunks  BY <1>1, ChunksFixed DEF vars
  <2> QED  BY <1>1, <2>1 DEF vars, Form, LineForm, SndForm, RcvForm, FaultForm
<1> QED  BY <1>1, SenderStep, ReceiverStep, FaultStep DEF Next

LEMMA FormIsTypeOK == Form => TypeOK
<1> SUFFICES ASSUME Form PROVE TypeOK  OBVIOUS
<1>1. \A i \in DOMAIN toR : toR[i].t \in {"head", "body", "eot", "can", "junk"}
  <2>1. \A i \in DOMAIN toR : toR[i] \in Atoms
    BY ElementOfSeq, LenProperties DEF Form, LineForm
  <2> QED  BY <2>1 DEF Atoms, Bodies, HEAD, Eots, CAN, JUNK
<1>2. toS \in Seq({"C", "NAK", "ACK", "CAN", "noise"})  BY DEF Form, LineForm, Answers
<1>3. snd.at \in {"handshake", "info", "info_request", "data", "eot", "eot1", "eot2",
                  "end_request", "end", "done"} /\ snd.file \in 1 .. Files /\ snd.crc \in 1 .. 2
  BY DEF Form, SndForm, Senders
<1>4. snd.chunk \in 1 .. Chunks
  <2>1. Chunks \in Nat  BY ChunksPositive DEF Form
  <2> QED  BY <2>1 DEF Form, SndForm, Senders
<1>5. snd.try \in 0 .. Max({HandshakeRetry, SendRetry})
  <2> DEFINE m == Max({HandshakeRetry, SendRetry})
  <2>1. m \in Nat /\ m >= HandshakeRetry /\ m >= SendRetry  BY Greater, Sizes
  <2> HIDE DEF m
  <2>2. snd.try \in 0 .. m  BY <2>1, Sizes DEF Form, SndForm, Senders
  <2> QED  BY <2>2 DEF m
<1>6. /\ rcv.at \in {"request", "wait", "first", "frames", "done"}
      /\ rcv.shake \in 0 .. HandshakeRetry /\ rcv.expected \in 0 .. (SeqCount - 1)
      /\ rcv.file \in 0 .. Files /\ rcv.errors \in 0 .. SendRetry - 1
  BY DEF Form, RcvForm, Receivers
<1>7. rcv.errors \in 0 .. SendRetry  BY <1>6, Sizes
<1>8. rcv.state \in {"CONNECTING", "CONNECTED", "FILEXFER", "ENDOFXFER", "ENDING", "ENDED"}
  BY DEF Form, RcvForm, Receivers, States
<1>9. {faults.line, faults.save} \subseteq 0 .. MaxFaults
  BY Sizes DEF Form, FaultForm
<1>10. apart \in BOOLEAN  BY DEF Form
<1> QED  BY <1>1, <1>2, <1>3, <1>4, <1>5, <1>6, <1>7, <1>8, <1>9, <1>10 DEF TypeOK

\* The retry loops of sender_run and receiver_run stay within get_send_retry and
\* get_handshake_retry, sequence numbers within a byte, and a file information frame
\* names a file of the batch, whatever the line loses or corrupts.
THEOREM YmodemTypes == Spec => []TypeOK
<1>1. Init => Form  BY InitForm
<1>2. Form /\ [Next]_vars => Form'  BY StepForm
<1> QED  BY <1>1, <1>2, FormIsTypeOK, PTL DEF Spec
-----------------------------------------------------------------------------
(* What e blocks of a file are.                                             *)

Length   == IF snd.ymodem THEN FileLen ELSE Chunks * SohSize
Cut(e)   == IF e * BlockSize <= Length THEN e * BlockSize ELSE Length
Taken(f, e) == [i \in 1 .. Cut(e) |-> IF i <= FileLen THEN Unit(f, i) ELSE Pad]

\* The blocks of a file cover it, and each but an empty last one begins inside it.
LEMMA BlockBounds ==
  ASSUME SndForm
  PROVE  /\ Chunks * BlockSize >= FileLen
         /\ \A e \in Nat : e + 1 <= Chunks => e * BlockSize <= FileLen
         /\ ~snd.ymodem => Length = Chunks * BlockSize
         /\ snd.ymodem => Length = FileLen
<1>0. Chunks \in Nat /\ BlockSize \in Nat /\ BlockSize >= 1  BY ChunksPositive
<1>1. CASE snd.ymodem
  <2> DEFINE q == FileLen \div StxSize
  <2>1. FileLen % StxSize = FileLen - StxSize * q  BY Sizes
  <2>2. FileLen % StxSize \in 0 .. StxSize - 1  BY Sizes
  <2>3. q \in Nat  BY Sizes
  <2>4. Chunks = q + 1 /\ BlockSize = StxSize /\ Length = FileLen
    BY <1>1 DEF Chunks, BlockSize, Length
  <2> HIDE DEF q
  <2>5. StxSize * q \in Nat  BY <2>3, Sizes
  <2>6. StxSize * q <= FileLen /\ FileLen <= StxSize * q + StxSize
    <3> DEFINE r == FileLen % StxSize
    <3>1. r \in 0 .. StxSize - 1 /\ r = FileLen - StxSize * q  BY <2>1, <2>2
    <3> HIDE DEF r
    <3> QED  BY <3>1, <2>5, Sizes
  <2>7. (q + 1) * StxSize = StxSize * q + StxSize  BY <2>3, Sizes
  <2>8. ASSUME NEW e \in Nat, e + 1 <= q + 1 PROVE e * StxSize <= FileLen
    <3>1. e * StxSize <= q * StxSize  BY <2>3, <2>8, Sizes, Z3
    <3>2. q * StxSize = StxSize * q /\ e * StxSize \in Nat  BY <2>3, Sizes
    <3> QED  BY <3>1, <3>2, <2>5, <2>6, Sizes
  <2> QED  BY <1>1, <2>4, <2>6, <2>7, <2>8
<1>2. CASE ~snd.ymodem
  <2> DEFINE a == FileLen + SohSize - 1
             q == a \div SohSize
  <2>0. a \in Nat  BY Sizes
  <2> HIDE DEF a
  <2>1. a % SohSize = a - SohSize * q  BY <2>0, Sizes
  <2>2. a % SohSize \in 0 .. SohSize - 1  BY <2>0, Sizes
  <2>3. q \in Nat  BY <2>0, Sizes
  <2>4. Chunks = q /\ BlockSize = SohSize /\ Length = Chunks * BlockSize
    BY <1>2 DEF Chunks, BlockSize, Length, a
  <2> HIDE DEF q
  <2>5. SohSize * q \in Nat /\ q * SohSize = SohSize * q  BY <2>3, Sizes
  <2>6. SohSize * q <= a /\ a <= SohSize * q + (SohSize - 1)
    <3> DEFINE r == a % SohSize
    <3>1. r \in 0 .. SohSize - 1 /\ r = a - SohSize * q  BY <2>1, <2>2
    <3> HIDE DEF r
    <3> QED  BY <3>1, <2>0, <2>5, Sizes
  <2>7. SohSize * q >= FileLen  BY <2>5, <2>6, Sizes DEF a
  <2>8. ASSUME NEW e \in Nat, e + 1 <= q PROVE e * SohSize <= FileLen
    <3>1. (e + 1) * SohSize <= q * SohSize  BY <2>3, <2>8, Sizes, Z3
    <3>2. (e + 1) * SohSize = e * SohSize + SohSize /\ e * SohSize \in Nat  BY Sizes
    <3> QED  BY <3>1, <3>2, <2>5, <2>6, Sizes DEF a
  <2> QED  BY <1>2, <2>4, <2>5, <2>7, <2>8
<1> QED  BY <1>1, <1>2

\* e blocks of a file are a beginning of what the receiver may hold, and all of them are it.
LEMMA TakenContent ==
  ASSUME SndForm, NEW f, NEW e \in Nat
  PROVE  /\ Cut(e) \in Nat /\ Cut(e) <= Length /\ Cut(e) <= e * BlockSize
         /\ Len(Taken(f, e)) = Cut(e) /\ Taken(f, e) \in Seq(Units \cup {Unit(f, i) : i \in Nat})
         /\ IsPrefix(Taken(f, e), Content(f))
         /\ e = Chunks => Taken(f, e) = Content(f)
<1>0. Chunks \in Nat /\ BlockSize \in Nat /\ BlockSize >= 1 /\ Length \in Nat
  BY ChunksPositive, BlockBounds, Sizes
<1>1. e * BlockSize \in Nat  BY <1>0
<1>2. Cut(e) \in Nat /\ Cut(e) <= Length /\ Cut(e) <= e * BlockSize
  <2> DEFINE n == e * BlockSize
  <2> HIDE DEF n
  <2>1. n \in Nat  BY <1>1 DEF n
  <2>2. Cut(e) = IF n <= Length THEN n ELSE Length  BY DEF Cut, n
  <2>3. Cut(e) \in Nat /\ Cut(e) <= Length /\ Cut(e) <= n  BY <1>0, <2>1, <2>2
  <2> QED  BY <2>3 DEF n
<1> DEFINE c == Cut(e)
           S == Units \cup {Unit(f, i) : i \in Nat}
<1>3. c \in Nat /\ c <= Length  BY <1>2
<1>4. Taken(f, e) = [i \in 1 .. c |-> IF i <= FileLen THEN Unit(f, i) ELSE Pad]  BY DEF Taken
<1> HIDE DEF c
<1>5. Taken(f, e) \in Seq(S) /\ Len(Taken(f, e)) = c
  <2>1. \A i \in 1 .. c : (IF i <= FileLen THEN Unit(f, i) ELSE Pad) \in S
    BY <1>3, Sizes DEF Units, Pad
  <2> QED  BY <1>3, <1>4, <2>1
<1>6. Content(f) = [i \in 1 .. Length |-> IF i <= FileLen THEN Unit(f, i) ELSE Pad]
  <2>1. CASE snd.ymodem
    <3>1. Content(f) = [i \in 1 .. FileLen |-> Unit(f, i)] /\ Length = FileLen
      BY <2>1 DEF Content, File, Length
    <3> QED  BY <3>1, Sizes
  <2>2. CASE ~snd.ymodem
    BY <2>2 DEF Content, Length
  <2> QED  BY <2>1, <2>2
<1>7. IsPrefix(Taken(f, e), Content(f))
  <2> DEFINE C == Content(f)  T == Taken(f, e)
  <2>1. C \in Seq(S) /\ Len(C) = Length
    <3>1. \A i \in 1 .. Length : (IF i <= FileLen THEN Unit(f, i) ELSE Pad) \in S
      BY <1>0, Sizes DEF Units, Pad
    <3> QED  BY <1>0, <1>6, <3>1
  <2>2. \A i \in 1 .. c : T[i] = C[i]  BY <1>0, <1>3, <1>4, <1>6
  <2> HIDE DEF C, T
  <2>3. T \in Seq(S) /\ Len(T) = c  BY <1>5 DEF T
  <2>4. SubSeq(T, 1, c) = T  BY <2>3, <1>3, SubSeqFull
  <2>5. SubSeq(C, 1, c) \in Seq(S) /\ Len(SubSeq(C, 1, c)) = c
        /\ \A i \in 1 .. c : SubSeq(C, 1, c)[i] = C[i]
    BY <2>1, <1>0, <1>3, SubSeqProperties
  <2>6. SubSeq(C, 1, c) = T
    <3> DEFINE D == SubSeq(C, 1, c)
    <3>1. D \in Seq(S) /\ Len(D) = c /\ \A i \in 1 .. c : D[i] = T[i]  BY <2>2, <2>5
    <3> HIDE DEF D
    <3>2. D = T  BY <2>3, <3>1, SeqEqual
    <3> QED  BY <3>2 DEF D
  <2> QED  BY <2>1, <2>3, <2>4, <2>6, <1>3 DEF IsPrefix, C, T
<1>8. ASSUME e = Chunks PROVE Taken(f, e) = Content(f)
  <2>1. c = Length
    <3> DEFINE n == Chunks * BlockSize
    <3>1. n \in Nat /\ n >= Length  BY <1>0, BlockBounds, Sizes
    <3>2. Cut(e) = IF n <= Length THEN n ELSE Length  BY <1>8 DEF Cut
    <3> HIDE DEF n
    <3> QED  BY <3>1, <3>2, <1>0 DEF c
  <2> QED  BY <1>4, <1>6, <2>1
<1> QED  BY <1>2, <1>5, <1>7, <1>8 DEF c

\* The data of block e + 1 is what follows e blocks, and what is saved of it makes e + 1.
LEMMA TakenNext ==
  ASSUME SndForm, NEW f \in 1 .. Files, NEW e \in Nat, e + 1 <= Chunks,
         rcv.ymodem = snd.ymodem, saved = Taken(f, e),
         NEW data, data = ChunkData(f, e + 1)
  PROVE  /\ Len(data) \in Nat
         /\ saved \o SubSeq(data, 1, SaveSize(Len(data))) = Taken(f, e + 1)
         /\ Len(SubSeq(data, 1, SaveSize(Len(data)))) = Cut(e + 1) - Cut(e)
         /\ ~snd.ymodem /\ e = 0 => data = Taken(f, 1)
<1> DEFINE start == e * BlockSize
           size == IF snd.ymodem /\ ChunkLen(e + 1) > SohSize THEN StxSize ELSE SohSize
           m == Min({BlockSize, FileLen - start})
           c == Cut(e + 1)
           S == Units
<1>0. /\ Chunks \in Nat /\ BlockSize \in Nat /\ BlockSize >= 1 /\ Length \in Nat
      /\ start \in Nat /\ start <= FileLen
  BY ChunksPositive, BlockBounds, Sizes
<1>1. (e + 1) - 1 = e  OBVIOUS
<1>2. ChunkLen(e + 1) = m  BY <1>1 DEF ChunkLen
<1>3. (e + 1) * BlockSize = start + BlockSize  BY <1>0
<1> HIDE DEF start
<1>4. m \in Nat /\ m <= BlockSize /\ m <= FileLen - start /\ m \in {BlockSize, FileLen - start}
  <2> DEFINE d == FileLen - start
  <2>1. d \in Nat /\ BlockSize \in Nat  BY <1>0, Sizes
  <2>2. m = Min({BlockSize, d})  OBVIOUS
  <2> HIDE DEF d, m
  <2>3. m \in {BlockSize, d} /\ m <= BlockSize /\ m <= d  
    <3>1. d \in Int /\ BlockSize \in Int  BY <2>1
    <3> QED  BY <2>2, <3>1, Smaller, Zenon
  <2> QED  BY <2>1, <2>3 DEF d
<1> HIDE DEF m
<1>5. size \in Nat /\ size >= 1 /\ size >= m /\ size <= BlockSize /\ (~snd.ymodem => size = BlockSize)
      /\ (m = BlockSize => size = BlockSize)
  BY <1>2, <1>4, Sizes DEF BlockSize
<1>6. data = [j \in 1 .. size |-> IF j <= m THEN Unit(f, start + j) ELSE Pad]
  BY <1>1, <1>2 DEF ChunkData, start
<1> HIDE DEF size
<1>7. data \in Seq(S) /\ Len(data) = size
  <2>1. \A j \in 1 .. size : (IF j <= m THEN Unit(f, start + j) ELSE Pad) \in S
    BY <1>0, <1>5, Sizes DEF Units, Pad, Unit
  <2> QED  BY <1>5, <1>6, <2>1
<1>8. Cut(e) = start
  <2>1. start <= Length
    <3>1. CASE snd.ymodem  BY <3>1, <1>0, BlockBounds
    <3>2. CASE ~snd.ymodem
      <4>1. Length = Chunks * BlockSize  BY <3>2, BlockBounds
      <4>2. e * BlockSize <= Chunks * BlockSize  BY <1>0, Z3
      <4> QED  BY <4>1, <4>2 DEF start
    <3> QED  BY <3>1, <3>2
  <2> QED  BY <2>1 DEF Cut, start
<1>9. Len(saved) = start /\ saved \in Seq(S)
      /\ saved = [i \in 1 .. start |-> IF i <= FileLen THEN Unit(f, i) ELSE Pad]
  <2>1. saved = [i \in 1 .. start |-> IF i <= FileLen THEN Unit(f, i) ELSE Pad]
    BY <1>8 DEF Taken
  <2>2. \A i \in 1 .. start : (IF i <= FileLen THEN Unit(f, i) ELSE Pad) \in S
    BY <1>0, Sizes DEF Units, Pad, Unit
  <2> QED  BY <1>0, <2>1, <2>2
<1> DEFINE s == SaveSize(size)
<1>10. s \in 0 .. size /\ c = start + s /\ (s <= m \/ ~snd.ymodem)
  <2>1. CASE snd.ymodem
    <3>1. s = IF start + size > FileLen THEN FileLen - start ELSE size
      BY <2>1, <1>9 DEF SaveSize
    <3>2. c = IF start + BlockSize <= FileLen THEN start + BlockSize ELSE FileLen
      <4>1. Length = FileLen  BY <2>1, BlockBounds
      <4> QED  BY <1>3, <4>1 DEF Cut
    <3> HIDE DEF s, c
    <3>3. CASE m = BlockSize
      BY <3>1, <3>2, <3>3, <1>0, <1>4, <1>5, Sizes
    <3>4. CASE m = FileLen - start /\ m # BlockSize
      BY <3>1, <3>2, <3>4, <1>0, <1>4, <1>5, Sizes
    <3> QED  BY <3>3, <3>4, <1>4
  <2>2. CASE ~snd.ymodem
    <3>1. s = size  BY <2>2 DEF SaveSize
    <3>2. c = start + BlockSize
      <4>1. Length = Chunks * BlockSize  BY <2>2, BlockBounds
      <4>2. (e + 1) * BlockSize <= Chunks * BlockSize  BY <1>0, Z3
      <4> QED  BY <1>3, <4>1, <4>2 DEF Cut
    <3> HIDE DEF s, c
    <3> QED  BY <3>1, <3>2, <2>2, <1>5
  <2> QED  BY <2>1, <2>2
<1> DEFINE keep == SubSeq(data, 1, s)
<1> HIDE DEF s
<1>11. keep \in Seq(S) /\ Len(keep) = s /\ \A i \in 1 .. s : keep[i] = data[i]
  <2>1. \A i \in 1 .. s : data[i] \in S  BY <1>7, <1>10, <1>5, ElementOfSeq
  <2>2. s \in Nat  BY <1>10, <1>5
  <2> QED  BY <2>1, <2>2, SubSeqProperties
<1> HIDE DEF keep
<1>12. Taken(f, e + 1) = [i \in 1 .. c |-> IF i <= FileLen THEN Unit(f, i) ELSE Pad]
  BY DEF Taken
<1> DEFINE T == Taken(f, e + 1)
<1> HIDE DEF c
<1>13. c \in Nat  BY <1>0, <1>5, <1>10
<1>14. T \in Seq(S) /\ Len(T) = c /\ \A i \in 1 .. c : T[i] = IF i <= FileLen THEN Unit(f, i) ELSE Pad
  <2>1. \A i \in 1 .. c : (IF i <= FileLen THEN Unit(f, i) ELSE Pad) \in S
    BY <1>13, Sizes DEF Units, Pad, Unit
  <2> QED  BY <1>12, <1>13, <2>1
<1> HIDE DEF T
<1>15. /\ saved \o keep \in Seq(S) /\ Len(saved \o keep) = c
       /\ \A i \in 1 .. c : (saved \o keep)[i] = IF i <= start THEN saved[i] ELSE keep[i - start]
  <2>1. saved \o keep \in Seq(S) /\ Len(saved \o keep) = Len(saved) + Len(keep)
        /\ \A i \in 1 .. Len(saved) + Len(keep) : (saved \o keep)[i] =
              IF i <= Len(saved) THEN saved[i] ELSE keep[i - Len(saved)]
    <3>1. saved \in Seq(S) /\ keep \in Seq(S)  BY <1>9, <1>11
    <3> HIDE DEF S
    <3> QED  BY <3>1, ConcatProperties
  <2>2. Len(saved) = start /\ Len(keep) = s /\ start + s = c  BY <1>9, <1>10, <1>11
  <2> QED  BY <2>1, <2>2
<1>16. \A i \in 1 .. c : (saved \o keep)[i] = T[i]
  <2> SUFFICES ASSUME NEW i \in 1 .. c PROVE (saved \o keep)[i] = T[i]  OBVIOUS
  <2>1. CASE i <= start
    <3>1. i \in 1 .. start  BY <2>1, <1>0, <1>13
    <3>2. saved[i] = IF i <= FileLen THEN Unit(f, i) ELSE Pad  BY <3>1, <1>9
    <3> QED  BY <2>1, <3>2, <1>14, <1>15
  <2>2. CASE ~(i <= start)
    <3> DEFINE j == i - start
    <3>1. j \in 1 .. s /\ i = start + j /\ j \in 1 .. size  BY <2>2, <1>0, <1>10, <1>13, <1>5
    <3> HIDE DEF j
    <3>2. keep[j] = IF j <= m THEN Unit(f, start + j) ELSE Pad  BY <3>1, <1>6, <1>11
    <3>3. i <= FileLen <=> j <= m
      BY <3>1, <1>0, <1>4, <1>5, <1>10, Sizes
    <3>4. (saved \o keep)[i] = keep[j]  BY <2>2, <1>15 DEF j
    <3> QED  BY <3>1, <3>2, <3>3, <3>4, <1>14
  <2> QED  BY <2>1, <2>2
<1>17. saved \o keep = T
  <2> DEFINE u == saved \o keep
  <2>1. u \in Seq(S) /\ Len(u) = Len(T) /\ \A i \in 1 .. Len(u) : u[i] = T[i]
    BY <1>14, <1>15, <1>16
  <2> HIDE DEF u
  <2>2. u = T  BY <2>1, <1>14, SeqEqual
  <2> QED  BY <2>2 DEF u
<1>18. s = c - Cut(e)  BY <1>8, <1>10, <1>0, <1>5
<1>19. ASSUME ~snd.ymodem, e = 0 PROVE data = T
  <2>1. start = 0  BY <1>19, <1>0 DEF start
  <2>2. c = size
    <3>1. Length = Chunks * BlockSize  BY <1>19, BlockBounds
    <3>2. 1 * BlockSize <= Chunks * BlockSize  BY <1>0, <1>19, Z3
    <3>3. 1 * BlockSize = BlockSize  BY <1>0
    <3> QED  BY <1>19, <1>5, <3>1, <3>2, <3>3 DEF Cut, c
  <2>3. \A i \in 1 .. c : data[i] = T[i]
    BY <1>0, <1>4, <1>5, <1>6, <1>14, <2>1, <2>2, Sizes
  <2> QED  BY <1>7, <1>14, <2>2, <2>3, SeqEqual
<1> QED
  <2>1. Len(data) = size /\ SubSeq(data, 1, SaveSize(Len(data))) = keep  BY <1>7 DEF s, keep
  <2>2. T = Taken(f, e + 1) /\ (e = 0 => T = Taken(f, 1))  BY DEF T
  <2> QED  BY <1>5, <1>11, <1>17, <1>18, <1>19, <2>1, <2>2 DEF c
-----------------------------------------------------------------------------
(* The order of what is on the line, and where both ends are in it.  Frames *)
(* are ordered by file and then by number: 0 is the file information, 1 to  *)
(* Chunks are the blocks, then the EOT and the end frame.                   *)

Labelled(a)        == a.t \in {"body", "eot"}
Before(f, k, g, l) == f < g \/ (f = g /\ k <= l)

\* A frame again, or the next one: behind the EOT that is the end frame, or the
\* information of the next file.
Adjacent(f, k, g, l) == (g = f /\ l \in {k, k + 1}) \/ (g = f + 1 /\ l = 0 /\ k = Chunks + 1)

\* What number k of file f carries.
Shape(a) ==
  /\ a.t = "eot" => a.k = Chunks + 1
  /\ a.t = "body" =>
       \/ a.k = 0 /\ snd.ymodem /\ a.seq = 0 /\ a.data = InfoData(a.f)
       \/ a.k \in 1 .. Chunks /\ a.seq = a.k % SeqCount /\ a.data = ChunkData(a.f, a.k)
       \/ a.k = Chunks + 2 /\ snd.ymodem /\ a.seq = 0 /\ a.data = EndData
  /\ Labelled(a) /\ ~snd.ymodem => a.f = 1

Shapes(line)  == \A i \in DOMAIN line : Shape(line[i])
Ordered(line) ==
  \A i, j \in DOMAIN line : i < j /\ Labelled(line[i]) /\ Labelled(line[j]) =>
    Before(line[i].f, line[i].k, line[j].f, line[j].k)

\* The number the sender is at, at a position and with a chunk.
NumberOf(at, k) == IF at \in {"info", "info_request"} THEN 0
                   ELSE IF at = "data" THEN k
                   ELSE IF at = "end" THEN Chunks + 2 ELSE Chunks + 1
SndK == NumberOf(snd.at, snd.chunk)

SndInv ==
  /\ snd.at = "handshake" => snd.file = 1 /\ snd.chunk = 1
  /\ ~snd.ymodem => snd.at \in {"handshake", "data", "eot", "done"} /\ snd.file = 1
  /\ snd.ymodem => snd.at # "eot"

\* Nothing on the line is beyond the sender.
Sent ==
  \A i \in DOMAIN toR : Labelled(toR[i]) =>
    /\ snd.at # "handshake"
    /\ snd.at # "done" => Before(toR[i].f, toR[i].k, snd.file, SndK)

LineInv == Shapes(toR) /\ Ordered(toR) /\ SndInv /\ Sent

\* All that depends on the protocol of the transfer is fixed with it.
LEMMA Fixed ==
  ASSUME snd'.ymodem = snd.ymodem
  PROVE  /\ Chunks' = Chunks /\ BlockSize' = BlockSize /\ Length' = Length
         /\ \A f, k : ChunkData(f, k)' = ChunkData(f, k)
         /\ \A e : Cut(e)' = Cut(e)
         /\ \A f, e : Taken(f, e)' = Taken(f, e)
         /\ \A f : Content(f)' = Content(f)
<1>1. Chunks' = Chunks /\ BlockSize' = BlockSize  BY DEF Chunks, BlockSize
<1>2. \A k : ChunkLen(k)' = ChunkLen(k)  BY <1>1 DEF ChunkLen
<1>3. \A f, k : ChunkData(f, k)' = ChunkData(f, k)  BY <1>1, <1>2 DEF ChunkData
<1>4. Length' = Length  BY <1>1 DEF Length
<1>5. \A e : Cut(e)' = Cut(e)  BY <1>1, <1>4 DEF Cut
<1>6. \A f, e : Taken(f, e)' = Taken(f, e)  BY <1>5 DEF Taken
<1>7. \A f : Content(f)' = Content(f)  BY <1>1 DEF Content
<1> QED  BY <1>1, <1>3, <1>4, <1>5, <1>6, <1>7

\* A line that the receiver has read from, or that lost something.
SameAtom(a, b) ==
  /\ a.t = b.t
  /\ Labelled(a) => a.f = b.f /\ a.k = b.k
  /\ a.t = "body" => a.seq = b.seq /\ a.data = b.data
Thinned(new, line) ==
  \E h \in [DOMAIN new -> DOMAIN line] :
    /\ \A i \in DOMAIN new : Labelled(new[i]) => SameAtom(new[i], line[h[i]])
    /\ \A i, j \in DOMAIN new : i < j => h[i] < h[j]

LEMMA ThinnedMember ==
  ASSUME NEW new, NEW line, Thinned(new, line), NEW i \in DOMAIN new, Labelled(new[i])
  PROVE  \E j \in DOMAIN line : SameAtom(new[i], line[j]) /\ Labelled(line[j])
<1>1. PICK h \in [DOMAIN new -> DOMAIN line] :
        \A n \in DOMAIN new : Labelled(new[n]) => SameAtom(new[n], line[h[n]])
  BY DEF Thinned
<1>2. h[i] \in DOMAIN line /\ SameAtom(new[i], line[h[i]])  BY <1>1
<1> QED  BY <1>2 DEF SameAtom, Labelled

LEMMA ThinnedOrder ==
  ASSUME NEW new, NEW line, Thinned(new, line), Ordered(line)
  PROVE  Ordered(new)
<1>1. PICK h \in [DOMAIN new -> DOMAIN line] :
        /\ \A n \in DOMAIN new : Labelled(new[n]) => SameAtom(new[n], line[h[n]])
        /\ \A n, m \in DOMAIN new : n < m => h[n] < h[m]
  BY DEF Thinned
<1> SUFFICES ASSUME NEW i \in DOMAIN new, NEW j \in DOMAIN new, i < j, Labelled(new[i]),
                    Labelled(new[j])
             PROVE  Before(new[i].f, new[i].k, new[j].f, new[j].k)
  BY DEF Ordered
<1>2. h[i] \in DOMAIN line /\ h[j] \in DOMAIN line /\ h[i] < h[j]  BY <1>1
<1>3. SameAtom(new[i], line[h[i]]) /\ SameAtom(new[j], line[h[j]])  BY <1>1
<1>4. Labelled(line[h[i]]) /\ Labelled(line[h[j]])  BY <1>3 DEF SameAtom, Labelled
<1>5. Before(line[h[i]].f, line[h[i]].k, line[h[j]].f, line[h[j]].k)
  BY <1>2, <1>4 DEF Ordered
<1> QED  BY <1>3, <1>5 DEF SameAtom

LEMMA ThinnedShapes ==
  ASSUME NEW new, NEW line, Thinned(new, line), Shapes(line)
  PROVE  Shapes(new)
<1> SUFFICES ASSUME NEW i \in DOMAIN new PROVE Shape(new[i])  BY DEF Shapes
<1>1. CASE ~Labelled(new[i])  BY <1>1 DEF Shape, Labelled
<1>2. CASE Labelled(new[i])
  <2>1. PICK j \in DOMAIN line : SameAtom(new[i], line[j])  BY <1>2, ThinnedMember
  <2>2. Shape(line[j])  BY <2>1 DEF Shapes
  <2> QED  BY <1>2, <2>1, <2>2 DEF Shape, SameAtom, Labelled
<1> QED  BY <1>1, <1>2

\* What the receiver's reads leave of the line.
LEMMA ThinnedReads ==
  ASSUME NEW line \in Seq(Atoms)
  PROVE  /\ Thinned(<<>>, line) /\ Thinned(line, line)
         /\ line # <<>> => Thinned(Tail(line), line) /\ Thinned(<<JUNK>> \o Tail(line), line)
<1>1. Thinned(<<>>, line)
  <2> DEFINE h == [i \in {} |-> 1]
  <2>1. h \in [DOMAIN <<>> -> DOMAIN line]  OBVIOUS
  <2> QED  BY <2>1 DEF Thinned
<1>2. Thinned(line, line)
  <2> DEFINE h == [i \in DOMAIN line |-> i]
  <2>1. h \in [DOMAIN line -> DOMAIN line]  OBVIOUS
  <2> QED  BY <2>1 DEF Thinned, SameAtom
<1>3. ASSUME line # <<>> PROVE Thinned(Tail(line), line) /\ Thinned(<<JUNK>> \o Tail(line), line)
  <2> DEFINE n == Len(line)  s == Tail(line)  t == <<JUNK>> \o s
  <2>1. n \in Nat /\ n >= 1 /\ DOMAIN line = 1 .. n  BY <1>3, EmptySeq, LenProperties
  <2>2. s \in Seq(Atoms) /\ Len(s) = n - 1 /\ \A i \in 1 .. n - 1 : s[i] = line[i + 1]
    BY <1>3, HeadTailProperties
  <2>3. DOMAIN s = 1 .. n - 1  BY <2>2, LenProperties
  <2> HIDE DEF n, s
  <2>4. <<JUNK>> \in Seq(Atoms) /\ Len(<<JUNK>>) = 1 /\ <<JUNK>>[1] = JUNK  BY DEF Atoms
  <2>5. t \in Seq(Atoms) /\ Len(t) = n /\ t[1] = JUNK /\ \A i \in 2 .. n : t[i] = line[i]
    <3>1. t \in Seq(Atoms) /\ Len(t) = 1 + (n - 1)
          /\ \A i \in 1 .. 1 + (n - 1) : t[i] = IF i <= 1 THEN JUNK ELSE s[i - 1]
      BY <2>1, <2>2, <2>4, ConcatProperties
    <3> HIDE DEF t
    <3>2. ASSUME NEW i \in 2 .. n PROVE t[i] = line[i]
      <4>1. i - 1 \in 1 .. n - 1 /\ (i - 1) + 1 = i /\ i \in 1 .. 1 + (n - 1) /\ ~(i <= 1)
        BY <2>1
      <4>2. t[i] = s[i - 1]  BY <3>1, <4>1
      <4>3. s[i - 1] = line[(i - 1) + 1]  BY <2>2, <4>1
      <4> QED  BY <4>1, <4>2, <4>3
    <3> QED  BY <3>1, <3>2, <2>1
  <2>6. DOMAIN t = 1 .. n  BY <2>5, LenProperties
  <2> HIDE DEF t
  <2>7. Thinned(s, line)
    <3> DEFINE h == [i \in 1 .. n - 1 |-> i + 1]
    <3>1. h \in [DOMAIN s -> DOMAIN line]  BY <2>1, <2>3
    <3>2. \A i \in DOMAIN s : SameAtom(s[i], line[h[i]])  BY <2>2, <2>3 DEF SameAtom
    <3>3. \A i, j \in DOMAIN s : i < j => h[i] < h[j]  BY <2>1, <2>3
    <3> HIDE DEF h
    <3> QED  BY <3>1, <3>2, <3>3 DEF Thinned
  <2>8. Thinned(t, line)
    <3> DEFINE h == [i \in 1 .. n |-> i]
    <3>1. h \in [DOMAIN t -> DOMAIN line]  BY <2>1, <2>6
    <3>2. \A i \in DOMAIN t : Labelled(t[i]) => SameAtom(t[i], line[h[i]])
      BY <2>1, <2>5, <2>6 DEF SameAtom, Labelled, JUNK
    <3>3. \A i, j \in DOMAIN t : i < j => h[i] < h[j]  BY <2>1, <2>6
    <3> HIDE DEF h
    <3> QED  BY <3>1, <3>2, <3>3 DEF Thinned
  <2> QED  BY <2>7, <2>8 DEF s, t
<1> QED  BY <1>1, <1>2, <1>3

\* The invariant of the line, after a step that leaves the protocol as it is.
LEMMA LineAfter ==
  ASSUME snd'.ymodem = snd.ymodem, Shapes(toR'), Ordered(toR'), SndInv',
         \A i \in DOMAIN toR' : Labelled(toR'[i]) =>
           /\ snd'.at # "handshake"
           /\ snd'.at # "done" => Before(toR'[i].f, toR'[i].k, snd'.file, SndK')
  PROVE  LineInv'
<1>1. Shapes(toR)'
  <2> SUFFICES ASSUME NEW i \in DOMAIN toR' PROVE Shape(toR[i])'
    BY DEF Shapes
  <2>1. Shape(toR'[i])  BY DEF Shapes
  <2> QED
    BY <2>1 DEF Shape, Labelled, ChunkData, ChunkLen, InfoData, EndData, BlockSize, Chunks, Unit, Pad
<1>2. Ordered(toR)'  BY DEF Ordered, Labelled, Before
<1>3. Sent'  BY DEF Sent, Labelled, Before
<1> QED  BY <1>1, <1>2, <1>3 DEF LineInv

\* The receiver and the faults only thin the line out.
LEMMA ThinnedLine ==
  ASSUME LineInv, snd' = snd, Thinned(toR', toR)
  PROVE  LineInv'
<1>1. Shapes(toR') /\ Ordered(toR')  BY ThinnedShapes, ThinnedOrder DEF LineInv
<1>2. SndInv'  BY DEF SndInv, LineInv
<1>3. SndK' = SndK  BY DEF SndK, NumberOf, Chunks
<1>4. ASSUME NEW i \in DOMAIN toR', Labelled(toR'[i])
      PROVE  /\ snd'.at # "handshake"
             /\ snd'.at # "done" => Before(toR'[i].f, toR'[i].k, snd'.file, SndK')
  <2>1. PICK j \in DOMAIN toR : SameAtom(toR'[i], toR[j]) /\ Labelled(toR[j])
    BY <1>4, ThinnedMember
  <2>2. snd.at # "handshake" /\ (snd.at # "done" => Before(toR[j].f, toR[j].k, snd.file, SndK))
    BY <2>1 DEF LineInv, Sent
  <2> QED  BY <1>3, <1>4, <2>1, <2>2 DEF SameAtom
<1> QED  BY <1>1, <1>2, <1>4, LineAfter

\* A line that grows has its old atoms first and the new ones behind them.
LEMMA Grown ==
  ASSUME NEW S, NEW s \in Seq(S), NEW x \in Seq(S), NEW i \in DOMAIN (s \o x)
  PROVE  \/ i \in DOMAIN s /\ (s \o x)[i] = s[i]
         \/ i > Len(s) /\ \E j \in DOMAIN x : (s \o x)[i] = x[j]
<1>1. /\ s \o x \in Seq(S) /\ Len(s \o x) = Len(s) + Len(x)
      /\ \A n \in 1 .. Len(s) + Len(x) : (s \o x)[n] = IF n <= Len(s) THEN s[n] ELSE x[n - Len(s)]
  BY ConcatProperties
<1>2. /\ Len(s) \in Nat /\ Len(x) \in Nat /\ DOMAIN s = 1 .. Len(s) /\ DOMAIN x = 1 .. Len(x)
      /\ DOMAIN (s \o x) = 1 .. Len(s) + Len(x)
  BY <1>1, LenProperties
<1>3. CASE i <= Len(s)
  <2>1. i \in DOMAIN s  BY <1>2, <1>3
  <2> QED  BY <1>1, <1>2, <1>3, <2>1
<1>4. CASE i > Len(s)
  <2>1. i - Len(s) \in DOMAIN x /\ i \in 1 .. Len(s) + Len(x) /\ ~(i <= Len(s))  BY <1>2, <1>4
  <2> QED  BY <1>1, <1>4, <2>1
<1> QED  BY <1>2, <1>3, <1>4

\* The numbers of a line's frames are numbers.
LEMMA Labels ==
  ASSUME NEW line \in Seq(Atoms), NEW i \in DOMAIN line
  PROVE  line[i] \in Atoms /\ (Labelled(line[i]) => line[i].f \in 1 .. Files /\ line[i].k \in Nat)
<1>1. line[i] \in Atoms  BY ElementOfSeq, LenProperties
<1>2. ASSUME Labelled(line[i]) PROVE line[i] \in Bodies \cup Eots
  BY <1>1, <1>2 DEF Labelled, Atoms, HEAD, CAN, JUNK
<1>3. ASSUME Labelled(line[i]) PROVE line[i].f \in 1 .. Files /\ line[i].k \in Nat
  BY <1>2, <1>3 DEF Bodies, Eots
<1> QED  BY <1>1, <1>3

\* A transmission at or behind everything that is on the line keeps the order.
LEMMA SentInOrder ==
  ASSUME NEW line \in Seq(Atoms), NEW x \in Seq(Atoms), NEW f \in 1 .. Files, NEW k \in Nat,
         Shapes(line), Ordered(line), Shapes(x),
         \A j \in DOMAIN x : Labelled(x[j]) => x[j].f = f /\ x[j].k = k,
         \A i \in DOMAIN line : Labelled(line[i]) => Before(line[i].f, line[i].k, f, k)
  PROVE  Shapes(line \o x) /\ Ordered(line \o x)
<1> DEFINE u == line \o x
<1>0. u \in Seq(Atoms) /\ DOMAIN u \subseteq Nat  BY ConcatProperties, LenProperties
<1>00. Len(line) \in Nat /\ DOMAIN line = 1 .. Len(line)  BY LenProperties
<1>1. \A i \in DOMAIN u : \/ i \in DOMAIN line /\ u[i] = line[i]
                          \/ i > Len(line) /\ \E j \in DOMAIN x : u[i] = x[j]
  BY Grown
<1> HIDE DEF u
<1>2. Shapes(u)  BY <1>1 DEF Shapes
<1>3. Ordered(u)
  <2> SUFFICES ASSUME NEW i \in DOMAIN u, NEW j \in DOMAIN u, i < j, Labelled(u[i]), Labelled(u[j])
               PROVE  Before(u[i].f, u[i].k, u[j].f, u[j].k)
    BY DEF Ordered
  <2>1. CASE j \in DOMAIN line /\ u[j] = line[j]
    <3>1. i \in DOMAIN line /\ u[i] = line[i]
      <4>1. ~(i > Len(line))  BY <2>1, <1>0, <1>00
      <4> QED  BY <4>1, <1>1
    <3> QED  BY <2>1, <3>1 DEF Ordered
  <2>2. CASE \E n \in DOMAIN x : u[j] = x[n]
    <3>1. u[j].f = f /\ u[j].k = k  BY <2>2
    <3>2. CASE u[i] = line[i] /\ i \in DOMAIN line  BY <3>1, <3>2
    <3>3. CASE \E n \in DOMAIN x : u[i] = x[n]
      <4>1. u[i].f = f /\ u[i].k = k  BY <3>3
      <4> QED  BY <3>1, <4>1 DEF Before
    <3> QED  BY <3>2, <3>3, <1>1
  <2> QED  BY <2>1, <2>2, <1>1
<1> QED  BY <1>2, <1>3 DEF u

\* A transmission is what its position and number say.
LEMMA TransmissionShape ==
  ASSUME SndForm, NEW at, NEW f \in 1 .. Files, NEW k \in 1 .. Chunks, NEW crc \in 1 .. 2,
         at \in {"info", "info_request", "end"} => snd.ymodem, ~snd.ymodem => f = 1,
         NEW j \in DOMAIN Transmission(at, f, k, crc)
  PROVE  /\ Shape(Transmission(at, f, k, crc)[j])
         /\ Labelled(Transmission(at, f, k, crc)[j]) =>
              /\ Transmission(at, f, k, crc)[j].f = f
              /\ Transmission(at, f, k, crc)[j].k = NumberOf(at, k)
              /\ at \notin {"handshake", "done"}
<1> DEFINE x == Transmission(at, f, k, crc)
<1>0. Chunks \in Nat /\ Chunks >= 1  BY ChunksPositive
<1>1. ASSUME NEW seq, NEW data, NEW n, x = <<HEAD, Body(seq, data, crc, f, n)>>
      PROVE  x[j] = HEAD \/ x[j] = Body(seq, data, crc, f, n)
  <2> HIDE DEF x
  <2>1. j \in {1, 2}  BY <1>1 DEF x
  <2> QED  BY <1>1, <2>1
<1>2. ~Labelled(HEAD) /\ Shape(HEAD)  BY DEF Labelled, HEAD, Shape
<1>3. CASE at \in {"info", "info_request"}
  <2>1. x = <<HEAD, Body(0, InfoData(f), crc, f, 0)>>  BY <1>3 DEF Transmission
  <2>2. x[j] = HEAD \/ x[j] = Body(0, InfoData(f), crc, f, 0)  BY <2>1, <1>1
  <2>3. NumberOf(at, k) = 0  BY <1>3 DEF NumberOf
  <2> HIDE DEF x
  <2>4. LET a == Body(0, InfoData(f), crc, f, 0) IN Shape(a) /\ a.f = f /\ a.k = 0
    BY <1>3 DEF Body, Shape, Labelled
  <2>5. Shape(x[j]) /\ (Labelled(x[j]) => x[j].f = f /\ x[j].k = 0)  BY <2>2, <2>4, <1>2
  <2> QED  BY <1>3, <2>3, <2>5 DEF x
<1>4. CASE at = "data"
  <2>1. x = <<HEAD, Body(k % SeqCount, ChunkData(f, k), crc, f, k)>>  BY <1>4 DEF Transmission
  <2>2. x[j] = HEAD \/ x[j] = Body(k % SeqCount, ChunkData(f, k), crc, f, k)  BY <2>1, <1>1
  <2>3. NumberOf(at, k) = k  BY <1>4 DEF NumberOf
  <2> HIDE DEF x
  <2>4. LET a == Body(k % SeqCount, ChunkData(f, k), crc, f, k) IN Shape(a) /\ a.f = f /\ a.k = k
    <3> DEFINE a == Body(k % SeqCount, ChunkData(f, k), crc, f, k)
    <3>1. /\ a.t = "body" /\ a.seq = k % SeqCount /\ a.data = ChunkData(f, k) /\ a.f = f /\ a.k = k
      BY DEF Body
    <3> HIDE DEF a
    <3>2. Shape(a) /\ a.f = f /\ a.k = k  BY <3>1 DEF Shape, Labelled
    <3> QED  BY <3>2 DEF a
  <2>5. Shape(x[j]) /\ (Labelled(x[j]) => x[j].f = f /\ x[j].k = k)  BY <2>2, <2>4, <1>2
  <2> QED  BY <1>4, <2>3, <2>5 DEF x
<1>5. CASE at \in {"eot", "eot1", "eot2"}
  <2>1. x = <<EOT(f, Chunks + 1)>>  BY <1>5 DEF Transmission
  <2>2. x[j] = EOT(f, Chunks + 1)  BY <2>1
  <2>3. NumberOf(at, k) = Chunks + 1  BY <1>5 DEF NumberOf
  <2> HIDE DEF x
  <2>4. LET a == EOT(f, Chunks + 1) IN Shape(a) /\ a.f = f /\ a.k = Chunks + 1
    BY DEF EOT, Shape, Labelled
  <2> QED  BY <1>5, <2>2, <2>3, <2>4 DEF x
<1>6. CASE at = "end"
  <2>1. x = <<HEAD, Body(0, EndData, crc, f, Chunks + 2)>>  BY <1>6 DEF Transmission
  <2>2. x[j] = HEAD \/ x[j] = Body(0, EndData, crc, f, Chunks + 2)  BY <2>1, <1>1
  <2>3. NumberOf(at, k) = Chunks + 2  BY <1>6 DEF NumberOf
  <2> HIDE DEF x
  <2>4. LET a == Body(0, EndData, crc, f, Chunks + 2) IN Shape(a) /\ a.f = f /\ a.k = Chunks + 2
    BY <1>6 DEF Body, Shape, Labelled
  <2>5. Shape(x[j]) /\ (Labelled(x[j]) => x[j].f = f /\ x[j].k = Chunks + 2)  BY <2>2, <2>4, <1>2
  <2> QED  BY <1>6, <2>3, <2>5 DEF x
<1>7. CASE at \notin {"info", "info_request", "data", "eot", "eot1", "eot2", "end"}
  <2>1. x = <<>>  BY <1>7 DEF Transmission
  <2> QED  BY <2>1
<1> QED  BY <1>3, <1>4, <1>5, <1>6, <1>7

\* The sender goes to a position, and what it sends on the way.
Goes(at, f, k) ==
  /\ snd'.at = at /\ snd'.file = f /\ snd'.chunk = k /\ snd'.ymodem = snd.ymodem
  /\ snd.at # "handshake" => snd'.crc = snd.crc
  /\ \/ at \in {"handshake", "info_request", "done"} /\ toR' = toR
     \/ at = "done" /\ toR' = toR \o <<CAN>>
     \/ toR' = toR \o Transmission(at, f, k, snd'.crc)

LEMMA EnterGoes ==
  ASSUME SndForm, NEW at, NEW f, NEW k, Enter(at, f, k)
  PROVE  Goes(at, f, k)
<1>1. snd' = [snd EXCEPT !.at = at, !.file = f, !.chunk = k, !.try = 0]  BY DEF Enter
<1>2. /\ snd'.at = at /\ snd'.file = f /\ snd'.chunk = k /\ snd'.ymodem = snd.ymodem
      /\ snd'.crc = snd.crc
  BY <1>1 DEF SndForm, Senders
<1> QED  BY <1>2 DEF Enter, Goes

LEMMA FinishGoes ==
  ASSUME Form, NEW res, Finish(res)
  PROVE  Goes("done", snd.file, snd.chunk)
<1>1. snd' = [snd EXCEPT !.at = "done", !.res = res]  BY DEF Finish
<1>2. /\ snd'.at = "done" /\ snd'.file = snd.file /\ snd'.chunk = snd.chunk
      /\ snd'.ymodem = snd.ymodem /\ snd'.crc = snd.crc
  BY <1>1 DEF Form, SndForm, Senders
<1>3. toR \o <<>> = toR  BY ConcatEmptySeq DEF Form, LineForm
<1> QED  BY <1>2, <1>3 DEF Finish, Goes

LEMMA AgainGoes ==
  ASSUME Form, NEW at, NEW res, Again(at, res)
  PROVE  Goes(at, snd.file, snd.chunk) \/ Goes("done", snd.file, snd.chunk)
<1>1. CASE snd.try + 1 < SendRetry
  <2>1. snd' = [snd EXCEPT !.at = at, !.try = snd.try + 1]  BY <1>1 DEF Again
  <2>2. /\ snd'.at = at /\ snd'.file = snd.file /\ snd'.chunk = snd.chunk
        /\ snd'.ymodem = snd.ymodem /\ snd'.crc = snd.crc
    BY <2>1 DEF Form, SndForm, Senders
  <2>3. toR' = toR \o Transmission(at, snd.file, snd.chunk, snd.crc)  BY <1>1 DEF Again
  <2> QED  BY <2>2, <2>3 DEF Goes
<1>2. CASE ~(snd.try + 1 < SendRetry)
  BY <1>2, FinishGoes DEF Again
<1> QED  BY <1>1, <1>2

\* The positions of the sender and the ways between them.
Acked == toS # <<>> /\ Head(toS) = "ACK"
Stays(ats) == \E at \in ats : Goes(at, snd.file, snd.chunk)
Leaves == (snd.file < Files /\ Goes("info", snd.file + 1, 1)) \/ Stays({"end"})
Way ==
  \/ snd.at = "handshake" /\ Stays({"handshake", "done", IF snd.ymodem THEN "info" ELSE "data"})
  \/ snd.at = "info" /\ (Stays({"info", "done"}) \/ (Acked /\ Stays({"info_request"})))
  \/ snd.at = "info_request" /\ (Stays({"info", "done"}) \/ Goes("data", snd.file, 1))
  \/ /\ snd.at = "data"
     /\ \/ Stays({"data", "done"})
        \/ Acked /\ snd.chunk < Chunks /\ Goes("data", snd.file, snd.chunk + 1)
        \/ Acked /\ ~(snd.chunk < Chunks) /\ Stays({IF snd.ymodem THEN "eot1" ELSE "eot"})
  \/ snd.at = "eot" /\ Stays({"eot", "done"})
  \/ snd.at = "eot1" /\ (Stays({"eot1", "eot2", "end_request", "done"}) \/ Leaves)
  \/ snd.at = "eot2" /\ Stays({"eot2", "end_request", "done"})
  \/ snd.at = "end_request" /\ (Stays({"end_request", "done"}) \/ Leaves)
  \/ snd.at = "end" /\ Stays({"end", "done"})

LEMMA HandshakeWay == ASSUME Form, SndInv, sender_handshake PROVE Way
<1>0. snd.at = "handshake" /\ snd.file = 1 /\ snd.chunk = 1  BY DEF sender_handshake, SndInv
<1>1. ASSUME NEW at, NEW crc, snd' = [snd EXCEPT !.at = at, !.crc = crc, !.try = 0],
             toR' = toR \o Transmission(at, 1, 1, crc)
      PROVE  Goes(at, snd.file, snd.chunk)
  <2>1. snd'.at = at /\ snd'.file = 1 /\ snd'.chunk = 1 /\ snd'.ymodem = snd.ymodem /\ snd'.crc = crc
    BY <1>0, <1>1 DEF Form, SndForm, Senders
  <2> QED  BY <1>0, <1>1, <2>1 DEF Goes
<1>2. ASSUME snd' = [snd EXCEPT !.try = @ + 1], UNCHANGED toR
      PROVE  Goes("handshake", snd.file, snd.chunk)
  BY <1>0, <1>2 DEF Form, SndForm, Senders, Goes
<1>3. Finish("ERR_RETRY") => Goes("done", snd.file, snd.chunk)  BY FinishGoes
<1> DEFINE at == IF snd.ymodem THEN "info" ELSE "data"
<1>4. CASE \E c \in {"C", "NAK"} :
             /\ snd' = [snd EXCEPT !.at = at, !.crc = IF c = "C" THEN 2 ELSE 1, !.try = 0]
             /\ toR' = toR \o Transmission(at, 1, 1, IF c = "C" THEN 2 ELSE 1)
  <2>1. PICK c \in {"C", "NAK"} :
             /\ snd' = [snd EXCEPT !.at = at, !.crc = IF c = "C" THEN 2 ELSE 1, !.try = 0]
             /\ toR' = toR \o Transmission(at, 1, 1, IF c = "C" THEN 2 ELSE 1)
    BY <1>4
  <2>2. Goes(at, snd.file, snd.chunk)  BY <2>1, <1>1
  <2> QED  BY <1>0, <2>2 DEF Way, Stays
<1>5. CASE IF snd.try + 1 < HandshakeRetry
           THEN snd' = [snd EXCEPT !.try = @ + 1] /\ UNCHANGED toR
           ELSE Finish("ERR_RETRY")
  <2>1. Goes("handshake", snd.file, snd.chunk) \/ Goes("done", snd.file, snd.chunk)
    BY <1>2, <1>3, <1>5
  <2> QED  BY <1>0, <2>1 DEF Way, Stays
<1> QED  BY <1>4, <1>5 DEF sender_handshake

LEMMA FileFrameWay == ASSUME Form, sender_send_file_frame PROVE Way
<1>1. SndForm  BY DEF Form
<1>2. ASSUME snd' = [snd EXCEPT !.at = "info_request"], UNCHANGED toR
      PROVE  Goes("info_request", snd.file, snd.chunk)
  BY <1>1, <1>2 DEF SndForm, Senders, Goes
<1>3. Enter("data", snd.file, 1) => Goes("data", snd.file, 1)  BY <1>1, EnterGoes
<1>4. Again("info", "ERR_ACK") => Stays({"info", "done"})  BY AgainGoes DEF Stays
<1>5. CASE snd.at = "info"
  <2>1. \/ Acked /\ snd' = [snd EXCEPT !.at = "info_request"] /\ UNCHANGED toR
        \/ Again("info", "ERR_ACK")
    BY <1>5 DEF sender_send_file_frame, Wait, Acked
  <2>2. Goes("info_request", snd.file, snd.chunk) => Stays({"info_request"})  BY DEF Stays
  <2>3. (Acked /\ Stays({"info_request"})) \/ Stays({"info", "done"})
    <3>1. CASE Acked /\ snd' = [snd EXCEPT !.at = "info_request"] /\ UNCHANGED toR
      <4>1. Goes("info_request", snd.file, snd.chunk)  BY <3>1, <1>2
      <4> QED  BY <3>1, <4>1, <2>2
    <3>2. CASE Again("info", "ERR_ACK")  BY <3>2, <1>4
    <3> QED  BY <2>1, <3>1, <3>2
  <2> QED  BY <1>5, <2>3 DEF Way
<1>6. CASE snd.at = "info_request"
  <2>1. Enter("data", snd.file, 1) \/ Again("info", "ERR_ACK")
    BY <1>6 DEF sender_send_file_frame
  <2> QED  BY <1>6, <2>1, <1>3, <1>4 DEF Way
<1> QED  BY <1>5, <1>6 DEF sender_send_file_frame

LEMMA FrameWay == ASSUME Form, sender_send_frame PROVE Way
<1>1. SndForm  BY DEF Form
<1>2. snd.at = "data"  BY DEF sender_send_frame
<1>3. CASE Acked /\ snd.chunk < Chunks /\ Enter("data", snd.file, snd.chunk + 1)
  BY <1>1, <1>2, <1>3, EnterGoes DEF Way
<1>4. CASE Acked /\ ~(snd.chunk < Chunks) /\ Enter(IF snd.ymodem THEN "eot1" ELSE "eot", snd.file, snd.chunk)
  <2>1. Stays({IF snd.ymodem THEN "eot1" ELSE "eot"})  BY <1>1, <1>4, EnterGoes DEF Stays
  <2> QED  BY <1>2, <1>4, <2>1 DEF Way
<1>5. CASE Finish("ERR_CAN") \/ Finish("ERR_ACK")
  <2>1. Stays({"data", "done"})  BY <1>5, FinishGoes DEF Stays
  <2> QED  BY <1>2, <2>1 DEF Way
<1>6. CASE Again("data", "ERR_CAN")
  <2>1. Stays({"data", "done"})  BY <1>6, AgainGoes DEF Stays
  <2> QED  BY <1>2, <2>1 DEF Way
<1> QED  BY <1>3, <1>4, <1>5, <1>6 DEF sender_send_frame, Wait, Acked

LEMMA EotWay == ASSUME Form, sender_send_eot PROVE Way
<1>1. SndForm  BY DEF Form
<1>2. \A at : Enter(at, snd.file, snd.chunk) => Goes(at, snd.file, snd.chunk)  BY <1>1, EnterGoes
<1>3. Finish("OK") => Goes("done", snd.file, snd.chunk)  BY FinishGoes
<1>4. \A at : Again(at, "ERR_ACK") => Goes(at, snd.file, snd.chunk) \/ Goes("done", snd.file, snd.chunk)
  BY AgainGoes
<1>5. SendEnd => Leaves
  <2>1. Enter("info", snd.file + 1, 1) => Goes("info", snd.file + 1, 1)  BY <1>1, EnterGoes
  <2> QED  BY <1>2, <2>1 DEF SendEnd, Leaves, Stays
<1>6. CASE snd.at = "eot"
  <2>1. Finish("OK") \/ Again("eot", "ERR_ACK")  BY <1>6 DEF sender_send_eot
  <2>2. Stays({"eot", "done"})  BY <2>1, <1>3, <1>4 DEF Stays
  <2> QED  BY <1>6, <2>2 DEF Way
<1>7. CASE snd.at = "eot1"
  <2>1. \/ Enter("eot2", snd.file, snd.chunk) \/ Enter("end_request", snd.file, snd.chunk)
        \/ SendEnd \/ Again("eot1", "ERR_ACK")
    BY <1>7 DEF sender_send_eot
  <2>2. Leaves \/ Stays({"eot1", "eot2", "end_request", "done"})  BY <2>1, <1>2, <1>4, <1>5 DEF Stays
  <2> QED  BY <1>7, <2>2 DEF Way
<1>8. CASE snd.at = "eot2"
  <2>1. Enter("end_request", snd.file, snd.chunk) \/ Again("eot2", "ERR_ACK")
    BY <1>8 DEF sender_send_eot
  <2>2. Stays({"eot2", "end_request", "done"})  BY <2>1, <1>2, <1>4 DEF Stays
  <2> QED  BY <1>8, <2>2 DEF Way
<1>9. CASE snd.at = "end_request"
  <2>1. SendEnd \/ Again("end_request", "ERR_ACK")  BY <1>9 DEF sender_send_eot
  <2>2. Leaves \/ Stays({"end_request", "done"})  BY <2>1, <1>4, <1>5 DEF Stays
  <2> QED  BY <1>9, <2>2 DEF Way
<1>10. CASE snd.at = "end"
  <2>1. Finish("OK") \/ Again("end", "ERR_ACK")  BY <1>10 DEF sender_send_eot
  <2>2. Stays({"end", "done"})  BY <2>1, <1>3, <1>4 DEF Stays
  <2> QED  BY <1>10, <2>2 DEF Way
<1> QED  BY <1>6, <1>7, <1>8, <1>9, <1>10 DEF sender_send_eot

LEMMA SenderWay == ASSUME Form, SndInv, sender_run PROVE Way
  BY HandshakeWay, FileFrameWay, FrameWay, EotWay DEF sender_run

\* What all those ways have in common.
LEMMA WayFacts ==
  ASSUME Form, SndInv, Way
  PROVE  /\ Goes(snd'.at, snd'.file, snd'.chunk) /\ snd'.ymodem = snd.ymodem
         /\ snd.at # "done" /\ SndInv' /\ (snd'.at = "handshake" => snd.at = "handshake")
         /\ snd.at # "handshake" /\ snd'.at # "done" => Before(snd.file, SndK, snd'.file, SndK')
         /\ snd.at # "handshake" /\ snd'.at # "done" => Adjacent(snd.file, SndK, snd'.file, SndK')
         /\ snd'.at \in {"info_request", "end_request"} => snd'.file = snd.file /\ SndK' = SndK
         /\ snd'.file = snd.file \/ (snd'.file = snd.file + 1 /\ snd'.at = "info")
         /\ snd.at \in {"info", "info_request"} =>
              snd'.file = snd.file /\ snd'.at \in {"info", "info_request", "data", "done"}
         /\ ~Acked /\ snd.at \in {"handshake", "info", "data"} =>
              /\ snd'.at \in {"handshake", "info", "data", "done"}
              /\ snd'.file = snd.file /\ snd'.chunk = snd.chunk
              /\ snd'.at = "data" => snd.at = "data" \/ ~snd.ymodem
<1> DEFINE To(at, f, k) == snd'.at = at /\ snd'.file = f /\ snd'.chunk = k
           In(ats) == snd'.at \in ats /\ snd'.file = snd.file /\ snd'.chunk = snd.chunk
           Out == To("info", snd.file + 1, 1) \/ In({"end"})
<1>0. /\ snd.file \in 1 .. Files /\ snd.chunk \in Nat /\ snd.chunk >= 1 /\ snd.chunk <= Chunks
      /\ Chunks \in Nat /\ Chunks >= 1 /\ snd.ymodem \in BOOLEAN
  BY ChunksPositive DEF Form, SndForm, Senders
<1>1. \A at, f, k : Goes(at, f, k) =>
        To(at, f, k) /\ Goes(snd'.at, snd'.file, snd'.chunk) /\ snd'.ymodem = snd.ymodem
  BY DEF Goes
<1>2. \A ats : Stays(ats) =>
        In(ats) /\ Goes(snd'.at, snd'.file, snd'.chunk) /\ snd'.ymodem = snd.ymodem
  <2> HIDE DEF To
  <2> SUFFICES ASSUME NEW ats, Stays(ats)
               PROVE  In(ats) /\ Goes(snd'.at, snd'.file, snd'.chunk) /\ snd'.ymodem = snd.ymodem
    OBVIOUS
  <2>1. PICK at \in ats : Goes(at, snd.file, snd.chunk)  BY DEF Stays
  <2> QED  BY <2>1, <1>1 DEF To
<1>3. Leaves => Out /\ Goes(snd'.at, snd'.file, snd'.chunk) /\ snd'.ymodem = snd.ymodem
  BY <1>1, <1>2 DEF Leaves
<1>4. Goes(snd'.at, snd'.file, snd'.chunk) /\ snd'.ymodem = snd.ymodem
  <2> HIDE DEF To, In, Out
  <2> QED  BY <1>1, <1>2, <1>3 DEF Way
<1>5. \/ snd.at = "handshake" /\ In({"handshake", "done", IF snd.ymodem THEN "info" ELSE "data"})
      \/ snd.at = "info" /\ (In({"info", "done"}) \/ (Acked /\ In({"info_request"})))
      \/ snd.at = "info_request" /\ (In({"info", "done"}) \/ To("data", snd.file, 1))
      \/ /\ snd.at = "data"
         /\ \/ In({"data", "done"})
            \/ Acked /\ snd.chunk < Chunks /\ To("data", snd.file, snd.chunk + 1)
            \/ Acked /\ ~(snd.chunk < Chunks) /\ In({IF snd.ymodem THEN "eot1" ELSE "eot"})
      \/ snd.at = "eot" /\ In({"eot", "done"})
      \/ snd.at = "eot1" /\ (In({"eot1", "eot2", "end_request", "done"}) \/ Out)
      \/ snd.at = "eot2" /\ In({"eot2", "end_request", "done"})
      \/ snd.at = "end_request" /\ (In({"end_request", "done"}) \/ Out)
      \/ snd.at = "end" /\ In({"end", "done"})
  <2> HIDE DEF To, In, Out
  <2> QED  BY <1>1, <1>2, <1>3 DEF Way
<1>6. snd.at # "done" /\ (snd'.at = "handshake" => snd.at = "handshake")  BY <1>5
<1>7. SndInv'  BY <1>4, <1>5 DEF SndInv
<1>8. ASSUME snd.at # "handshake", snd'.at # "done"
      PROVE  Before(snd.file, SndK, snd'.file, SndK')
  <2>1. SndK = NumberOf(snd.at, snd.chunk)  BY DEF SndK
  <2>2. SndK' = NumberOf(snd'.at, snd'.chunk)  BY <1>4, ChunksFixed DEF SndK, NumberOf
  <2>3. Before(snd.file, NumberOf(snd.at, snd.chunk), snd'.file, NumberOf(snd'.at, snd'.chunk))
    BY <1>0, <1>5, <1>8 DEF Before, NumberOf
  <2> QED  BY <2>1, <2>2, <2>3
<1>9. snd'.file = snd.file \/ (snd'.file = snd.file + 1 /\ snd'.at = "info")  BY <1>5
<1>10. snd.at \in {"info", "info_request"} =>
         snd'.file = snd.file /\ snd'.at \in {"info", "info_request", "data", "done"}
  BY <1>5
<1>11. ~Acked /\ snd.at \in {"handshake", "info", "data"} =>
         /\ snd'.at \in {"handshake", "info", "data", "done"}
         /\ snd'.file = snd.file /\ snd'.chunk = snd.chunk
         /\ snd'.at = "data" => snd.at = "data" \/ ~snd.ymodem
  BY <1>5
<1>12. ASSUME snd.at # "handshake", snd'.at # "done"
       PROVE  Adjacent(snd.file, SndK, snd'.file, SndK')
  <2>1. SndK = NumberOf(snd.at, snd.chunk)  BY DEF SndK
  <2>2. SndK' = NumberOf(snd'.at, snd'.chunk)  BY <1>4, ChunksFixed DEF SndK, NumberOf
  <2>3. Adjacent(snd.file, NumberOf(snd.at, snd.chunk), snd'.file, NumberOf(snd'.at, snd'.chunk))
    BY <1>0, <1>5, <1>12 DEF Adjacent, NumberOf
  <2> QED  BY <2>1, <2>2, <2>3
<1>13. ASSUME snd'.at \in {"info_request", "end_request"}
       PROVE  snd'.file = snd.file /\ SndK' = SndK
  <2>1. SndK = NumberOf(snd.at, snd.chunk)  BY DEF SndK
  <2>2. SndK' = NumberOf(snd'.at, snd'.chunk)  BY <1>4, ChunksFixed DEF SndK, NumberOf
  <2>3. NumberOf(snd'.at, snd'.chunk) = NumberOf(snd.at, snd.chunk) /\ snd'.file = snd.file
    BY <1>0, <1>5, <1>13 DEF NumberOf
  <2> QED  BY <2>1, <2>2, <2>3
<1> QED  BY <1>4, <1>6, <1>7, <1>8, <1>9, <1>10, <1>11, <1>12, <1>13

\* The sender adds to the line what belongs to the position that it goes to.
LEMMA SenderAdds ==
  ASSUME Form, SndForm', SndInv, Way
  PROVE  \E x \in Seq(Atoms) :
           /\ toR' = toR \o x /\ Shapes(x)
           /\ \A j \in DOMAIN x : Labelled(x[j]) =>
                x[j].f = snd'.file /\ x[j].k = SndK' /\ snd'.at \notin {"handshake", "done"}
<1>1. Goes(snd'.at, snd'.file, snd'.chunk) /\ snd'.ymodem = snd.ymodem /\ SndInv'
  BY WayFacts
<1>2. Chunks' = Chunks /\ SndK' = NumberOf(snd'.at, snd'.chunk)
  BY <1>1, ChunksFixed DEF SndK, NumberOf
<1>3. /\ snd'.file \in 1 .. Files /\ snd'.chunk \in Nat \ {0} /\ snd'.chunk \in 1 .. Chunks
      /\ snd'.crc \in 1 .. 2
  <2>1. snd' \in Senders /\ snd'.chunk <= Chunks  BY <1>2 DEF SndForm
  <2>2. Chunks \in Nat  BY ChunksPositive DEF Form
  <2> QED  BY <2>1, <2>2 DEF Senders
<1>4. CASE toR' = toR
  <2>1. <<>> \in Seq(Atoms) /\ toR' = toR \o <<>> /\ DOMAIN <<>> = {}
    BY <1>4, ConcatEmptySeq DEF Form, LineForm
  <2> QED  BY <2>1 DEF Shapes
<1>5. CASE snd'.at = "done" /\ toR' = toR \o <<CAN>>
  <2>1. <<CAN>> \in Seq(Atoms) /\ \A j \in DOMAIN <<CAN>> : <<CAN>>[j] = CAN  BY DEF Atoms
  <2>2. Shape(CAN) /\ ~Labelled(CAN)  BY DEF Shape, Labelled, CAN
  <2> HIDE DEF CAN
  <2> QED  BY <1>5, <2>1, <2>2 DEF Shapes
<1>6. CASE toR' = toR \o Transmission(snd'.at, snd'.file, snd'.chunk, snd'.crc)
  <2> DEFINE x == Transmission(snd'.at, snd'.file, snd'.chunk, snd'.crc)
  <2>1. x \in Seq(Atoms)  BY <1>3, TransmissionForm DEF Form
  <2>2. /\ snd'.at \in {"info", "info_request", "end"} => snd.ymodem
        /\ ~snd.ymodem => snd'.file = 1
    BY <1>1 DEF SndInv
  <2>3. \A j \in DOMAIN x :
          /\ Shape(x[j])
          /\ Labelled(x[j]) => /\ x[j].f = snd'.file /\ x[j].k = NumberOf(snd'.at, snd'.chunk)
                               /\ snd'.at \notin {"handshake", "done"}
    <3> DEFINE at == snd'.at  f == snd'.file  k == snd'.chunk  crc == snd'.crc
    <3>1. /\ f \in 1 .. Files /\ k \in 1 .. Chunks /\ crc \in 1 .. 2
          /\ at \in {"info", "info_request", "end"} => snd.ymodem
          /\ ~snd.ymodem => f = 1
      BY <1>3, <2>2
    <3>2. SndForm  BY DEF Form
    <3>3. x = Transmission(at, f, k, crc)  OBVIOUS
    <3> HIDE DEF x, at, f, k, crc
    <3>4. \A j \in DOMAIN x :
            /\ Shape(x[j])
            /\ Labelled(x[j]) =>
                 x[j].f = f /\ x[j].k = NumberOf(at, k) /\ at \notin {"handshake", "done"}
      <4> SUFFICES ASSUME NEW j \in DOMAIN x
                   PROVE  /\ Shape(x[j])
                          /\ Labelled(x[j]) =>
                               /\ x[j].f = f /\ x[j].k = NumberOf(at, k)
                               /\ at \notin {"handshake", "done"}
        OBVIOUS
      <4>1. j \in DOMAIN Transmission(at, f, k, crc)  BY <3>3
      <4>2. /\ Shape(Transmission(at, f, k, crc)[j])
            /\ Labelled(Transmission(at, f, k, crc)[j]) =>
              /\ Transmission(at, f, k, crc)[j].f = f
              /\ Transmission(at, f, k, crc)[j].k = NumberOf(at, k)
              /\ at \notin {"handshake", "done"}
         BY <3>1, <3>2, <4>1, TransmissionShape, ZenonT(60)
      <4> QED  BY <4>2, <3>3
    <3> QED  BY <3>4 DEF at, f, k
  <2> HIDE DEF x
  <2>4. toR' = toR \o x /\ Shapes(x)  BY <1>6, <2>3 DEF x, Shapes
  <2>5. \A j \in DOMAIN x : Labelled(x[j]) =>
          x[j].f = snd'.file /\ x[j].k = SndK' /\ snd'.at \notin {"handshake", "done"}
    BY <2>3, <1>2
  <2> QED  BY <2>1, <2>4, <2>5
<1> QED  BY <1>1, <1>4, <1>5, <1>6 DEF Goes

\* Numbers of positions.
LEMMA SndNumber == ASSUME Form PROVE SndK \in Nat /\ snd.file \in 1 .. Files
<1>1. Chunks \in Nat /\ snd.chunk \in Nat /\ snd.file \in 1 .. Files
  BY ChunksPositive DEF Form, SndForm, Senders
<1> QED  BY <1>1 DEF SndK, NumberOf

LEMMA BeforeTrans ==
  ASSUME NEW f \in Int, NEW k \in Int, NEW g \in Int, NEW l \in Int, NEW h \in Int, NEW m \in Int,
         Before(f, k, g, l), Before(g, l, h, m)
  PROVE  Before(f, k, h, m)
  BY DEF Before

LEMMA SenderLine == ASSUME Form, Form', LineInv, sender_run PROVE LineInv'
<1>1. Way /\ SndInv  BY SenderWay DEF LineInv
<1>2. SndForm' /\ SndForm /\ toR \in Seq(Atoms)  BY DEF Form, LineForm
<1>3. PICK x \in Seq(Atoms) :
           /\ toR' = toR \o x /\ Shapes(x)
           /\ \A j \in DOMAIN x : Labelled(x[j]) =>
                x[j].f = snd'.file /\ x[j].k = SndK' /\ snd'.at \notin {"handshake", "done"}
  BY <1>1, <1>2, SenderAdds
<1>4. /\ snd'.ymodem = snd.ymodem /\ SndInv' /\ snd.at # "done"
      /\ snd'.at = "handshake" => snd.at = "handshake"
      /\ snd.at # "handshake" /\ snd'.at # "done" => Before(snd.file, SndK, snd'.file, SndK')
  BY <1>1, WayFacts
<1>5. SndK \in Nat /\ snd.file \in 1 .. Files  BY SndNumber
<1>6. SndK' \in Nat /\ snd'.file \in 1 .. Files
  <2>1. Chunks' = Chunks /\ Chunks \in Nat  BY <1>4, <1>2, ChunksFixed, ChunksPositive
  <2>2. snd'.chunk \in Nat /\ snd'.file \in 1 .. Files  BY <1>2 DEF SndForm, Senders
  <2>3. SndK' = NumberOf(snd'.at, snd'.chunk)  BY <2>1 DEF SndK, NumberOf
  <2>4. NumberOf(snd'.at, snd'.chunk) \in Nat  BY <2>1, <2>2 DEF NumberOf
  <2> QED  BY <2>2, <2>3, <2>4
<1>7. Shapes(toR) /\ Ordered(toR)  BY DEF LineInv
<1>8. ASSUME NEW i \in DOMAIN toR, Labelled(toR[i])
      PROVE  /\ snd'.at # "handshake"
             /\ snd'.at # "done" => Before(toR[i].f, toR[i].k, snd'.file, SndK')
  <2>1. snd.at # "handshake" /\ Before(toR[i].f, toR[i].k, snd.file, SndK)
    BY <1>4, <1>8 DEF LineInv, Sent
  <2>2. toR[i].f \in 1 .. Files /\ toR[i].k \in Nat  BY <1>2, <1>8, Labels
  <2>3. ASSUME snd'.at # "done" PROVE Before(toR[i].f, toR[i].k, snd'.file, SndK')
    <3>1. Before(snd.file, SndK, snd'.file, SndK')  BY <2>1, <2>3, <1>4
    <3>2. /\ toR[i].f \in Int /\ toR[i].k \in Int /\ snd.file \in Int /\ SndK \in Int
          /\ snd'.file \in Int /\ SndK' \in Int
      BY <2>2, <1>5, <1>6
    <3> QED  BY <2>1, <3>1, <3>2, BeforeTrans
  <2> QED  BY <2>1, <2>3, <1>4
<1>9. CASE \A j \in DOMAIN x : ~Labelled(x[j])
  <2>1. \A i \in DOMAIN toR' : \/ i \in DOMAIN toR /\ toR'[i] = toR[i]
                               \/ ~Labelled(toR'[i]) /\ Shape(toR'[i])
    <3> SUFFICES ASSUME NEW i \in DOMAIN (toR \o x)
                 PROVE \/ i \in DOMAIN toR /\ (toR \o x)[i] = toR[i]
                       \/ ~Labelled((toR \o x)[i]) /\ Shape((toR \o x)[i])
      BY <1>3
    <3>1. \/ i \in DOMAIN toR /\ (toR \o x)[i] = toR[i]
          \/ \E j \in DOMAIN x : (toR \o x)[i] = x[j]
      BY <1>2, Grown
    <3> QED  BY <3>1, <1>3, <1>9 DEF Shapes
  <2>2. Shapes(toR')  BY <2>1, <1>7 DEF Shapes
  <2>3. Ordered(toR')  BY <2>1, <1>7 DEF Ordered
  <2>4. \A i \in DOMAIN toR' : Labelled(toR'[i]) =>
           /\ snd'.at # "handshake"
           /\ snd'.at # "done" => Before(toR'[i].f, toR'[i].k, snd'.file, SndK')
    BY <2>1, <1>8
  <2> QED  BY <2>2, <2>3, <2>4, <1>4, LineAfter
<1>10. CASE ~\A j \in DOMAIN x : ~Labelled(x[j])
  <2>1. snd'.at \notin {"handshake", "done"}  BY <1>3, <1>10
  <2>2. \A i \in DOMAIN toR : Labelled(toR[i]) => Before(toR[i].f, toR[i].k, snd'.file, SndK')
    BY <2>1, <1>8
  <2>3. Shapes(toR') /\ Ordered(toR')
    <3> DEFINE f == snd'.file  k == SndK'
    <3>1. f \in 1 .. Files /\ k \in Nat  BY <1>6
    <3>2. \A j \in DOMAIN x : Labelled(x[j]) => x[j].f = f /\ x[j].k = k  BY <1>3
    <3>3. \A i \in DOMAIN toR : Labelled(toR[i]) => Before(toR[i].f, toR[i].k, f, k)  BY <2>2
    <3> HIDE DEF f, k
    <3>4. Shapes(toR \o x) /\ Ordered(toR \o x)
      BY <3>1, <3>2, <3>3, <1>2, <1>3, <1>7, SentInOrder
    <3> QED  BY <3>4, <1>3
  <2>4. ASSUME NEW i \in DOMAIN toR', Labelled(toR'[i])
        PROVE  Before(toR'[i].f, toR'[i].k, snd'.file, SndK')
    <3>1. \/ i \in DOMAIN toR /\ (toR \o x)[i] = toR[i]
          \/ \E j \in DOMAIN x : (toR \o x)[i] = x[j]
      <4>1. i \in DOMAIN (toR \o x)  BY <1>3, <2>4
      <4> QED  BY <1>2, <4>1, Grown
    <3>2. CASE i \in DOMAIN toR /\ toR'[i] = toR[i]  BY <3>2, <2>2, <2>4
    <3>3. CASE \E j \in DOMAIN x : toR'[i] = x[j]
      <4>1. toR'[i].f = snd'.file /\ toR'[i].k = SndK'  BY <3>3, <1>3, <2>4
      <4> QED  BY <4>1, <1>6 DEF Before
    <3> QED  BY <3>1, <3>2, <3>3, <1>3
  <2> QED  BY <2>1, <2>3, <2>4, <1>4, LineAfter
<1> QED  BY <1>9, <1>10
-----------------------------------------------------------------------------
(* Both ends together.  As long as no save fails and the ends are not apart, *)
(* the receiver holds the first e blocks of its file, and everything that   *)
(* the sender is at or has sent belongs behind block e of this file, or to  *)
(* what follows the file that the receiver has seen the end of.             *)

\* Number k of file f is not behind the receiver, and not too far ahead of it.
Within(file, ending, e, f, k) ==
  /\ Before(file, e, f, k)
  /\ ending => Before(file, Chunks + 1, f, k)
  /\ \/ f = file /\ (k = Chunks + 2 => ending)
     \/ f = file + 1 /\ k = 0 /\ ending

Ahead(line, file, ending, e) ==
  \A i \in DOMAIN line : Labelled(line[i]) =>
    /\ Within(file, ending, e, line[i].f, line[i].k)
    /\ line[i].k <= Chunks => line[i].k <= e + SeqCount

Holds(r, line, s, at, f, k, e) ==
  /\ r.open /\ r.ymodem = snd.ymodem /\ r.file \in 1 .. Files
  /\ r.state \in {"FILEXFER", "ENDOFXFER", "ENDING"}
  /\ s = Taken(r.file, e) /\ r.expected = (e + 1) % SeqCount
  /\ at # "handshake" /\ (at # "done" => Within(r.file, r.state = "ENDING", e, f, k))
  /\ Ahead(line, r.file, r.state = "ENDING", e)

Opening == rcv.at \in {"request", "wait", "first"}
First   == IF snd.ymodem THEN 0 ELSE 1

\* Before the file is open the sender has only sent its first frame.
PreInv == Opening =>
  /\ ~rcv.open /\ ~rcv.ymodem /\ saved = <<>> /\ \A i \in DOMAIN toS : toS[i] # "ACK"
  /\ snd.at \in {"handshake", "info", "data", "done"} /\ snd.file = 1 /\ snd.chunk = 1
  /\ snd.at = "data" => ~snd.ymodem
  /\ \A i \in DOMAIN toR : Labelled(toR[i]) => toR[i].f = 1 /\ toR[i].k = First

FrameInv == rcv.at = "frames" =>
  \E e \in 0 .. Chunks : Holds(rcv, toR, saved, snd.at, snd.file, SndK, e)

DoneInv == rcv.at = "done" /\ rcv.open => IsPrefix(saved, Content(rcv.file))

Good    == faults.save = 0 /\ ~apart
SaveInv == Form /\ LineInv /\ (Good => PreInv /\ FrameInv /\ DoneInv)

\* The same after a step that leaves the protocol as it is.
LEMMA HoldsAfter ==
  ASSUME snd'.ymodem = snd.ymodem, NEW e \in 0 .. Chunks,
         Holds(rcv', toR', saved', snd'.at, snd'.file, SndK', e)
  PROVE  FrameInv'
<1>1. Chunks' = Chunks  BY ChunksFixed
<1>2. (Holds(rcv, toR, saved, snd.at, snd.file, SndK, e))'
  BY DEF Holds, Ahead, Within, Before, Labelled, Taken, Cut, Length, BlockSize, Chunks, Unit, Pad
<1> QED  BY <1>1, <1>2 DEF FrameInv

\* What the receiver holds is a beginning of its file.
LEMMA HoldsPrefix ==
  ASSUME SndForm, snd'.ymodem = snd.ymodem, NEW e \in 0 .. Chunks,
         saved' = Taken(rcv'.file, e)
  PROVE  DoneInv'
<1>0. e \in Nat  BY ChunksPositive
<1>1. IsPrefix(Taken(rcv'.file, e), Content(rcv'.file))  BY <1>0, TakenContent
<1>2. Content(rcv'.file) = Content(rcv.file)'  BY DEF Content, File, Chunks, Unit, Pad
<1> QED  BY <1>1, <1>2 DEF DoneInv

\* What is left of a line is ahead when the line was.
LEMMA ThinnedAhead ==
  ASSUME NEW new, NEW line, Thinned(new, line), NEW file, NEW ending, NEW e,
         Ahead(line, file, ending, e)
  PROVE  Ahead(new, file, ending, e)
<1> SUFFICES ASSUME NEW i \in DOMAIN new, Labelled(new[i])
             PROVE  /\ Within(file, ending, e, new[i].f, new[i].k)
                    /\ new[i].k <= Chunks => new[i].k <= e + SeqCount
  BY DEF Ahead
<1>1. PICK j \in DOMAIN line : SameAtom(new[i], line[j]) /\ Labelled(line[j])  BY ThinnedMember
<1>2. new[i].f = line[j].f /\ new[i].k = line[j].k  BY <1>1 DEF SameAtom
<1> QED  BY <1>1, <1>2 DEF Ahead

\* The window: a block that the sender is at is less than all numbers beyond the receiver.
LEMMA Window ==
  ASSUME SndForm, NEW e \in Nat, NEW k \in Nat, NEW f,
         k * BlockSize <= Len(Taken(f, e)) + SeqCount * BlockSize
  PROVE  k <= e + SeqCount
<1>1. BlockSize \in Nat /\ BlockSize >= 1 /\ Cut(e) <= e * BlockSize /\ Cut(e) \in Nat
      /\ Len(Taken(f, e)) = Cut(e)
  BY ChunksPositive, TakenContent
<1>2. (e + SeqCount) * BlockSize = e * BlockSize + SeqCount * BlockSize  BY <1>1, Sizes
<1> DEFINE a == e * BlockSize  b == SeqCount * BlockSize  d == k * BlockSize
<1>3. a \in Nat /\ b \in Nat /\ d \in Nat  BY <1>1, Sizes
<1>4. d <= Cut(e) + b /\ Cut(e) <= a  BY <1>1
<1>5. (e + SeqCount) * BlockSize = a + b  BY <1>2
<1> HIDE DEF a, b, d
<1>6. d <= a + b  BY <1>1, <1>3, <1>4
<1>7. k * BlockSize <= (e + SeqCount) * BlockSize  BY <1>5, <1>6 DEF d
<1>8. k \in Int /\ e + SeqCount \in Int  BY Sizes
<1> QED  BY <1>1, <1>7, <1>8, Cancel

\* The sender's step, under the invariants of both ends.
LEMMA SenderPre == ASSUME Form, Form', LineInv, sender_run, PreInv PROVE PreInv'
<1> SUFFICES ASSUME Opening' PROVE PreInv'  BY DEF PreInv
<1>0. Opening /\ rcv' = rcv /\ saved' = saved  BY DEF sender_run, Opening
<1>1. Way /\ SndInv /\ SndForm'  BY SenderWay DEF LineInv, Form
<1>2. /\ ~rcv.open /\ ~rcv.ymodem /\ saved = <<>> /\ \A i \in DOMAIN toS : toS[i] # "ACK"
      /\ snd.at \in {"handshake", "info", "data", "done"} /\ snd.file = 1 /\ snd.chunk = 1
      /\ snd.at = "data" => ~snd.ymodem
      /\ \A i \in DOMAIN toR : Labelled(toR[i]) => toR[i].f = 1 /\ toR[i].k = First
  BY <1>0 DEF PreInv
<1>3. ~Acked
  <2>1. toS # <<>> => 1 \in DOMAIN toS /\ Head(toS) = toS[1]
    BY HeadTailProperties, EmptySeq, LenProperties DEF Form, LineForm
  <2> QED  BY <1>2, <2>1 DEF Acked
<1>4. /\ snd'.ymodem = snd.ymodem /\ SndInv' /\ snd.at # "done"
      /\ snd'.at \in {"handshake", "info", "data", "done"}
      /\ snd'.file = 1 /\ snd'.chunk = 1 /\ (snd'.at = "data" => ~snd.ymodem)
  <2>1. snd'.ymodem = snd.ymodem /\ SndInv' /\ snd.at # "done"  BY <1>1, WayFacts
  <2>2. /\ snd'.at \in {"handshake", "info", "data", "done"}
        /\ snd'.file = snd.file /\ snd'.chunk = snd.chunk
        /\ snd'.at = "data" => snd.at = "data" \/ ~snd.ymodem
    <3>1. snd.at \in {"handshake", "info", "data"}  BY <2>1, <1>2
    <3> QED  BY <3>1, <1>1, <1>3, WayFacts
  <2> QED  BY <2>1, <2>2, <1>2
<1>5. \A i \in DOMAIN toS' : toS'[i] # "ACK"
  <2>1. toS' = toS \/ toS' = <<>> \/ (toS # <<>> /\ toS' = Tail(toS))
    BY DEF sender_run, sender_handshake, sender_send_file_frame, sender_send_frame,
           sender_send_eot, Wait, NoneOf
  <2>2. CASE toS' = toS  BY <2>2, <1>2
  <2>3. CASE toS' = <<>>  BY <2>3
  <2>4. CASE toS # <<>> /\ toS' = Tail(toS)
    <3>1. /\ Tail(toS) \in Seq(Answers) /\ Len(Tail(toS)) = Len(toS) - 1
          /\ \A i \in 1 .. Len(toS) - 1 : Tail(toS)[i] = toS[i + 1]
      BY <2>4, HeadTailProperties DEF Form, LineForm
    <3>2. DOMAIN toS = 1 .. Len(toS) /\ Len(toS) \in Nat  BY LenProperties DEF Form, LineForm
    <3>3. DOMAIN Tail(toS) = 1 .. Len(toS) - 1  BY <3>1, LenProperties
    <3>4. ASSUME NEW i \in 1 .. Len(toS) - 1 PROVE Tail(toS)[i] # "ACK"
      <4>1. i + 1 \in DOMAIN toS /\ Tail(toS)[i] = toS[i + 1]  BY <3>1, <3>2
      <4> QED  BY <4>1, <1>2
    <3> QED  BY <2>4, <3>3, <3>4
  <2> QED  BY <2>1, <2>2, <2>3, <2>4
<1>6. ASSUME NEW i \in DOMAIN toR', Labelled(toR'[i])
      PROVE  toR'[i].f = 1 /\ toR'[i].k = First
  <2>1. PICK x \in Seq(Atoms) :
           /\ toR' = toR \o x
           /\ \A j \in DOMAIN x : Labelled(x[j]) =>
                x[j].f = snd'.file /\ x[j].k = SndK' /\ snd'.at \notin {"handshake", "done"}
    BY <1>1, SenderAdds
  <2>2. \/ i \in DOMAIN toR /\ (toR \o x)[i] = toR[i]
        \/ \E j \in DOMAIN x : (toR \o x)[i] = x[j]
    <3>1. i \in DOMAIN (toR \o x)  BY <2>1, <1>6
    <3> QED  BY <3>1, Grown DEF Form, LineForm
  <2>3. CASE i \in DOMAIN toR /\ toR'[i] = toR[i]  BY <2>3, <1>2, <1>6
  <2>4. CASE \E j \in DOMAIN x : toR'[i] = x[j]
    <3>1. toR'[i].f = 1 /\ toR'[i].k = SndK' /\ snd'.at \in {"info", "data"}
      BY <2>1, <2>4, <1>4, <1>6
    <3>2. SndK' = NumberOf(snd'.at, snd'.chunk)  BY <1>4, ChunksFixed DEF SndK, NumberOf
    <3>3. snd'.at = "info" => snd.ymodem  BY <1>4 DEF SndInv
    <3>4. NumberOf(snd'.at, snd'.chunk) = First  BY <3>1, <3>3, <1>4 DEF NumberOf, First
    <3> QED  BY <3>1, <3>2, <3>4
  <2> QED  BY <2>1, <2>2, <2>3, <2>4
<1>7. First' = First  BY <1>4 DEF First
<1> QED  BY <1>0, <1>2, <1>4, <1>5, <1>6, <1>7 DEF PreInv, Labelled

\* Where the sender goes is still within the receiver's reach.
LEMMA SenderWithin ==
  ASSUME Form, Form', LineInv, sender_run, ~RunsAhead, NEW e \in 0 .. Chunks,
         Holds(rcv, toR, saved, snd.at, snd.file, SndK, e), snd'.at # "done"
  PROVE  /\ Within(rcv.file, rcv.state = "ENDING", e, snd'.file, SndK')
         /\ SndK' <= Chunks => SndK' <= e + SeqCount
<1>1. Way /\ SndInv /\ SndForm'  BY SenderWay DEF LineInv, Form
<1>2. /\ rcv.open /\ rcv.ymodem = snd.ymodem /\ rcv.file \in 1 .. Files
      /\ saved = Taken(rcv.file, e) /\ snd.at # "handshake"
      /\ snd.at # "done" => Within(rcv.file, rcv.state = "ENDING", e, snd.file, SndK)
  BY DEF Holds
<1>3. /\ snd'.ymodem = snd.ymodem /\ SndInv' /\ snd.at # "done"
      /\ snd'.at = "handshake" => snd.at = "handshake"
      /\ snd.at # "handshake" /\ snd'.at # "done" => Before(snd.file, SndK, snd'.file, SndK')
      /\ snd'.file = snd.file \/ (snd'.file = snd.file + 1 /\ snd'.at = "info")
      /\ snd.at \in {"info", "info_request"} =>
           snd'.file = snd.file /\ snd'.at \in {"info", "info_request", "data", "done"}
  BY <1>1, WayFacts
<1>4. Within(rcv.file, rcv.state = "ENDING", e, snd.file, SndK)  BY <1>2, <1>3
<1>5. /\ Chunks' = Chunks /\ Chunks \in Nat /\ Chunks >= 1 /\ SndForm
      /\ SndK' = NumberOf(snd'.at, snd'.chunk)
  BY <1>3, ChunksFixed, ChunksPositive DEF SndK, NumberOf, Form
<1>6. /\ snd'.chunk \in Nat /\ snd'.chunk >= 1 /\ snd'.chunk <= Chunks
      /\ snd'.file \in 1 .. Files /\ snd.chunk \in Nat /\ snd.chunk >= 1 /\ snd.chunk <= Chunks
      /\ snd.file \in 1 .. Files
  BY <1>1, <1>5 DEF SndForm, Senders
<1>7. SndK \in Nat /\ SndK' \in Nat
  <2>1. NumberOf(snd'.at, snd'.chunk) \in Nat /\ NumberOf(snd.at, snd.chunk) \in Nat
    BY <1>5, <1>6 DEF NumberOf
  <2> QED  BY <2>1, <1>5 DEF SndK
<1>8. Before(snd.file, SndK, snd'.file, SndK')  BY <1>2, <1>3
<1>9. Before(rcv.file, e, snd'.file, SndK')
  <2>1. Before(rcv.file, e, snd.file, SndK)  BY <1>4 DEF Within
  <2>2. /\ rcv.file \in Int /\ e \in Int /\ snd.file \in Int /\ SndK \in Int /\ snd'.file \in Int
        /\ SndK' \in Int
    BY <1>2, <1>6, <1>7
  <2> QED  BY <2>1, <2>2, <1>8, BeforeTrans
<1>10. ASSUME rcv.state = "ENDING" PROVE Before(rcv.file, Chunks + 1, snd'.file, SndK')
  <2>1. Before(rcv.file, Chunks + 1, snd.file, SndK)  BY <1>4, <1>10 DEF Within
  <2>2. /\ rcv.file \in Int /\ Chunks + 1 \in Int /\ snd.file \in Int /\ SndK \in Int
        /\ snd'.file \in Int /\ SndK' \in Int
    BY <1>2, <1>5, <1>6, <1>7
  <2> QED  BY <2>1, <2>2, <1>8, BeforeTrans
<1>11. /\ snd'.at = "data" /\ snd.ymodem => rcv.file = snd'.file
       /\ snd'.at = "end" \/ snd'.file # snd.file => rcv.state = "ENDING"
       /\ snd'.at = "data" => ~(snd'.chunk * BlockSize > Len(saved) + SeqCount * BlockSize)
  BY DEF RunsAhead
<1>12. /\ SndK' = Chunks + 2 => snd'.at = "end"
       /\ snd'.at \in {"info", "info_request"} => SndK' = 0
       /\ snd'.at = "data" => SndK' = snd'.chunk
       /\ snd'.at \notin {"info", "info_request", "data"} => SndK' > Chunks
       /\ SndK = 0 => snd.at \in {"info", "info_request"}
  <2>1. /\ NumberOf(snd'.at, snd'.chunk) = Chunks + 2 => snd'.at = "end"
        /\ snd'.at \in {"info", "info_request"} => NumberOf(snd'.at, snd'.chunk) = 0
        /\ snd'.at = "data" => NumberOf(snd'.at, snd'.chunk) = snd'.chunk
        /\ snd'.at \notin {"info", "info_request", "data"} => NumberOf(snd'.at, snd'.chunk) > Chunks
        /\ NumberOf(snd.at, snd.chunk) = 0 => snd.at \in {"info", "info_request"}
    BY <1>5, <1>6 DEF NumberOf
  <2> QED  BY <2>1, <1>5 DEF SndK
<1>13. \/ snd'.file = rcv.file /\ (SndK' = Chunks + 2 => rcv.state = "ENDING")
       \/ snd'.file = rcv.file + 1 /\ SndK' = 0 /\ rcv.state = "ENDING"
  <2>1. CASE snd.file = rcv.file
    <3>1. CASE snd'.file = snd.file  BY <2>1, <3>1, <1>11, <1>12
    <3>2. CASE snd'.file = snd.file + 1 /\ snd'.at = "info"
      <4>1. snd'.file # snd.file  BY <3>2, <1>6
      <4> QED  BY <2>1, <3>2, <4>1, <1>11, <1>12
    <3> QED  BY <3>1, <3>2, <1>3
  <2>2. CASE snd.file = rcv.file + 1 /\ SndK = 0 /\ rcv.state = "ENDING"
    <3>1. snd.at \in {"info", "info_request"}  BY <2>2, <1>12
    <3>2. snd.ymodem  BY <3>1, <1>1 DEF SndInv, Form, SndForm, Senders
    <3>3. snd'.file = snd.file /\ snd'.at \in {"info", "info_request", "data"}  BY <3>1, <1>3
    <3>4. snd'.at # "data"
      <4>1. rcv.file # snd'.file  BY <2>2, <3>3, <1>2
      <4> QED  BY <3>2, <4>1, <1>11
    <3> QED  BY <2>2, <3>3, <3>4, <1>12
  <2> QED  BY <2>1, <2>2, <1>4 DEF Within
<1>14. ASSUME SndK' <= Chunks PROVE SndK' <= e + SeqCount
  <2>1. snd'.at \in {"info", "info_request", "data"}
    <3> SUFFICES ASSUME snd'.at \notin {"info", "info_request", "data"} PROVE FALSE  OBVIOUS
    <3>1. SndK' > Chunks  BY <1>12
    <3> QED  BY <3>1, <1>14, <1>5, <1>7
  <2>2. CASE snd'.at = "data"
    <3>1. e \in Nat /\ snd'.chunk \in Nat  BY <1>5, <1>6
    <3>2. snd'.chunk * BlockSize <= Len(Taken(rcv.file, e)) + SeqCount * BlockSize
      <4>1. /\ BlockSize \in Nat /\ Len(Taken(rcv.file, e)) = Cut(e) /\ Cut(e) \in Nat
        BY <1>5, <3>1, ChunksPositive, TakenContent
      <4> DEFINE a == snd'.chunk * BlockSize  b == SeqCount * BlockSize
      <4>2. a \in Nat /\ b \in Nat  BY <4>1, <3>1, Sizes
      <4>3. ~(a > Cut(e) + b)  BY <2>2, <1>2, <1>11, <4>1
      <4> HIDE DEF a, b
      <4>4. a <= Cut(e) + b  BY <4>1, <4>2, <4>3
      <4> QED  BY <4>1, <4>4 DEF a, b
    <3>3. snd'.chunk <= e + SeqCount  BY <3>1, <3>2, <1>5, Window
    <3> QED  BY <3>3, <2>2, <1>12
  <2>3. CASE snd'.at \in {"info", "info_request"}
    <3>1. SndK' = 0  BY <2>3, <1>12
    <3> QED  BY <3>1, <1>5, Sizes
  <2> QED  BY <2>1, <2>2, <2>3
<1> QED  BY <1>9, <1>10, <1>13, <1>14 DEF Within

LEMMA SenderSave ==
  ASSUME Form, Form', LineInv, sender_run, PreInv, FrameInv, DoneInv, ~apart'
  PROVE  PreInv' /\ FrameInv' /\ DoneInv'
<1>0. Way /\ SndInv /\ SndForm' /\ ~RunsAhead /\ rcv' = rcv /\ saved' = saved
  BY SenderWay DEF LineInv, Form, sender_run
<1>1. PreInv'  BY SenderPre
<1>2. snd'.ymodem = snd.ymodem /\ (snd'.at = "handshake" => snd.at = "handshake")
  BY <1>0, WayFacts
<1>3. DoneInv'
  <2>1. Content(rcv.file)' = Content(rcv.file)  BY <1>0, <1>2 DEF Content, File, Chunks, Unit, Pad
  <2> QED  BY <1>0, <2>1 DEF DoneInv
<1>4. FrameInv'
  <2> SUFFICES ASSUME rcv'.at = "frames" PROVE FrameInv'  BY DEF FrameInv
  <2>1. PICK e \in 0 .. Chunks : Holds(rcv, toR, saved, snd.at, snd.file, SndK, e)
    BY <1>0 DEF FrameInv
  <2>2. snd'.at # "done" => /\ Within(rcv.file, rcv.state = "ENDING", e, snd'.file, SndK')
                            /\ SndK' <= Chunks => SndK' <= e + SeqCount
    BY <1>0, <2>1, SenderWithin
  <2>3. PICK x \in Seq(Atoms) :
           /\ toR' = toR \o x
           /\ \A j \in DOMAIN x : Labelled(x[j]) =>
                x[j].f = snd'.file /\ x[j].k = SndK' /\ snd'.at \notin {"handshake", "done"}
    BY <1>0, SenderAdds
  <2>4. Ahead(toR', rcv.file, rcv.state = "ENDING", e)
    <3> SUFFICES ASSUME NEW i \in DOMAIN toR', Labelled(toR'[i])
                 PROVE  /\ Within(rcv.file, rcv.state = "ENDING", e, toR'[i].f, toR'[i].k)
                        /\ toR'[i].k <= Chunks => toR'[i].k <= e + SeqCount
      BY DEF Ahead
    <3>1. \/ i \in DOMAIN toR /\ (toR \o x)[i] = toR[i]
          \/ \E j \in DOMAIN x : (toR \o x)[i] = x[j]
      <4>1. i \in DOMAIN (toR \o x)  BY <2>3
      <4> QED  BY <4>1, Grown DEF Form, LineForm
    <3>2. CASE i \in DOMAIN toR /\ toR'[i] = toR[i]  BY <2>1, <3>2 DEF Holds, Ahead
    <3>3. CASE \E j \in DOMAIN x : toR'[i] = x[j]
      <4>1. toR'[i].f = snd'.file /\ toR'[i].k = SndK' /\ snd'.at # "done"  BY <2>3, <3>3
      <4> QED  BY <4>1, <2>2
    <3> QED  BY <2>3, <3>1, <3>2, <3>3
  <2>5. Holds(rcv', toR', saved', snd'.at, snd'.file, SndK', e)
    BY <1>0, <1>2, <2>1, <2>2, <2>4 DEF Holds
  <2> QED  BY <1>2, <2>5, HoldsAfter
<1> QED  BY <1>1, <1>3, <1>4

-----------------------------------------------------------------------------
(* The receiver and the faults thin the line.                               *)

LEMMA ThinnedTrans ==
  ASSUME NEW r, NEW s, NEW t, Thinned(r, s), Thinned(s, t)
  PROVE  Thinned(r, t)
<1>1. PICK g \in [DOMAIN r -> DOMAIN s] :
        /\ \A n \in DOMAIN r : Labelled(r[n]) => SameAtom(r[n], s[g[n]])
        /\ \A n, m \in DOMAIN r : n < m => g[n] < g[m]
  BY DEF Thinned
<1>2. PICK h \in [DOMAIN s -> DOMAIN t] :
        /\ \A n \in DOMAIN s : Labelled(s[n]) => SameAtom(s[n], t[h[n]])
        /\ \A n, m \in DOMAIN s : n < m => h[n] < h[m]
  BY DEF Thinned
<1> DEFINE j == [n \in DOMAIN r |-> h[g[n]]]
<1>3. j \in [DOMAIN r -> DOMAIN t]  BY <1>1, <1>2
<1>4. ASSUME NEW n \in DOMAIN r, Labelled(r[n]) PROVE SameAtom(r[n], t[j[n]])
  <2>1. g[n] \in DOMAIN s /\ SameAtom(r[n], s[g[n]])  BY <1>1, <1>4
  <2>2. Labelled(s[g[n]])  BY <1>4, <2>1 DEF SameAtom, Labelled
  <2>3. SameAtom(s[g[n]], t[h[g[n]]])  BY <1>2, <2>1, <2>2
  <2>4. j[n] = h[g[n]]  OBVIOUS
  <2> QED  BY <1>4, <2>1, <2>2, <2>3, <2>4 DEF SameAtom
<1>5. \A n, m \in DOMAIN r : n < m => j[n] < j[m]  BY <1>1, <1>2
<1> HIDE DEF j
<1> QED  BY <1>3, <1>4, <1>5 DEF Thinned

\* What stays on the line behind the first byte of its first atom.
LEMMA AfterHeadThins ==
  ASSUME Form, toR # <<>>, NEW c
  PROVE  /\ AfterHead(c) \in Seq(Atoms) /\ Thinned(AfterHead(c), toR)
         /\ Head(toR).t \notin {"body", "junk"} => AfterHead(c) = Tail(toR)
<1>1. toR \in Seq(Atoms) /\ AfterHead(c) \in Seq(Atoms) /\ Tail(toR) \in Seq(Atoms)
  BY HeadForm DEF Form, LineForm
<1>2. <<>> \o Tail(toR) = Tail(toR)  BY <1>1, ConcatEmptySeq
<1>3. AfterHead(c) = Tail(toR) \/ AfterHead(c) = <<JUNK>> \o Tail(toR)
  BY <1>2 DEF AfterHead
<1>4. Thinned(Tail(toR), toR) /\ Thinned(<<JUNK>> \o Tail(toR), toR)  BY <1>1, ThinnedReads
<1>5. Head(toR).t \notin {"body", "junk"} => AfterHead(c) = Tail(toR)  BY <1>2 DEF AfterHead
<1> QED  BY <1>1, <1>3, <1>4, <1>5

LEMMA ReceiverThins == ASSUME Form, receiver_run PROVE Thinned(toR', toR)
<1>1. toR \in Seq(Atoms)  BY DEF Form, LineForm
<1>2. Thinned(<<>>, toR) /\ Thinned(toR, toR)  BY <1>1, ThinnedReads
<1>3. CASE toR' = toR  BY <1>2, <1>3
<1>4. CASE toR' = <<>>  BY <1>2, <1>4
<1>5. CASE toR # <<>> /\ toR' = Tail(toR)  BY <1>1, <1>5, ThinnedReads
<1>6. CASE toR # <<>> /\ \E c : toR' = AfterHead(c)  BY <1>6, AfterHeadThins
<1>7. CASE toR # <<>> /\ AfterHead("SOH") # <<>> /\ toR' = Tail(AfterHead("SOH"))
  <2> DEFINE line == AfterHead("SOH")
  <2>1. line \in Seq(Atoms) /\ Thinned(line, toR) /\ line # <<>> /\ toR' = Tail(line)
    BY <1>7, AfterHeadThins
  <2> HIDE DEF line
  <2>2. Thinned(Tail(line), line)  BY <2>1, ThinnedReads
  <2> QED  BY <2>1, <2>2, ThinnedTrans
<1>8. receiver_send_request => toR' = toR \/ toR' = <<>>  BY DEF receiver_send_request
<1>9. receiver_first_byte => toR' = toR \/ (toR # <<>> /\ \E c : toR' = AfterHead(c))
  BY DEF receiver_first_byte
<1>10. receiver_process_first_frame => toR' = <<>> \/ (toR # <<>> /\ toR' = Tail(toR))
  BY DEF receiver_process_first_frame, receiver_verify_frame
<1>11. receiver_timeout => toR' = toR  BY DEF receiver_timeout
<1>12. receiver_eot => toR' = <<>> \/ (toR # <<>> /\ \E c : toR' = AfterHead(c))
  BY DEF receiver_eot
<1>13. receiver_bad_head => toR' = <<>>  BY DEF receiver_bad_head
<1>14. receiver_process_frame => \/ toR' = <<>>
                                 \/ /\ toR # <<>> /\ AfterHead("SOH") # <<>>
                                    /\ toR' = Tail(AfterHead("SOH"))
  BY DEF receiver_process_frame, receiver_verify_frame
<1> QED
  BY <1>3, <1>4, <1>5, <1>6, <1>7, <1>8, <1>9, <1>10, <1>11, <1>12, <1>13, <1>14 DEF receiver_run

\* Losing one atom.
LEMMA Removed ==
  ASSUME NEW S, NEW s \in Seq(S), NEW i \in DOMAIN s
  PROVE  LET t == RemoveAt(s, i) IN
         /\ i \in 1 .. Len(s) /\ Len(s) \in Nat /\ DOMAIN s = 1 .. Len(s)
         /\ DOMAIN t = 1 .. Len(s) - 1
         /\ \A j \in 1 .. Len(s) - 1 : t[j] = IF j < i THEN s[j] ELSE s[j + 1]
<1> DEFINE n == Len(s)  p == SubSeq(s, 1, i - 1)  q == SubSeq(s, i + 1, n)  t == p \o q
<1>1. i \in 1 .. n /\ n \in Nat /\ DOMAIN s = 1 .. n  BY LenProperties
<1>2. p \in Seq(S) /\ Len(p) = i - 1 /\ \A j \in 1 .. i - 1 : p[j] = s[j]
  <2>1. /\ p \in Seq(S) /\ Len(p) = IF 1 <= i - 1 THEN (i - 1) - 1 + 1 ELSE 0
        /\ \A j \in 1 .. (i - 1) - 1 + 1 : p[j] = s[1 + j - 1]
    <3>1. \A j \in 1 .. i - 1 : s[j] \in S  BY <1>1, ElementOfSeq
    <3> QED  BY <3>1, <1>1, SubSeqProperties
  <2> HIDE DEF p
  <2>2. \A j \in 1 .. i - 1 : 1 + j - 1 = j /\ j \in 1 .. (i - 1) - 1 + 1  BY <1>1
  <2> QED  BY <1>1, <2>1, <2>2
<1>3. q \in Seq(S) /\ Len(q) = n - i /\ \A j \in 1 .. n - i : q[j] = s[i + j]
  <2>1. /\ q \in Seq(S) /\ Len(q) = IF i + 1 <= n THEN n - (i + 1) + 1 ELSE 0
        /\ \A j \in 1 .. n - (i + 1) + 1 : q[j] = s[(i + 1) + j - 1]
    <3>1. \A j \in i + 1 .. n : s[j] \in S  BY <1>1, ElementOfSeq
    <3> QED  BY <3>1, <1>1, SubSeqProperties
  <2> HIDE DEF q
  <2>2. \A j \in 1 .. n - i : (i + 1) + j - 1 = i + j /\ j \in 1 .. n - (i + 1) + 1  BY <1>1
  <2> QED  BY <1>1, <2>1, <2>2, SMTT(30)
<1>4. RemoveAt(s, i) = t  BY DEF RemoveAt
<1> HIDE DEF n, p, q
<1>5. /\ t \in Seq(S) /\ Len(t) = (i - 1) + (n - i)
      /\ \A j \in 1 .. (i - 1) + (n - i) : t[j] = IF j <= i - 1 THEN p[j] ELSE q[j - (i - 1)]
  <2>1. p \in Seq(S) /\ q \in Seq(S)  BY <1>2, <1>3
  <2>2. /\ t \in Seq(S) /\ Len(t) = Len(p) + Len(q)
        /\ \A j \in 1 .. Len(p) + Len(q) : t[j] = IF j <= Len(p) THEN p[j] ELSE q[j - Len(p)]
    BY <2>1, ConcatProperties
  <2> HIDE DEF t
  <2>3. Len(p) = i - 1 /\ Len(q) = n - i  BY <1>2, <1>3
  <2> QED  BY <2>2, <2>3
<1> HIDE DEF t
<1>6. (i - 1) + (n - i) = n - 1 /\ n - 1 \in Nat  BY <1>1
<1>7. DOMAIN t = 1 .. n - 1  BY <1>5, <1>6, LenProperties
<1>8. ASSUME NEW j \in 1 .. n - 1 PROVE t[j] = IF j < i THEN s[j] ELSE s[j + 1]
  <2>1. t[j] = IF j <= i - 1 THEN p[j] ELSE q[j - (i - 1)]  BY <1>5, <1>6
  <2>2. CASE j < i
    <3>1. j <= i - 1 /\ j \in 1 .. i - 1  BY <2>2, <1>1
    <3> QED  BY <2>1, <2>2, <3>1, <1>2
  <2>3. CASE ~(j < i)
    <3>1. ~(j <= i - 1) /\ j - (i - 1) \in 1 .. n - i /\ i + (j - (i - 1)) = j + 1  BY <2>3, <1>1
    <3> QED  BY <2>1, <2>3, <3>1, <1>3
  <2> QED  BY <2>2, <2>3
<1> QED  BY <1>1, <1>4, <1>7, <1>8 DEF n

LEMMA FaultThins ==
  ASSUME Form, LineFault
  PROVE  /\ Thinned(toR', toR)
         /\ (\A i \in DOMAIN toS : toS[i] # "ACK") => \A i \in DOMAIN toS' : toS'[i] # "ACK"
<1>0. toR \in Seq(Atoms) /\ toS \in Seq(Answers)  BY DEF Form, LineForm
<1>1. ASSUME NEW i \in DOMAIN toR PROVE Thinned(RemoveAt(toR, i), toR)
  <2> DEFINE n == Len(toR)  t == RemoveAt(toR, i)
             h == [j \in 1 .. n - 1 |-> IF j < i THEN j ELSE j + 1]
  <2>1. /\ i \in 1 .. n /\ n \in Nat /\ DOMAIN toR = 1 .. n /\ DOMAIN t = 1 .. n - 1
        /\ \A j \in 1 .. n - 1 : t[j] = IF j < i THEN toR[j] ELSE toR[j + 1]
    BY <1>0, Removed
  <2> HIDE DEF n, t
  <2>2. h \in [DOMAIN t -> DOMAIN toR]  BY <2>1
  <2>3. \A j \in DOMAIN t : t[j] = toR[h[j]]  BY <2>1
  <2>4. \A j, l \in DOMAIN t : j < l => h[j] < h[l]  BY <2>1
  <2> HIDE DEF h
  <2>5. \A j \in DOMAIN t : SameAtom(t[j], toR[h[j]])  BY <2>3 DEF SameAtom
  <2>6. Thinned(t, toR)  BY <2>2, <2>4, <2>5 DEF Thinned
  <2> QED  BY <2>6 DEF t
<1>2. ASSUME NEW i \in DOMAIN toR, toR[i].t = "body", toR' = [toR EXCEPT ![i].ok = FALSE]
      PROVE  Thinned(toR', toR)
  <2> DEFINE h == [j \in DOMAIN toR |-> j]
  <2>1. DOMAIN toR' = DOMAIN toR  BY <1>2
  <2>2. h \in [DOMAIN toR' -> DOMAIN toR]  BY <2>1
  <2>3. ASSUME NEW j \in DOMAIN toR' PROVE SameAtom(toR'[j], toR[j])
    <3>1. CASE j # i
      <4>1. toR'[j] = toR[j]  BY <3>1, <1>2, <2>1
      <4> QED  BY <4>1 DEF SameAtom
    <3>2. CASE j = i
      <4>1. toR'[j] = [toR[i] EXCEPT !.ok = FALSE]  BY <3>2, <1>2, <2>1
      <4>2. toR[i] \in Atoms  BY <1>0, Labels
      <4>3. toR[i] \in Bodies  BY <1>2, <4>2 DEF Atoms, HEAD, Eots, CAN, JUNK
      <4> QED  BY <3>2, <4>1, <4>3 DEF SameAtom, Bodies
    <3> QED  BY <3>1, <3>2
  <2>4. \A j \in DOMAIN toR' : SameAtom(toR'[j], toR[h[j]])  BY <2>1, <2>3
  <2>5. \A j, l \in DOMAIN toR' : j < l => h[j] < h[l]  BY <2>1
  <2> HIDE DEF h
  <2> QED  BY <2>2, <2>4, <2>5 DEF Thinned
<1>3. Thinned(toR, toR)  BY <1>0, ThinnedReads
<1>4. CASE \E i \in DOMAIN toR : toR' = RemoveAt(toR, i) /\ UNCHANGED toS  BY <1>1, <1>4
<1>5. CASE \E i \in DOMAIN toR : /\ toR[i].t = "body" /\ toR[i].ok
                                 /\ toR' = [toR EXCEPT ![i].ok = FALSE] /\ UNCHANGED toS
  BY <1>2, <1>5
<1>6. CASE \E i \in DOMAIN toS : /\ UNCHANGED toR
                                 /\ toS' \in {RemoveAt(toS, i), [toS EXCEPT ![i] = "noise"]}
  <2>1. PICK i \in DOMAIN toS : /\ UNCHANGED toR
                                /\ toS' \in {RemoveAt(toS, i), [toS EXCEPT ![i] = "noise"]}
    BY <1>6
  <2>2. CASE toS' = RemoveAt(toS, i)
    <3> DEFINE n == Len(toS)
    <3>1. /\ i \in 1 .. n /\ n \in Nat /\ DOMAIN toS = 1 .. n /\ DOMAIN toS' = 1 .. n - 1
          /\ \A j \in 1 .. n - 1 : toS'[j] = IF j < i THEN toS[j] ELSE toS[j + 1]
      BY <1>0, <2>2, Removed
    <3> HIDE DEF n
    <3>2. \A j \in DOMAIN toS' : \E l \in DOMAIN toS : toS'[j] = toS[l]
      <4> SUFFICES ASSUME NEW j \in 1 .. n - 1 PROVE \E l \in 1 .. n : toS'[j] = toS[l]
        BY <3>1
      <4>1. j \in 1 .. n /\ j + 1 \in 1 .. n  BY <3>1
      <4> QED  BY <3>1, <4>1
    <3> QED  BY <2>1, <1>3, <3>2
  <2>3. CASE toS' = [toS EXCEPT ![i] = "noise"]
    <3>1. DOMAIN toS' = DOMAIN toS /\ \A j \in DOMAIN toS : toS'[j] = toS[j] \/ toS'[j] = "noise"
      BY <2>3
    <3> QED  BY <2>1, <1>3, <3>1
  <2> QED  BY <2>1, <2>2, <2>3
<1> QED  BY <1>4, <1>5, <1>6 DEF LineFault

\* An answer without ACK.
LEMMA NoAck ==
  ASSUME LineForm, NEW s \in Seq(Answers), Answer(s), \A i \in DOMAIN s : s[i] # "ACK",
         \A i \in DOMAIN toS : toS[i] # "ACK"
  PROVE  \A i \in DOMAIN toS' : toS'[i] # "ACK"
<1> SUFFICES ASSUME NEW i \in DOMAIN (toS \o s) PROVE (toS \o s)[i] # "ACK"
  BY DEF Answer
<1>1. \/ i \in DOMAIN toS /\ (toS \o s)[i] = toS[i]
      \/ \E j \in DOMAIN s : (toS \o s)[i] = s[j]
  BY Grown DEF LineForm
<1> QED  BY <1>1

\* Steps that leave what the receiver holds as it is.
LEMMA HoldsThinned ==
  ASSUME SndForm, snd' = snd, Thinned(toR', toR), saved' = saved, NEW e \in 0 .. Chunks,
         Holds(rcv, toR, saved, snd.at, snd.file, SndK, e),
         rcv'.open = rcv.open, rcv'.ymodem = rcv.ymodem, rcv'.file = rcv.file,
         rcv'.state = rcv.state, rcv'.expected = rcv.expected
  PROVE  FrameInv' /\ DoneInv'
<1>1. SndK' = SndK  BY DEF SndK, NumberOf, Chunks
<1>2. Ahead(toR, rcv.file, rcv.state = "ENDING", e)  BY DEF Holds
<1>3. Ahead(toR', rcv.file, rcv.state = "ENDING", e)  BY <1>2, ThinnedAhead
<1>4. Holds(rcv', toR', saved', snd'.at, snd'.file, SndK', e)  BY <1>1, <1>3 DEF Holds
<1>5. FrameInv'  BY <1>4, HoldsAfter
<1>6. DoneInv'  BY <1>4, HoldsPrefix DEF Holds
<1> QED  BY <1>5, <1>6

LEMMA PreThinned ==
  ASSUME PreInv, Opening, snd' = snd, Thinned(toR', toR), saved' = saved,
         rcv'.open = rcv.open, ~rcv'.ymodem, \A i \in DOMAIN toS' : toS'[i] # "ACK"
  PROVE  PreInv'
<1>1. /\ ~rcv.open /\ saved = <<>>
      /\ snd.at \in {"handshake", "info", "data", "done"} /\ snd.file = 1 /\ snd.chunk = 1
      /\ snd.at = "data" => ~snd.ymodem
      /\ \A i \in DOMAIN toR : Labelled(toR[i]) => toR[i].f = 1 /\ toR[i].k = First
  BY DEF PreInv
<1>2. ASSUME NEW i \in DOMAIN toR', Labelled(toR'[i])
      PROVE  toR'[i].f = 1 /\ toR'[i].k = First
  <2>1. PICK j \in DOMAIN toR : SameAtom(toR'[i], toR[j]) /\ Labelled(toR[j])
    BY <1>2, ThinnedMember
  <2> QED  BY <1>1, <1>2, <2>1 DEF SameAtom
<1>3. First' = First  BY DEF First
<1> QED  BY <1>1, <1>2, <1>3 DEF PreInv, Labelled

LEMMA FaultSave ==
  ASSUME Form, LineFault, PreInv, FrameInv, DoneInv
  PROVE  PreInv' /\ FrameInv' /\ DoneInv'
<1>0. /\ snd' = snd /\ rcv' = rcv /\ saved' = saved /\ Thinned(toR', toR) /\ SndForm
      /\ (\A i \in DOMAIN toS : toS[i] # "ACK") => \A i \in DOMAIN toS' : toS'[i] # "ACK"
  BY FaultThins DEF LineFault, Form
<1>1. PreInv'
  <2>1. CASE Opening
    <3>1. ~rcv.ymodem /\ \A i \in DOMAIN toS : toS[i] # "ACK"  BY <2>1 DEF PreInv
    <3> QED  BY <1>0, <2>1, <3>1, PreThinned
  <2>2. CASE ~Opening  BY <1>0, <2>2 DEF PreInv, Opening
  <2> QED  BY <2>1, <2>2
<1>2. FrameInv'
  <2>1. CASE rcv.at = "frames"
    <3>1. PICK e \in 0 .. Chunks : Holds(rcv, toR, saved, snd.at, snd.file, SndK, e)
      BY <2>1 DEF FrameInv
    <3> QED  BY <1>0, <3>1, HoldsThinned
  <2>2. CASE rcv.at # "frames"  BY <1>0, <2>2 DEF FrameInv
  <2> QED  BY <2>1, <2>2
<1>3. DoneInv'
  <2>1. Content(rcv.file)' = Content(rcv.file)  BY <1>0 DEF Content, File, Chunks, Unit, Pad
  <2> QED  BY <1>0, <2>1 DEF DoneInv
<1> QED  BY <1>1, <1>2, <1>3

-----------------------------------------------------------------------------
(* The receiver before its file is open.                                    *)

\* The results of a first frame that fails and of one that opens the file.
LEMMA FirstFailsKeeps ==
  ASSUME NEW r \in Receivers, NEW res
  PROVE  LET s == FirstFrameFails(r, res) IN
         /\ s.open = r.open /\ s.ymodem = r.ymodem /\ s.at \in {r.at, "done"}
         /\ s.head = r.head /\ s.crc = r.crc /\ s.res \in {r.res, res}
  BY DEF FirstFrameFails, Return, Receivers

LEMMA OpenedKeeps ==
  ASSUME NEW r \in Receivers, NEW f
  PROVE  LET s == Opened(r, f) IN
         /\ s.open /\ s.ymodem = r.ymodem /\ s.file = f /\ s.expected = r.expected
         /\ s.state = "FILEXFER" /\ s.at = "frames" /\ s.crc = r.crc /\ s.res = r.res
  BY DEF Opened, Receivers

LEMMA ClosedAfter ==
  ASSUME rcv'.at # "frames", ~rcv'.open
  PROVE  FrameInv' /\ DoneInv'
  BY DEF FrameInv, DoneInv

LEMMA RequestSave ==
  ASSUME Form, PreInv, receiver_send_request, snd' = snd, Thinned(toR', toR)
  PROVE  PreInv' /\ FrameInv' /\ DoneInv'
<1>0. Opening /\ rcv \in Receivers /\ LineForm /\ saved' = saved
  BY DEF receiver_send_request, Opening, Form, RcvForm
<1>1. ~rcv.open /\ ~rcv.ymodem /\ \A i \in DOMAIN toS : toS[i] # "ACK"  BY <1>0 DEF PreInv
<1> DEFINE crc == IF rcv.crc = 2 /\ rcv.shake >= HandshakeRetry \div 2 THEN 1 ELSE rcv.crc
<1>2. CASE rcv' = [rcv EXCEPT !.at = "wait", !.crc = crc] /\ Answer(<<ReceiverRequest(crc)>>)
  <2>1. rcv'.at = "wait" /\ rcv'.open = rcv.open /\ rcv'.ymodem = rcv.ymodem
    BY <1>0, <1>2 DEF Receivers
  <2>2. \A i \in DOMAIN toS' : toS'[i] # "ACK"
    <3> HIDE DEF crc
    <3>1. <<ReceiverRequest(crc)>> \in Seq(Answers)  BY RequestForm
    <3>2. \A i \in DOMAIN <<ReceiverRequest(crc)>> : <<ReceiverRequest(crc)>>[i] # "ACK"
      BY DEF ReceiverRequest
    <3> QED  BY <1>0, <1>1, <1>2, <3>1, <3>2, NoAck
  <2>3. PreInv'  BY <1>0, <1>1, <2>1, <2>2, PreThinned
  <2> QED  BY <1>1, <2>1, <2>3, ClosedAfter
<1>3. CASE rcv' = Return(rcv, "ERR_RETRY")
  <2>1. rcv'.at = "done" /\ ~rcv'.open  BY <1>0, <1>1, <1>3 DEF Return, Receivers
  <2> QED  BY <2>1, ClosedAfter DEF PreInv, Opening
<1> QED  BY <1>2, <1>3 DEF receiver_send_request

LEMMA FirstByteSave ==
  ASSUME Form, PreInv, receiver_first_byte, snd' = snd, Thinned(toR', toR)
  PROVE  PreInv' /\ FrameInv' /\ DoneInv'
<1>0. Opening /\ rcv \in Receivers /\ saved' = saved /\ toS' = toS
  BY DEF receiver_first_byte, Opening, Form, RcvForm
<1>1. ~rcv.open /\ ~rcv.ymodem /\ \A i \in DOMAIN toS : toS[i] # "ACK"  BY <1>0 DEF PreInv
<1>2. rcv'.at \in {"request", "first"} /\ rcv'.open = rcv.open /\ rcv'.ymodem = rcv.ymodem
  BY <1>0 DEF receiver_first_byte, Receivers
<1>3. PreInv'  BY <1>0, <1>1, <1>2, PreThinned
<1> QED  BY <1>1, <1>2, <1>3, ClosedAfter

\* A first frame that fails.
LEMMA FailsSave ==
  ASSUME Form, PreInv, rcv.at = "first", snd' = snd, Thinned(toR', toR), saved' = saved,
         NEW r \in Receivers, r.at = rcv.at, r.open = rcv.open, ~r.ymodem, NEW res,
         rcv' = FirstFrameFails(r, res), Answer(<<"NAK">>)
  PROVE  PreInv' /\ FrameInv' /\ DoneInv'
<1>0. Opening /\ LineForm  BY DEF Opening, Form
<1>1. ~rcv.open /\ \A i \in DOMAIN toS : toS[i] # "ACK"  BY <1>0 DEF PreInv
<1>2. rcv'.open = rcv.open /\ ~rcv'.ymodem /\ rcv'.at \in {"first", "done"}
  BY FirstFailsKeeps
<1>3. \A i \in DOMAIN toS' : toS'[i] # "ACK"
  <2>1. <<"NAK">> \in Seq(Answers)  BY RequestForm
  <2>2. \A i \in DOMAIN <<"NAK">> : <<"NAK">>[i] # "ACK"  OBVIOUS
  <2> QED  BY <1>0, <1>1, <2>1, <2>2, NoAck
<1>4. PreInv'  BY <1>0, <1>2, <1>3, PreThinned
<1> QED  BY <1>1, <1>2, <1>4, ClosedAfter

\* A first frame that opens the file: the receiver holds First blocks of file 1.
Opens ==
  /\ rcv'.open /\ rcv'.ymodem = snd.ymodem /\ rcv'.file = 1 /\ rcv'.state = "FILEXFER"
  /\ rcv'.at = "frames" /\ rcv'.expected = (First + 1) % SeqCount
  /\ rcv'.crc = rcv.crc /\ rcv'.res = rcv.res

LEMMA OpensSave ==
  ASSUME Form, LineInv, PreInv, Opening, snd' = snd, Thinned(toR', toR), saved' = Taken(1, First),
         NEW i \in DOMAIN toR, Labelled(toR[i]),
         rcv'.open, rcv'.ymodem = snd.ymodem, rcv'.file = 1, rcv'.state = "FILEXFER",
         rcv'.at = "frames", rcv'.expected = (First + 1) % SeqCount
  PROVE  PreInv' /\ FrameInv' /\ DoneInv'
<1>0. SndForm /\ Chunks \in Nat /\ Chunks >= 1 /\ First \in 0 .. Chunks /\ First \in {0, 1}
  BY ChunksPositive DEF Form, First
<1>1. /\ snd.at \in {"handshake", "info", "data", "done"} /\ snd.file = 1 /\ snd.chunk = 1
      /\ snd.at = "data" => ~snd.ymodem
      /\ \A j \in DOMAIN toR : Labelled(toR[j]) => toR[j].f = 1 /\ toR[j].k = First
  BY DEF PreInv
<1>2. snd.at # "handshake" /\ SndInv  BY DEF LineInv, Sent
<1>3. snd.at # "done" => SndK = First
  BY <1>1, <1>2 DEF SndK, NumberOf, First, SndInv
<1>4. SndK' = SndK  BY DEF SndK, NumberOf, Chunks
<1>5. Within(1, FALSE, First, 1, First)  BY <1>0 DEF Within, Before
<1>6. Ahead(toR', 1, FALSE, First)
  <2>1. First <= First + SeqCount  BY <1>0, Sizes
  <2>2. Ahead(toR, 1, FALSE, First)
    <3> SUFFICES ASSUME NEW j \in DOMAIN toR, Labelled(toR[j])
                 PROVE  /\ Within(1, FALSE, First, toR[j].f, toR[j].k)
                        /\ toR[j].k <= Chunks => toR[j].k <= First + SeqCount
      BY DEF Ahead
    <3>1. toR[j].f = 1 /\ toR[j].k = First  BY <1>1
    <3> QED  BY <1>5, <2>1, <3>1
  <2> QED  BY <2>2, ThinnedAhead
<1>7. 1 \in 1 .. Files  BY Sizes
<1>8. Holds(rcv', toR', saved', snd'.at, snd'.file, SndK', First)
  <2>1. (rcv'.state = "ENDING") = FALSE  OBVIOUS
  <2>2. snd'.at # "done" => Within(1, FALSE, First, snd'.file, SndK')  BY <1>1, <1>3, <1>4, <1>5
  <2> QED  BY <1>2, <1>6, <1>7, <2>1, <2>2 DEF Holds
<1>9. FrameInv'  BY <1>0, <1>8, HoldsAfter
<1>10. DoneInv'  BY <1>0, HoldsPrefix
<1>11. PreInv'  BY DEF PreInv, Opening
<1> QED  BY <1>9, <1>10, <1>11

\* A first frame fails, or it is verified and opens the file.
LEMMA FirstFrame ==
  ASSUME Form, LineInv, PreInv, receiver_process_first_frame, faults'.save = 0
  PROVE  \/ /\ Answer(<<"NAK">>) /\ rcv' = FirstFrameFails(rcv, "ERR_CRC") /\ saved' = saved
            /\ toR' = <<>>
         \/ /\ receiver_verify_frame(toR) /\ toR' = Tail(toR)
            /\ 1 \in DOMAIN toR /\ toR[1].t = "body" /\ toR[1].f = 1 /\ toR[1].k = First
            /\ Opens /\ saved' = Taken(1, First)
<1>0. /\ rcv.at = "first" /\ Opening /\ rcv \in Receivers /\ toR \in Seq(Atoms) /\ SndForm
      /\ snd.ymodem \in BOOLEAN
  BY DEF receiver_process_first_frame, Opening, Form, RcvForm, LineForm, SndForm, Senders
<1>1. /\ ~rcv.open /\ ~rcv.ymodem /\ saved = <<>>
      /\ \A j \in DOMAIN toR : Labelled(toR[j]) => toR[j].f = 1 /\ toR[j].k = First
  BY <1>0 DEF PreInv
<1>2. ~SaveFault
  <2>1. faults.save \in Nat  BY DEF Form, FaultForm
  <2> SUFFICES ASSUME SaveFault PROVE FALSE  OBVIOUS
  <2>2. faults' = [faults EXCEPT !.save = faults.save + 1]  BY DEF SaveFault
  <2>3. faults'.save = faults.save + 1  BY <2>2 DEF Form, FaultForm
  <2> QED  BY <2>1, <2>3
<1>3. CASE /\ Answer(<<"NAK">>) /\ rcv' = FirstFrameFails(rcv, "ERR_CRC") /\ saved' = saved
           /\ toR' = <<>>
  BY <1>3
<1>4. CASE receiver_verify_frame(toR) /\ toR' = Tail(toR) /\ (FirstInfoFrame(Head(toR)) \/ FirstDataFrame(Head(toR)))
  <2> DEFINE b == Head(toR)
  <2>1. b = toR[1] /\ 1 \in DOMAIN toR /\ b.t = "body"
    <3>1. toR # <<>> /\ Head(toR).t = "body"  BY <1>4 DEF receiver_verify_frame
    <3> QED  BY <1>0, <3>1, HeadTailProperties, EmptySeq, LenProperties
  <2>2. Labelled(toR[1]) /\ b.f = 1 /\ b.k = First  BY <1>1, <2>1 DEF Labelled
  <2>3. Shape(b)  BY <2>1 DEF LineInv, Shapes
  <2>4. Chunks \in Nat /\ Chunks >= 1  BY <1>0, ChunksPositive
  <2>5. 1 % SeqCount = 1  BY SmallRemainder, Sizes
  <2>6. \/ snd.ymodem /\ First = 0 /\ b.seq = 0 /\ b.data = InfoData(1)
        \/ ~snd.ymodem /\ First = 1 /\ b.seq = 1 /\ b.data = ChunkData(1, 1)
    <3>1. CASE snd.ymodem
      <4>1. b.k = 0 /\ First = 0 /\ b.f = 1  BY <3>1, <2>2 DEF First
      <4> HIDE DEF b
      <4> QED  BY <3>1, <4>1, <2>1, <2>3, <2>4 DEF Shape
    <3>2. CASE ~snd.ymodem
      <4>1. b.k = 1 /\ First = 1 /\ b.f = 1  BY <3>2, <2>2 DEF First
      <4> HIDE DEF b
      <4> QED  BY <3>2, <4>1, <2>1, <2>3, <2>4, <2>5 DEF Shape
    <3> QED  BY <3>1, <3>2
  <2> HIDE DEF b
  <2>7. ASSUME FirstInfoFrame(b) PROVE Opens /\ saved' = Taken(1, First)
    <3> DEFINE r == [rcv EXCEPT !.ymodem = TRUE, !.expected = 1, !.state = "CONNECTED"]
    <3>1. b.seq = 0 /\ saved' = <<>> /\ rcv' = Opened(r, b.data[1][1])
      BY <2>7, <1>2 DEF FirstInfoFrame
    <3>2. snd.ymodem /\ First = 0 /\ b.data[1][1] = 1
      <4>1. snd.ymodem /\ First = 0 /\ b.data = InfoData(1)  BY <2>6, <3>1
      <4>2. InfoData(1)[1][1] = 1  BY DEF InfoData, Unit
      <4> QED  BY <4>1, <4>2
    <3>3. r \in Receivers /\ r.ymodem = TRUE /\ r.expected = 1 /\ r.crc = rcv.crc /\ r.res = rcv.res
      <4>1. 1 \in 0 .. SeqCount - 1 /\ "CONNECTED" \in States  BY Sizes DEF States
      <4> QED  BY <1>0, <4>1 DEF Receivers
    <3> HIDE DEF r
    <3>4. /\ rcv'.open /\ rcv'.ymodem = TRUE /\ rcv'.file = 1 /\ rcv'.expected = 1
          /\ rcv'.state = "FILEXFER" /\ rcv'.at = "frames"
          /\ rcv'.crc = rcv.crc /\ rcv'.res = rcv.res
      BY <3>1, <3>2, <3>3, OpenedKeeps
    <3>5. saved' = Taken(1, First)
      <4>1. First * BlockSize = 0 /\ Length \in Nat
        BY <1>0, <3>2, <2>4, ChunksPositive, BlockBounds, Sizes
      <4>2. Cut(First) = 0  BY <4>1 DEF Cut
      <4>3. Taken(1, First) = [n \in 1 .. 0 |-> IF n <= FileLen THEN Unit(1, n) ELSE Pad]
        BY <4>2 DEF Taken
      <4> QED  BY <3>1, <4>3
    <3>6. rcv'.ymodem = snd.ymodem /\ rcv'.expected = (First + 1) % SeqCount
      <4>1. rcv'.ymodem = snd.ymodem  BY <1>0, <3>2, <3>4, Zenon
      <4>2. First + 1 = 1  BY <3>2
      <4> QED  BY <2>5, <3>4, <4>1, <4>2
    <3> QED  BY <3>4, <3>5, <3>6 DEF Opens
  <2>8. ASSUME FirstDataFrame(b) PROVE Opens /\ saved' = Taken(1, First)
    <3> DEFINE r == [rcv EXCEPT !.ymodem = FALSE, !.expected = 2 % SeqCount, !.state = "CONNECTED"]
    <3>0. b.seq = 1 /\ ~snd.ymodem /\ First = 1 /\ b.data = ChunkData(1, 1)
      BY <2>6, <2>8 DEF FirstDataFrame
    <3>1. saved' = b.data /\ rcv' = Opened(r, 1)
      BY <2>8, <1>2, <3>0 DEF FirstDataFrame
    <3>3. /\ r \in Receivers /\ r.ymodem = FALSE /\ r.expected = 2 % SeqCount
          /\ r.crc = rcv.crc /\ r.res = rcv.res
      <4>1. 2 % SeqCount \in 0 .. SeqCount - 1 /\ "CONNECTED" \in States
        BY Sizes, Remainder DEF States
      <4> QED  BY <1>0, <4>1, ZenonT(60) DEF Receivers
    <3> HIDE DEF r
    <3>4. /\ rcv'.open /\ rcv'.ymodem = FALSE /\ rcv'.file = 1 /\ rcv'.expected = 2 % SeqCount
          /\ rcv'.state = "FILEXFER" /\ rcv'.at = "frames"
          /\ rcv'.crc = rcv.crc /\ rcv'.res = rcv.res
      BY <3>1, <3>3, OpenedKeeps
    <3>5. saved' = Taken(1, First)
      <4>1. 0 * BlockSize = 0 /\ Length \in Nat
        <5>1. BlockSize \in Nat  BY <1>0, ChunksPositive
        <5>2. Length = Chunks * BlockSize  BY <1>0, <3>0, BlockBounds
        <5> QED  BY <5>1, <5>2, <2>4
      <4>2. Cut(0) = 0  BY <4>1 DEF Cut
      <4>3. Taken(1, 0) = [n \in 1 .. 0 |-> IF n <= FileLen THEN Unit(1, n) ELSE Pad]
        BY <4>2 DEF Taken
      <4>4. saved = Taken(1, 0)  BY <1>1, <4>3
      <4>5. /\ 1 \in 1 .. Files /\ 0 + 1 <= Chunks /\ rcv.ymodem = snd.ymodem
            /\ b.data = ChunkData(1, 0 + 1)
        BY <1>0, <1>1, <2>4, <3>0, Sizes DEF Receivers
      <4>6. b.data = Taken(1, 1)  BY <1>0, <3>0, <4>4, <4>5, TakenNext
      <4> QED  BY <3>0, <3>1, <4>6
    <3>6. rcv'.ymodem = snd.ymodem /\ rcv'.expected = (First + 1) % SeqCount
      <4>1. rcv'.ymodem = snd.ymodem  BY <1>0, <3>0, <3>4, Zenon
      <4>2. First + 1 = 2  BY <3>0
      <4> QED  BY <3>4, <4>1, <4>2
    <3> QED  BY <3>4, <3>5, <3>6 DEF Opens
  <2>9. Opens /\ saved' = Taken(1, First)  BY <1>4, <2>7, <2>8 DEF b
  <2> QED  BY <1>4, <2>1, <2>2, <2>9 DEF b
<1> QED  BY <1>3, <1>4 DEF receiver_process_first_frame

LEMMA FirstFrameSave ==
  ASSUME Form, LineInv, PreInv, receiver_process_first_frame, snd' = snd, Thinned(toR', toR),
         faults'.save = 0
  PROVE  PreInv' /\ FrameInv' /\ DoneInv'
<1>0. rcv.at = "first" /\ Opening /\ rcv \in Receivers /\ ~rcv.ymodem
  BY DEF receiver_process_first_frame, Opening, Form, RcvForm, PreInv
<1>1. CASE Answer(<<"NAK">>) /\ rcv' = FirstFrameFails(rcv, "ERR_CRC") /\ saved' = saved
  BY <1>0, <1>1, FailsSave
<1>2. CASE 1 \in DOMAIN toR /\ toR[1].t = "body" /\ Opens /\ saved' = Taken(1, First)
  <2>1. Labelled(toR[1])  BY <1>2 DEF Labelled
  <2> QED  BY <1>0, <1>2, <2>1, OpensSave DEF Opens
<1> QED  BY <1>1, <1>2, FirstFrame

-----------------------------------------------------------------------------
(* The receiver while its file is open.                                     *)

LEMMA FrameErrorKeeps ==
  ASSUME NEW r \in Receivers, NEW s, FrameError(r, s)
  PROVE  /\ rcv'.open = r.open /\ rcv'.ymodem = r.ymodem /\ rcv'.file = r.file
         /\ rcv'.state = r.state /\ rcv'.expected = r.expected /\ rcv'.at \in {r.at, "done"}
         /\ rcv'.crc = r.crc /\ rcv'.res \in {r.res, "ERR_RETRY"}
  BY DEF FrameError, Return, Receivers

LEMMA FrameOkKeeps ==
  ASSUME NEW r \in Receivers, FrameOk(r)
  PROVE  /\ r.state # "ENDED" =>
              /\ rcv'.open = r.open /\ rcv'.ymodem = r.ymodem /\ rcv'.file = r.file
              /\ rcv'.state = r.state /\ rcv'.expected = r.expected /\ rcv'.at = r.at
              /\ rcv'.crc = r.crc /\ rcv'.res = r.res
         /\ r.state = "ENDED" => rcv'.at = "done" /\ ~rcv'.open /\ rcv'.file = r.file
  BY DEF FrameOk, Return, Receivers

\* Steps that keep what the receiver holds.
LEMMA KeepsSave ==
  ASSUME SndForm, FrameInv, rcv.at = "frames", snd' = snd, Thinned(toR', toR), saved' = saved,
         rcv'.open = rcv.open, rcv'.ymodem = rcv.ymodem, rcv'.file = rcv.file,
         rcv'.state = rcv.state, rcv'.expected = rcv.expected, rcv'.at \in {"frames", "done"}
  PROVE  PreInv' /\ FrameInv' /\ DoneInv'
<1>1. PICK e \in 0 .. Chunks : Holds(rcv, toR, saved, snd.at, snd.file, SndK, e)  BY DEF FrameInv
<1>2. FrameInv' /\ DoneInv'  BY <1>1, HoldsThinned
<1>3. PreInv'  BY DEF PreInv, Opening
<1> QED  BY <1>2, <1>3

LEMMA EndsSave ==
  ASSUME rcv'.at = "done", ~rcv'.open
  PROVE  PreInv' /\ FrameInv' /\ DoneInv'
  BY ClosedAfter DEF PreInv, Opening

LEMMA TimeoutSave ==
  ASSUME Form, FrameInv, receiver_timeout, snd' = snd, Thinned(toR', toR)
  PROVE  PreInv' /\ FrameInv' /\ DoneInv'
<1>1. rcv \in Receivers /\ rcv.at = "frames" /\ saved' = saved /\ SndForm /\ FrameError(rcv, <<"NAK">>)
  BY DEF Form, RcvForm, receiver_timeout
<1> QED  BY <1>1, FrameErrorKeeps, KeepsSave

LEMMA BadHeadSave ==
  ASSUME Form, FrameInv, receiver_bad_head, snd' = snd, Thinned(toR', toR)
  PROVE  PreInv' /\ FrameInv' /\ DoneInv'
<1>1. rcv \in Receivers /\ rcv.at = "frames" /\ saved' = saved /\ SndForm
      /\ rcv' = Return(rcv, "ERR_HEAD")
  BY DEF Form, RcvForm, receiver_bad_head
<1>2. /\ rcv'.open = rcv.open /\ rcv'.ymodem = rcv.ymodem /\ rcv'.file = rcv.file
      /\ rcv'.state = rcv.state /\ rcv'.expected = rcv.expected /\ rcv'.at = "done"
  BY <1>1 DEF Return, Receivers
<1> QED  BY <1>1, <1>2, KeepsSave

\* What is behind the first atom of a line, and the sender, is not before it.
LEMMA Behind ==
  ASSUME Form, LineInv, NEW line \in Seq(Atoms), line # <<>>, Thinned(line, toR),
         NEW b, b = Head(line), Labelled(b)
  PROVE  /\ b = line[1] /\ 1 \in DOMAIN line /\ b.f \in 1 .. Files /\ b.k \in Nat /\ Shape(b)
         /\ snd.at # "handshake" /\ (snd.at # "done" => Before(b.f, b.k, snd.file, SndK))
         /\ Tail(line) \in Seq(Atoms) /\ Thinned(Tail(line), toR)
         /\ \A i \in DOMAIN Tail(line) : Labelled(Tail(line)[i]) =>
              Before(b.f, b.k, Tail(line)[i].f, Tail(line)[i].k)
<1>1. b = line[1] /\ 1 \in DOMAIN line  BY HeadTailProperties, EmptySeq, LenProperties
<1>2. b.f \in 1 .. Files /\ b.k \in Nat  BY <1>1, Labels
<1>3. Shapes(line) /\ Ordered(line)  BY ThinnedShapes, ThinnedOrder DEF LineInv
<1>4. Shape(b)  BY <1>1, <1>3 DEF Shapes
<1>5. snd.at # "handshake" /\ (snd.at # "done" => Before(b.f, b.k, snd.file, SndK))
  <2>1. PICK j \in DOMAIN toR : SameAtom(line[1], toR[j]) /\ Labelled(toR[j])  BY <1>1, ThinnedMember
  <2>2. b.f = toR[j].f /\ b.k = toR[j].k  BY <1>1, <2>1 DEF SameAtom
  <2>3. snd.at # "handshake" /\ (snd.at # "done" => Before(toR[j].f, toR[j].k, snd.file, SndK))
    BY <2>1 DEF LineInv, Sent
  <2> QED  BY <2>2, <2>3
<1>6. Tail(line) \in Seq(Atoms) /\ Thinned(Tail(line), toR)
  <2>1. Thinned(Tail(line), line)  BY ThinnedReads
  <2>2. Thinned(Tail(line), toR)  BY <2>1, ThinnedTrans
  <2> QED  BY <2>2, HeadTailProperties
<1>7. ASSUME NEW i \in DOMAIN Tail(line), Labelled(Tail(line)[i])
      PROVE  Before(b.f, b.k, Tail(line)[i].f, Tail(line)[i].k)
  <2> DEFINE n == Len(line)  s == Tail(line)
  <2>1. n \in Nat /\ n >= 1 /\ DOMAIN line = 1 .. n  BY EmptySeq, LenProperties
  <2>2. s \in Seq(Atoms) /\ Len(s) = n - 1 /\ \A j \in 1 .. n - 1 : s[j] = line[j + 1]
    BY HeadTailProperties
  <2>3. DOMAIN s = 1 .. n - 1  BY <2>2, LenProperties
  <2>4. i \in DOMAIN s /\ Labelled(s[i])  BY <1>7
  <2> HIDE DEF n, s
  <2>5. i + 1 \in DOMAIN line /\ 1 < i + 1 /\ s[i] = line[i + 1]  BY <2>1, <2>2, <2>3, <2>4
  <2>6. Before(b.f, b.k, s[i].f, s[i].k)  BY <1>1, <1>3, <2>4, <2>5 DEF Ordered
  <2> QED  BY <2>6 DEF s
<1> QED  BY <1>1, <1>2, <1>4, <1>5, <1>6, <1>7

\* The receiver takes the first atom b of a line, and holds e2 blocks of a file then:
\* what was within its reach and is not before b still is.
LEMMA HoldsMoves ==
  ASSUME Form, LineInv, snd' = snd, NEW line \in Seq(Atoms), line # <<>>, Thinned(line, toR),
         toR' = Tail(line), NEW b, b = Head(line), Labelled(b),
         NEW e, Holds(rcv, toR, saved, snd.at, snd.file, SndK, e),
         NEW e2 \in 0 .. Chunks,
         rcv'.open, rcv'.ymodem = snd.ymodem, rcv'.file \in 1 .. Files,
         rcv'.state \in {"FILEXFER", "ENDOFXFER", "ENDING"},
         saved' = Taken(rcv'.file, e2), rcv'.expected = (e2 + 1) % SeqCount, rcv'.at = "frames",
         \A f \in 1 .. Files, k \in Nat :
           Within(rcv.file, rcv.state = "ENDING", e, f, k) /\ Before(b.f, b.k, f, k) =>
             /\ Within(rcv'.file, rcv'.state = "ENDING", e2, f, k)
             /\ (k <= Chunks => k <= e + SeqCount) => (k <= Chunks => k <= e2 + SeqCount)
  PROVE  PreInv' /\ FrameInv' /\ DoneInv'
<1>1. /\ snd.at # "handshake" /\ (snd.at # "done" => Before(b.f, b.k, snd.file, SndK))
      /\ Tail(line) \in Seq(Atoms) /\ Thinned(Tail(line), toR)
      /\ \A i \in DOMAIN Tail(line) : Labelled(Tail(line)[i]) =>
           Before(b.f, b.k, Tail(line)[i].f, Tail(line)[i].k)
  BY Behind
<1>2. SndK' = SndK  BY DEF SndK, NumberOf, Chunks
<1>3. SndK \in Nat /\ snd.file \in 1 .. Files /\ SndForm  BY SndNumber DEF Form
<1>4. Ahead(toR', rcv.file, rcv.state = "ENDING", e)  BY <1>1, ThinnedAhead DEF Holds
<1>5. Ahead(toR', rcv'.file, rcv'.state = "ENDING", e2)
  <2> SUFFICES ASSUME NEW i \in DOMAIN toR', Labelled(toR'[i])
               PROVE  /\ Within(rcv'.file, rcv'.state = "ENDING", e2, toR'[i].f, toR'[i].k)
                      /\ toR'[i].k <= Chunks => toR'[i].k <= e2 + SeqCount
    BY DEF Ahead
  <2>1. toR'[i].f \in 1 .. Files /\ toR'[i].k \in Nat  BY <1>1, Labels
  <2>2. /\ Within(rcv.file, rcv.state = "ENDING", e, toR'[i].f, toR'[i].k)
        /\ toR'[i].k <= Chunks => toR'[i].k <= e + SeqCount
    BY <1>4 DEF Ahead
  <2>3. Before(b.f, b.k, toR'[i].f, toR'[i].k)  BY <1>1
  <2> QED  BY <2>1, <2>2, <2>3
<1>6. snd.at # "done" => Within(rcv'.file, rcv'.state = "ENDING", e2, snd.file, SndK)
  <2> SUFFICES ASSUME snd.at # "done"
               PROVE  Within(rcv'.file, rcv'.state = "ENDING", e2, snd.file, SndK)
    OBVIOUS
  <2>1. Within(rcv.file, rcv.state = "ENDING", e, snd.file, SndK)  BY DEF Holds
  <2> QED  BY <1>1, <1>3, <2>1
<1>7. Holds(rcv', toR', saved', snd'.at, snd'.file, SndK', e2)  BY <1>1, <1>2, <1>5, <1>6 DEF Holds
<1>8. FrameInv'  BY <1>7, HoldsAfter
<1>9. DoneInv'  BY <1>3, HoldsPrefix
<1>10. PreInv'  BY DEF PreInv, Opening
<1> QED  BY <1>8, <1>9, <1>10

\* The end of the file: the second EOT lets the sender leave it.
LEMMA EotSave ==
  ASSUME Form, LineInv, FrameInv, receiver_eot, ~NumberTakenForEot, snd' = snd,
         Thinned(toR', toR)
  PROVE  PreInv' /\ FrameInv' /\ DoneInv'
<1>0. /\ rcv \in Receivers /\ rcv.at = "frames" /\ saved' = saved /\ SndForm /\ toR # <<>>
      /\ toR \in Seq(Atoms) /\ Chunks \in Nat
  BY ChunksPositive DEF Form, RcvForm, receiver_eot, LineForm
<1> DEFINE b == Head(toR)
           to(state) == [rcv EXCEPT !.state = state]
<1>1. b.t = "eot"
  <2>1. "EOT" \in HeadClasses(b)  BY DEF receiver_eot
  <2>2. b.t # "body"  BY <1>0, <2>1 DEF NumberTakenForEot
  <2> HIDE DEF b
  <2> QED  BY <2>1, <2>2 DEF HeadClasses
<1>2. PICK e \in 0 .. Chunks : Holds(rcv, toR, saved, snd.at, snd.file, SndK, e)
  BY <1>0 DEF FrameInv
<1>3. /\ rcv.open /\ rcv.ymodem = snd.ymodem /\ rcv.file \in 1 .. Files
      /\ rcv.state \in {"FILEXFER", "ENDOFXFER", "ENDING"}
      /\ saved = Taken(rcv.file, e) /\ rcv.expected = (e + 1) % SeqCount
      /\ Ahead(toR, rcv.file, rcv.state = "ENDING", e)
  BY <1>2 DEF Holds
<1>4. \A s \in {"ENDED", "ENDOFXFER", "ENDING"} :
        /\ to(s) \in Receivers /\ to(s).state = s /\ to(s).open = rcv.open
        /\ to(s).ymodem = rcv.ymodem /\ to(s).file = rcv.file /\ to(s).expected = rcv.expected
        /\ to(s).at = rcv.at
  BY <1>0 DEF Receivers, States
<1> HIDE DEF to
<1>5. CASE FrameOk(to("ENDED"))
  <2>1. rcv'.at = "done" /\ ~rcv'.open  BY <1>4, <1>5, FrameOkKeeps
  <2> QED  BY <2>1, EndsSave
<1>6. CASE rcv.state = "FILEXFER" /\ FrameOk(to("ENDOFXFER"))
  <2>1. /\ rcv'.open = rcv.open /\ rcv'.ymodem = rcv.ymodem /\ rcv'.file = rcv.file
        /\ rcv'.state = "ENDOFXFER" /\ rcv'.expected = rcv.expected /\ rcv'.at = "frames"
    BY <1>0, <1>4, <1>6, FrameOkKeeps
  <2>2. Holds(rcv', toR', saved', snd'.at, snd'.file, SndK', e)
    <3>1. Ahead(toR', rcv.file, rcv.state = "ENDING", e)  BY <1>3, ThinnedAhead
    <3>2. SndK' = SndK  BY DEF SndK, NumberOf, Chunks
    <3>3. (rcv.state = "ENDING") = FALSE /\ (rcv'.state = "ENDING") = FALSE  BY <1>6, <2>1
    <3> QED  BY <1>0, <1>2, <1>3, <2>1, <3>1, <3>2, <3>3 DEF Holds
  <2>3. FrameInv'  BY <2>2, HoldsAfter
  <2> QED  BY <1>0, <1>3, <2>1, <2>3, HoldsPrefix DEF PreInv, Opening
<1>7. CASE rcv.state = "ENDOFXFER" /\ FrameOk(to("ENDING"))
  <2>1. /\ rcv'.open = rcv.open /\ rcv'.ymodem = rcv.ymodem /\ rcv'.file = rcv.file
        /\ rcv'.state = "ENDING" /\ rcv'.expected = rcv.expected /\ rcv'.at = "frames"
    BY <1>0, <1>4, <1>7, FrameOkKeeps
  <2>2. toR' = Tail(toR)
    <3>1. toR' = AfterHead("EOT")  BY <2>1 DEF receiver_eot
    <3>2. AfterHead("EOT") = Tail(toR)  BY <1>0, <1>1, AfterHeadThins
    <3> QED  BY <3>1, <3>2
  <2>3. Labelled(b) /\ Thinned(toR, toR)  BY <1>0, <1>1, ThinnedReads DEF Labelled
  <2>4. b = toR[1] /\ 1 \in DOMAIN toR /\ b.f \in 1 .. Files /\ b.k \in Nat /\ Shape(b)
    BY <1>0, <2>3, Behind
  <2> HIDE DEF b
  <2>5. b.k = Chunks + 1 /\ b.f = rcv.file
    <3>1. b.k = Chunks + 1  BY <1>1, <2>4 DEF Shape
    <3>2. Within(rcv.file, rcv.state = "ENDING", e, b.f, b.k)  BY <1>3, <2>3, <2>4 DEF Ahead
    <3>3. b.k # 0  BY <3>1, <1>0
    <3> QED  BY <3>1, <3>2, <3>3 DEF Within
  <2>6. ASSUME NEW f \in 1 .. Files, NEW k \in Nat,
               Within(rcv.file, rcv.state = "ENDING", e, f, k), Before(b.f, b.k, f, k)
        PROVE  Within(rcv'.file, rcv'.state = "ENDING", e, f, k)
    BY <1>7, <2>1, <2>5, <2>6 DEF Within
  <2>7. b = Head(toR)  BY DEF b
  <2> QED  BY <1>0, <1>2, <1>3, <2>1, <2>2, <2>3, <2>6, <2>7, HoldsMoves
<1>8. CASE FrameOk(rcv)
  <2>1. rcv.state # "ENDED"  BY <1>3
  <2>2. /\ rcv'.open = rcv.open /\ rcv'.ymodem = rcv.ymodem /\ rcv'.file = rcv.file
        /\ rcv'.state = rcv.state /\ rcv'.expected = rcv.expected /\ rcv'.at = "frames"
    BY <1>0, <1>8, <2>1, FrameOkKeeps
  <2> QED  BY <1>0, <2>2, KeepsSave
<1> QED  BY <1>5, <1>6, <1>7, <1>8 DEF receiver_eot, to

\* A frame is saved only when it is the next block, whatever its number is a remainder of.
LEMMA NextBlock ==
  ASSUME Form, NEW e \in 0 .. Chunks, NEW b, b.t = "body", Shape(b), b.f \in 1 .. Files,
         b.k \in Nat, rcv.ymodem = snd.ymodem, rcv.file \in 1 .. Files,
         rcv.expected = (e + 1) % SeqCount,
         Within(rcv.file, rcv.state = "ENDING", e, b.f, b.k),
         b.k <= Chunks => b.k <= e + SeqCount,
         ~(rcv.ymodem /\ rcv.state = "ENDING" /\ b.seq = 0), b.seq = rcv.expected
  PROVE  /\ b.k = e + 1 /\ b.f = rcv.file /\ e + 1 <= Chunks /\ rcv.state # "ENDING"
         /\ b.data = ChunkData(rcv.file, e + 1)
<1>0. Chunks \in Nat /\ Chunks >= 1 /\ e \in Nat  BY ChunksPositive DEF Form
<1>1. 1 % SeqCount = 1 /\ (0 + 1) % SeqCount = 1  BY SmallRemainder, Sizes
<1>2. b.k # Chunks + 2
  <2> SUFFICES ASSUME b.k = Chunks + 2 PROVE FALSE  OBVIOUS
  <2>1. snd.ymodem /\ b.seq = 0  BY <1>0 DEF Shape
  <2>2. rcv.state = "ENDING"  BY <1>0 DEF Within
  <2> QED  BY <2>1, <2>2
<1>3. b.k # 0
  <2> SUFFICES ASSUME b.k = 0 PROVE FALSE  OBVIOUS
  <2>1. snd.ymodem /\ b.seq = 0  BY <1>0 DEF Shape
  <2>2. rcv.state # "ENDING"  BY <2>1
  <2>3. b.f = rcv.file  BY <2>2 DEF Within
  <2>4. e = 0  BY <1>0, <2>3 DEF Within, Before
  <2>5. rcv.expected = 1  BY <2>4, <1>1
  <2> QED  BY <2>1, <2>5
<1>4. b.k \in 1 .. Chunks /\ b.seq = b.k % SeqCount /\ b.data = ChunkData(b.f, b.k)
  BY <1>0, <1>2, <1>3 DEF Shape
<1>5. b.f = rcv.file /\ e <= b.k /\ rcv.state # "ENDING"
  BY <1>0, <1>3, <1>4 DEF Within, Before
<1>6. b.k <= e + SeqCount  BY <1>4
<1>7. b.k % SeqCount = (e + 1) % SeqCount  BY <1>4
<1>8. b.k # e
  <2> SUFFICES ASSUME b.k = e PROVE FALSE  OBVIOUS
  <2>1. e % SeqCount = (e + 1) % SeqCount  BY <1>7
  <2>2. e + 1 \in Nat /\ e <= e + 1 /\ e + 1 < e + SeqCount  BY <1>0, Sizes
  <2> DEFINE m == e + 1
  <2>3. m \in Nat /\ e <= m /\ m < e + SeqCount /\ e % SeqCount = m % SeqCount  BY <2>1, <2>2
  <2> HIDE DEF m
  <2>4. e \in Nat /\ SeqCount \in Nat /\ SeqCount >= 1  BY <1>0, Sizes
  <2>5. e = m  BY <2>3, <2>4, SameRemainder, Zenon
  <2> QED  BY <1>0, <2>5 DEF m
<1>9. b.k = e + 1
  <2>1. e + 1 \in Nat /\ e + 1 <= b.k /\ b.k < (e + 1) + SeqCount  BY <1>0, <1>5, <1>6, <1>8, Sizes
  <2> DEFINE m == e + 1  k == b.k
  <2>2. /\ m \in Nat /\ k \in Nat /\ m <= k /\ k < m + SeqCount
        /\ m % SeqCount = k % SeqCount
    BY <2>1, <1>7
  <2> HIDE DEF m, k
  <2>4. SeqCount \in Nat /\ SeqCount >= 1  BY Sizes
  <2>3. m = k  BY <2>2, <2>4, SameRemainder, Zenon
  <2> QED  BY <2>3 DEF m, k
<1> QED  BY <1>0, <1>4, <1>5, <1>9

\* A save that does not fail.
LEMMA NoSaveFault == ASSUME Form, faults'.save = 0 PROVE ~SaveFault
<1>1. faults.save \in Nat  BY DEF Form, FaultForm
<1> SUFFICES ASSUME SaveFault PROVE FALSE  OBVIOUS
<1>2. faults' = [faults EXCEPT !.save = faults.save + 1]  BY DEF SaveFault
<1>3. faults'.save = faults.save + 1  BY <1>2 DEF Form, FaultForm
<1> QED  BY <1>1, <1>3

\* The next block is saved.
LEMMA DataSaved ==
  ASSUME Form, rcv.at = "frames", rcv.open, rcv.ymodem = snd.ymodem, rcv.file \in 1 .. Files,
         rcv.state \in {"FILEXFER", "ENDOFXFER"}, NEW e \in Nat, e + 1 <= Chunks,
         saved = Taken(rcv.file, e), rcv.expected = (e + 1) % SeqCount,
         NEW data, data = ChunkData(rcv.file, e + 1), faults'.save = 0, receiver_save_data(data)
  PROVE  /\ saved' = Taken(rcv.file, e + 1)
         /\ rcv'.open /\ rcv'.ymodem = snd.ymodem /\ rcv'.file = rcv.file
         /\ rcv'.state \in {"FILEXFER", "ENDOFXFER"}
         /\ rcv'.expected = ((e + 1) + 1) % SeqCount /\ rcv'.at = "frames"
         /\ rcv'.crc = rcv.crc /\ rcv'.res = rcv.res
         /\ snd.ymodem /\ rcv'.state = "FILEXFER" => Len(saved') < FileLen
<1>0. rcv \in Receivers /\ SndForm /\ rcv.ymodem \in BOOLEAN  BY DEF Form, RcvForm, Receivers
<1> DEFINE keep == SubSeq(data, 1, SaveSize(Len(data)))
           r == [rcv EXCEPT !.expected = (rcv.expected + 1) % SeqCount]
           full == rcv.ymodem /\ Len(saved) + Len(keep) >= FileLen /\ rcv.state = "FILEXFER"
           r2 == [r EXCEPT !.state = IF full THEN "ENDOFXFER" ELSE r.state]
<1>5. /\ saved \o keep = Taken(rcv.file, e + 1) /\ Len(saved) = Cut(e) /\ Len(keep) = Cut(e + 1) - Cut(e)
      /\ Len(Taken(rcv.file, e + 1)) = Cut(e + 1) /\ Cut(e) \in Nat /\ Cut(e + 1) \in Nat
  <2>1. /\ saved \o keep = Taken(rcv.file, e + 1) /\ Len(keep) = Cut(e + 1) - Cut(e)
    BY <1>0, TakenNext
  <2>2. Len(Taken(rcv.file, e)) = Cut(e) /\ Cut(e) \in Nat  BY <1>0, TakenContent
  <2> DEFINE m == e + 1
  <2>3. m \in Nat  OBVIOUS
  <2> HIDE DEF m
  <2>4. Len(Taken(rcv.file, m)) = Cut(m) /\ Cut(m) \in Nat  BY <1>0, <2>3, TakenContent
  <2> QED  BY <2>1, <2>2, <2>4 DEF m
<1>6. saved' = saved \o keep /\ FrameOk(r2)
  <2>1. ~SaveFault  BY NoSaveFault
  <2> QED  BY <2>1 DEF receiver_save_data
<1> HIDE DEF keep, r, full, r2
<1>7. rcv.expected + 1 \in Nat /\ (rcv.expected + 1) % SeqCount = ((e + 1) + 1) % SeqCount
  <2> DEFINE m == e + 1
  <2>1. m \in Nat /\ rcv.expected = m % SeqCount  OBVIOUS
  <2> HIDE DEF m
  <2>0. m \in Nat /\ SeqCount \in Nat /\ SeqCount >= 1  BY <2>1, Sizes
  <2>2. ((m % SeqCount) + 1) % SeqCount = (m + 1) % SeqCount  BY <2>0, NextRemainder, Zenon
  <2>3. rcv.expected \in Nat  BY <1>0, Sizes DEF Receivers
  <2> QED  BY <2>1, <2>2, <2>3 DEF m
<1>8. r \in Receivers /\ r.expected = ((e + 1) + 1) % SeqCount /\ r.open = rcv.open
      /\ r.ymodem = rcv.ymodem /\ r.file = rcv.file /\ r.state = rcv.state /\ r.at = rcv.at
      /\ r.crc = rcv.crc /\ r.res = rcv.res
  <2>1. (rcv.expected + 1) % SeqCount \in 0 .. SeqCount - 1
    <3> DEFINE m == rcv.expected + 1
    <3>1. m \in Nat  BY <1>7
    <3> HIDE DEF m
    <3>0. SeqCount \in Nat /\ SeqCount >= 1  BY Sizes
    <3>2. m % SeqCount \in 0 .. SeqCount - 1  BY <3>0, <3>1, Remainder, Zenon
    <3> QED  BY <3>2 DEF m
  <2> QED  BY <1>0, <1>7, <2>1, ZenonT(60) DEF Receivers, r
<1>9. /\ r2 \in Receivers /\ r2.expected = r.expected /\ r2.open = r.open /\ r2.ymodem = r.ymodem
      /\ r2.file = r.file /\ r2.at = r.at /\ r2.state \in {"FILEXFER", "ENDOFXFER"}
      /\ r2.crc = r.crc /\ r2.res = r.res /\ r2.state = IF full THEN "ENDOFXFER" ELSE r.state
  <2>1. "ENDOFXFER" \in States  BY DEF States
  <2>2. r.state \in {"FILEXFER", "ENDOFXFER"}  BY <1>8
  <2> QED  BY <1>8, <2>1, <2>2, ZenonT(60) DEF Receivers, r2
<1>10. /\ rcv'.open /\ rcv'.ymodem = snd.ymodem /\ rcv'.file = rcv.file
       /\ rcv'.state \in {"FILEXFER", "ENDOFXFER"}
       /\ rcv'.expected = ((e + 1) + 1) % SeqCount /\ rcv'.at = "frames"
       /\ rcv'.crc = rcv.crc /\ rcv'.res = rcv.res /\ rcv'.state = r2.state
  <2>1. r2.state # "ENDED"  BY <1>9
  <2>2. /\ rcv'.open = r2.open /\ rcv'.ymodem = r2.ymodem /\ rcv'.file = r2.file
        /\ rcv'.state = r2.state /\ rcv'.expected = r2.expected /\ rcv'.at = r2.at
        /\ rcv'.crc = r2.crc /\ rcv'.res = r2.res
    BY <1>6, <1>9, <2>1, FrameOkKeeps
  <2> QED  BY <1>8, <1>9, <2>2
<1>11. ASSUME snd.ymodem, rcv'.state = "FILEXFER" PROVE Len(saved') < FileLen
  <2>1. ~full /\ rcv.state = "FILEXFER"  BY <1>8, <1>9, <1>10, <1>11
  <2>2. ~(Len(saved) + Len(keep) >= FileLen)  BY <1>11, <2>1 DEF full
  <2> QED  BY <1>5, <1>6, <2>2, Sizes, SMTT(30)
<1> QED  BY <1>5, <1>6, <1>10, <1>11

\* The next block.
LEMMA DataSave ==
  ASSUME Form, LineInv, rcv.at = "frames", snd' = snd, faults'.save = 0,
         NEW line \in Seq(Atoms), line # <<>>, Thinned(line, toR), NEW b, b = Head(line),
         b.t = "body", rcv'.at # "done" => toR' = Tail(line),
         NEW e \in 0 .. Chunks, Holds(rcv, toR, saved, snd.at, snd.file, SndK, e),
         ~(rcv.ymodem /\ rcv.state = "ENDING" /\ b.seq = 0), b.seq = rcv.expected,
         receiver_save_data(b.data)
  PROVE  PreInv' /\ FrameInv' /\ DoneInv'
<1>0. rcv \in Receivers /\ SndForm /\ Chunks \in Nat /\ e \in Nat /\ Labelled(b)
  BY ChunksPositive DEF Form, RcvForm, Labelled
<1>1. /\ rcv.open /\ rcv.ymodem = snd.ymodem /\ rcv.file \in 1 .. Files
      /\ rcv.state \in {"FILEXFER", "ENDOFXFER", "ENDING"}
      /\ saved = Taken(rcv.file, e) /\ rcv.expected = (e + 1) % SeqCount
      /\ Ahead(toR, rcv.file, rcv.state = "ENDING", e)
  BY DEF Holds
<1>2. b = line[1] /\ 1 \in DOMAIN line /\ b.f \in 1 .. Files /\ b.k \in Nat /\ Shape(b)
  BY <1>0, Behind
<1>3. /\ Within(rcv.file, rcv.state = "ENDING", e, b.f, b.k)
      /\ b.k <= Chunks => b.k <= e + SeqCount
  <2>1. Ahead(line, rcv.file, rcv.state = "ENDING", e)  BY <1>1, ThinnedAhead
  <2> QED  BY <1>0, <1>2, <2>1 DEF Ahead
<1>4. /\ b.k = e + 1 /\ b.f = rcv.file /\ e + 1 <= Chunks /\ rcv.state # "ENDING"
      /\ b.data = ChunkData(rcv.file, e + 1)
  BY <1>1, <1>2, <1>3, NextBlock
<1>10. /\ rcv'.open /\ rcv'.ymodem = snd.ymodem /\ rcv'.file = rcv.file
       /\ rcv'.state \in {"FILEXFER", "ENDOFXFER"} /\ saved' = Taken(rcv.file, e + 1)
       /\ rcv'.expected = ((e + 1) + 1) % SeqCount /\ rcv'.at = "frames"
  <2>1. rcv.state \in {"FILEXFER", "ENDOFXFER"}  BY <1>1, <1>4
  <2> QED  BY <1>0, <1>1, <1>4, <2>1, DataSaved
<1>11. ASSUME NEW f \in 1 .. Files, NEW k \in Nat,
              Within(rcv.file, rcv.state = "ENDING", e, f, k), Before(b.f, b.k, f, k)
       PROVE  /\ Within(rcv'.file, rcv'.state = "ENDING", e + 1, f, k)
              /\ (k <= Chunks => k <= e + SeqCount) => (k <= Chunks => k <= (e + 1) + SeqCount)
  <2>1. (rcv.state = "ENDING") = FALSE /\ (rcv'.state = "ENDING") = FALSE  BY <1>4, <1>10
  <2>2. Within(rcv'.file, rcv'.state = "ENDING", e + 1, f, k)
    BY <1>4, <1>10, <1>11, <2>1 DEF Within
  <2>3. k <= e + SeqCount => k <= (e + 1) + SeqCount  BY <1>0, Sizes
  <2> QED  BY <2>2, <2>3
<1>12. e + 1 \in 0 .. Chunks /\ saved' = Taken(rcv'.file, e + 1) /\ toR' = Tail(line)
       /\ rcv'.file \in 1 .. Files /\ rcv'.state \in {"FILEXFER", "ENDOFXFER", "ENDING"}
  BY <1>0, <1>1, <1>4, <1>10
<1> DEFINE m == e + 1
<1>13. /\ m \in 0 .. Chunks /\ saved' = Taken(rcv'.file, m) /\ rcv'.expected = (m + 1) % SeqCount
       /\ \A f \in 1 .. Files, k \in Nat :
            Within(rcv.file, rcv.state = "ENDING", e, f, k) /\ Before(b.f, b.k, f, k) =>
              /\ Within(rcv'.file, rcv'.state = "ENDING", m, f, k)
              /\ (k <= Chunks => k <= e + SeqCount) => (k <= Chunks => k <= m + SeqCount)
  BY <1>10, <1>11, <1>12
<1> HIDE DEF m
<1> QED  BY <1>0, <1>10, <1>12, <1>13, HoldsMoves

\* The next file of the batch is opened.
LEMMA EndOpens ==
  ASSUME Form, rcv.ymodem = snd.ymodem, faults'.save = 0, NEW b, b.f \in 1 .. Files,
         b.data = InfoData(b.f), b.data # EndData, EndFrame(b)
  PROVE  /\ rcv'.open /\ rcv'.ymodem = snd.ymodem /\ rcv'.file = b.f /\ saved' = Taken(b.f, 0)
         /\ rcv'.state = "FILEXFER" /\ rcv'.at = "frames" /\ rcv'.expected = (0 + 1) % SeqCount
         /\ rcv'.crc = rcv.crc /\ rcv'.res = rcv.res /\ Len(saved') = 0
<1>0. rcv \in Receivers /\ SndForm /\ Chunks \in Nat  BY ChunksPositive DEF Form, RcvForm
<1> DEFINE r == [rcv EXCEPT !.expected = 1, !.open = FALSE]
           r2 == Opened(r, b.data[1][1])
<1>1. b.data[1][1] = b.f
  <2>1. InfoData(b.f)[1][1] = b.f  BY DEF InfoData, Unit
  <2> QED  BY <2>1
<1>2. saved' = <<>> /\ FrameOk(r2)
  <2>1. ~SaveFault  BY NoSaveFault
  <2> QED  BY <2>1 DEF EndFrame
<1>3. r \in Receivers /\ r.ymodem = rcv.ymodem /\ r.expected = 1 /\ r.crc = rcv.crc /\ r.res = rcv.res
  <2>1. 1 \in 0 .. SeqCount - 1  BY Sizes
  <2> QED  BY <1>0, <2>1, ZenonT(60) DEF Receivers
<1> HIDE DEF r
<1>4. /\ r2 \in Receivers /\ r2.open /\ r2.ymodem = rcv.ymodem /\ r2.file = b.f
      /\ r2.expected = 1 /\ r2.state = "FILEXFER" /\ r2.at = "frames"
      /\ r2.crc = rcv.crc /\ r2.res = rcv.res
  <2>1. b.f \in 0 .. Files  BY Sizes
  <2>2. r2 \in Receivers  BY <1>1, <1>3, <2>1, OpenedForm DEF Going
  <2> QED  BY <1>1, <1>3, <2>2, OpenedKeeps
<1> HIDE DEF r2
<1>5. /\ rcv'.open /\ rcv'.ymodem = snd.ymodem /\ rcv'.file = b.f /\ rcv'.expected = 1
      /\ rcv'.state = "FILEXFER" /\ rcv'.at = "frames" /\ rcv'.crc = rcv.crc /\ rcv'.res = rcv.res
  BY <1>2, <1>4, FrameOkKeeps
<1>6. Taken(b.f, 0) = <<>>
  <2>1. 0 * BlockSize = 0 /\ Length \in Nat
    <3>1. BlockSize \in Nat  BY <1>0, ChunksPositive
    <3>2. Length \in Nat
      <4>1. CASE snd.ymodem  BY <1>0, <4>1, BlockBounds, Sizes
      <4>2. CASE ~snd.ymodem
        <5>1. Length = Chunks * BlockSize  BY <1>0, <4>2, BlockBounds
        <5> QED  BY <3>1, <5>1, <1>0
      <4> QED  BY <4>1, <4>2
    <3> QED  BY <3>1, <3>2
  <2>2. Cut(0) = 0  BY <2>1 DEF Cut
  <2>3. Taken(b.f, 0) = [n \in 1 .. 0 |-> IF n <= FileLen THEN Unit(b.f, n) ELSE Pad]
    BY <2>2 DEF Taken
  <2> QED  BY <2>3
<1>7. rcv'.expected = (0 + 1) % SeqCount
  <2>1. 1 % SeqCount = 1  BY SmallRemainder, Sizes
  <2> QED  BY <1>5, <2>1
<1> QED  BY <1>2, <1>5, <1>6, <1>7

\* The next file of the batch.
LEMMA EndSave ==
  ASSUME Form, LineInv, rcv.at = "frames", snd' = snd, faults'.save = 0,
         NEW line \in Seq(Atoms), line # <<>>, Thinned(line, toR), NEW b, b = Head(line),
         b.t = "body", rcv'.at # "done" => toR' = Tail(line),
         NEW e \in 0 .. Chunks, Holds(rcv, toR, saved, snd.at, snd.file, SndK, e),
         rcv.state = "ENDING", EndFrame(b)
  PROVE  PreInv' /\ FrameInv' /\ DoneInv'
<1>0. /\ rcv \in Receivers /\ SndForm /\ Chunks \in Nat /\ Chunks >= 1 /\ e \in Nat /\ Labelled(b)
      /\ (rcv.state = "ENDING") = TRUE
  BY ChunksPositive DEF Form, RcvForm, Labelled
<1>1. /\ rcv.open /\ rcv.ymodem = snd.ymodem /\ rcv.file \in 1 .. Files
      /\ Ahead(toR, rcv.file, rcv.state = "ENDING", e)
  BY DEF Holds
<1>2. b = line[1] /\ 1 \in DOMAIN line /\ b.f \in 1 .. Files /\ b.k \in Nat /\ Shape(b)
  BY <1>0, Behind
<1>3. Within(rcv.file, TRUE, e, b.f, b.k)
  <2>1. Ahead(line, rcv.file, rcv.state = "ENDING", e)  BY <1>1, ThinnedAhead
  <2> QED  BY <1>0, <1>2, <2>1 DEF Ahead
<1>4. CASE b.data = EndData
  <2> DEFINE r == [rcv EXCEPT !.state = "ENDED"]
  <2>1. r \in Receivers /\ r.state = "ENDED"  BY <1>0 DEF Receivers, States
  <2>2. FrameOk(r)  BY <1>4 DEF EndFrame
  <2> HIDE DEF r
  <2>3. rcv'.at = "done" /\ ~rcv'.open  BY <2>1, <2>2, FrameOkKeeps
  <2> QED  BY <2>3, EndsSave
<1>5. CASE b.data # EndData
  <2>1. b.f = rcv.file + 1 /\ b.k = 0
    <3>1. b.k # Chunks + 2  BY <1>0, <1>2, <1>5 DEF Shape
    <3>2. b.k # Chunks + 1  BY <1>0, <1>2 DEF Shape
    <3>3. b.k \in 0 .. Chunks  BY <1>0, <1>2, <3>1, <3>2 DEF Shape
    <3>4. b.f # rcv.file
      <4>1. Before(rcv.file, Chunks + 1, b.f, b.k)  BY <1>3 DEF Within
      <4> QED  BY <1>0, <1>1, <1>2, <3>3, <4>1 DEF Before
    <3> QED  BY <1>3, <3>4 DEF Within
  <2>2. b.data = InfoData(b.f)  BY <1>0, <1>2, <2>1 DEF Shape
  <2>6. /\ rcv'.open /\ rcv'.ymodem = snd.ymodem /\ rcv'.file = b.f /\ saved' = Taken(b.f, 0)
        /\ rcv'.state = "FILEXFER" /\ rcv'.at = "frames" /\ rcv'.expected = (0 + 1) % SeqCount
    BY <1>1, <1>2, <1>5, <2>2, EndOpens
  <2>9. ASSUME NEW f \in 1 .. Files, NEW k \in Nat,
               Within(rcv.file, rcv.state = "ENDING", e, f, k), Before(b.f, b.k, f, k)
        PROVE  /\ Within(rcv'.file, rcv'.state = "ENDING", 0, f, k)
               /\ (k <= Chunks => k <= e + SeqCount) => (k <= Chunks => k <= 0 + SeqCount)
    <3>1. f = rcv.file + 1 /\ k = 0  BY <1>0, <1>1, <2>1, <2>9 DEF Within, Before
    <3>2. (rcv'.state = "ENDING") = FALSE /\ rcv'.file = f  BY <2>1, <2>6, <3>1
    <3>3. Within(f, FALSE, 0, f, 0)  BY <1>0 DEF Within, Before
    <3>4. 0 <= 0 + SeqCount  BY Sizes
    <3> QED  BY <3>1, <3>2, <3>3, <3>4
  <2>10. 0 \in 0 .. Chunks /\ toR' = Tail(line) /\ rcv'.file \in 1 .. Files
         /\ rcv'.state \in {"FILEXFER", "ENDOFXFER", "ENDING"}
    BY <1>0, <1>2, <2>6
  <2>11. saved' = Taken(rcv'.file, 0) /\ rcv'.expected = (0 + 1) % SeqCount  BY <2>6
  <2> QED  BY <1>0, <2>6, <2>9, <2>10, <2>11, HoldsMoves
<1> QED  BY <1>4, <1>5

LEMMA ReceiveSave ==
  ASSUME Form, LineInv, FrameInv, receiver_process_frame, snd' = snd, Thinned(toR', toR),
         faults'.save = 0
  PROVE  PreInv' /\ FrameInv' /\ DoneInv'
<1> DEFINE line == AfterHead("SOH")
<1>0. rcv \in Receivers /\ rcv.at = "frames" /\ SndForm /\ toR # <<>>
  BY DEF Form, RcvForm, receiver_process_frame
<1>1. line \in Seq(Atoms) /\ Thinned(line, toR)  BY <1>0, AfterHeadThins
<1> HIDE DEF line
<1>2. PICK e \in 0 .. Chunks : Holds(rcv, toR, saved, snd.at, snd.file, SndK, e)
  BY <1>0 DEF FrameInv
<1>3. CASE FrameError(rcv, <<"NAK">>) /\ saved' = saved
  BY <1>0, <1>3, FrameErrorKeeps, KeepsSave
<1>4. CASE /\ receiver_verify_frame(line)
           /\ IF rcv.ymodem /\ rcv.state = "ENDING" /\ Head(line).seq = 0
              THEN EndFrame(Head(line)) ELSE DataFrame(Head(line))
           /\ toR' = IF rcv'.at = "done" /\ rcv'.res = "OK" THEN <<>> ELSE Tail(line)
  <2> DEFINE b == Head(line)
  <2>1. line # <<>> /\ b.t = "body" /\ (rcv'.at # "done" => toR' = Tail(line))
    BY <1>4 DEF receiver_verify_frame
  <2>2. b = Head(line)  OBVIOUS
  <2>3. \/ rcv.state = "ENDING" /\ EndFrame(b)
        \/ ~(rcv.ymodem /\ rcv.state = "ENDING" /\ b.seq = 0) /\ DataFrame(b)
    BY <1>4
  <2> HIDE DEF b
  <2>4. CASE rcv.state = "ENDING" /\ EndFrame(b)
    BY <1>0, <1>1, <1>2, <2>1, <2>2, <2>4, EndSave
  <2>5. CASE ~(rcv.ymodem /\ rcv.state = "ENDING" /\ b.seq = 0) /\ DataFrame(b)
    <3>1. CASE b.seq = rcv.expected /\ receiver_save_data(b.data)
      BY <1>0, <1>1, <1>2, <2>1, <2>2, <2>5, <3>1, DataSave
    <3>2. CASE FrameOk(rcv) /\ saved' = saved
      <4>1. rcv.state # "ENDED"  BY <1>2 DEF Holds
      <4> QED  BY <1>0, <3>2, <4>1, FrameOkKeeps, KeepsSave
    <3> QED  BY <2>5, <3>1, <3>2, <1>3 DEF DataFrame
  <2> QED  BY <2>3, <2>4, <2>5
<1> QED  BY <1>3, <1>4 DEF receiver_process_frame, line

LEMMA ReceiverSave ==
  ASSUME Form, LineInv, PreInv, FrameInv, DoneInv, receiver_run, ~apart', faults'.save = 0
  PROVE  PreInv' /\ FrameInv' /\ DoneInv'
<1>1. Thinned(toR', toR)  BY ReceiverThins
<1>2. snd' = snd /\ ~NumberTakenForEot  BY DEF receiver_run
<1>3. CASE receiver_send_request         BY <1>1, <1>2, <1>3, RequestSave
<1>4. CASE receiver_first_byte           BY <1>1, <1>2, <1>4, FirstByteSave
<1>5. CASE receiver_process_first_frame  BY <1>1, <1>2, <1>5, FirstFrameSave
<1>6. CASE receiver_timeout              BY <1>1, <1>2, <1>6, TimeoutSave
<1>7. CASE receiver_eot                  BY <1>1, <1>2, <1>7, EotSave
<1>8. CASE receiver_bad_head             BY <1>1, <1>2, <1>8, BadHeadSave
<1>9. CASE receiver_process_frame        BY <1>1, <1>2, <1>9, ReceiveSave
<1> QED  BY <1>3, <1>4, <1>5, <1>6, <1>7, <1>8, <1>9 DEF receiver_run

-----------------------------------------------------------------------------
(* The invariant.                                                           *)

LEMMA SaveInit == ASSUME Init PROVE SaveInv
<1>1. Form  BY InitForm
<1>2. /\ toR = <<>> /\ toS = <<>> /\ saved = <<>> /\ ~rcv.open /\ ~rcv.ymodem
      /\ rcv.at = "request" /\ snd.at = "handshake" /\ snd.file = 1 /\ snd.chunk = 1
  BY DEF Init
<1>3. LineInv  BY <1>2 DEF LineInv, Shapes, Ordered, SndInv, Sent
<1>4. PreInv  BY <1>2 DEF PreInv
<1>5. FrameInv /\ DoneInv  BY <1>2 DEF FrameInv, DoneInv
<1> QED  BY <1>1, <1>3, <1>4, <1>5 DEF SaveInv

\* Ends that are apart, and a failed save, stay on record.
LEMMA GoodBefore ==
  ASSUME Form, Next, Good'
  PROVE  Good /\ ~apart' /\ faults'.save = 0
<1>1. ~apart' /\ faults'.save = 0  BY DEF Good
<1>2. ~apart  BY <1>1 DEF Next, sender_run, receiver_run, LineFault
<1>3. faults.save = 0
  <2>1. faults \in [line : Nat, save : Nat]  BY DEF Form, FaultForm
  <2>2. CASE sender_run  BY <1>1, <2>2 DEF sender_run
  <2>3. CASE receiver_run
    <3>1. faults' = faults \/ SaveFault
      BY <2>3 DEF receiver_run, receiver_send_request, receiver_first_byte,
         receiver_process_first_frame, FirstInfoFrame, FirstDataFrame, receiver_timeout,
         receiver_eot, receiver_bad_head, receiver_process_frame, EndFrame, DataFrame,
         receiver_save_data, SaveOk
    <3>2. ~SaveFault  BY <1>1, NoSaveFault
    <3> QED  BY <1>1, <3>1, <3>2
  <2>4. CASE LineFault  BY <1>1, <2>1, <2>4 DEF LineFault
  <2> QED  BY <2>2, <2>3, <2>4 DEF Next
<1> QED  BY <1>1, <1>2, <1>3 DEF Good

LEMMA LineStep == ASSUME Form, Form', LineInv, Next PROVE LineInv'
<1>1. CASE sender_run  BY <1>1, SenderLine
<1>2. CASE receiver_run
  <2>1. snd' = snd  BY <1>2 DEF receiver_run
  <2> QED  BY <1>2, <2>1, ReceiverThins, ThinnedLine
<1>3. CASE LineFault
  <2>1. snd' = snd  BY <1>3 DEF LineFault
  <2> QED  BY <1>3, <2>1, FaultThins, ThinnedLine
<1> QED  BY <1>1, <1>2, <1>3 DEF Next

LEMMA SaveStep == SaveInv /\ [Next]_vars => SaveInv'
<1> SUFFICES ASSUME SaveInv, [Next]_vars PROVE SaveInv'  OBVIOUS
<1>1. Form /\ LineInv /\ (Good => PreInv /\ FrameInv /\ DoneInv)  BY DEF SaveInv
<1>2. Form'  BY <1>1, StepForm
<1>3. CASE Next
  <2>1. LineInv'  BY <1>1, <1>2, <1>3, LineStep
  <2>2. ASSUME Good' PROVE PreInv' /\ FrameInv' /\ DoneInv'
    <3>1. Good /\ ~apart' /\ faults'.save = 0  BY <1>1, <1>3, <2>2, GoodBefore
    <3>2. PreInv /\ FrameInv /\ DoneInv  BY <1>1, <3>1
    <3>3. CASE sender_run    BY <1>1, <1>2, <3>1, <3>2, <3>3, SenderSave
    <3>4. CASE receiver_run  BY <1>1, <3>1, <3>2, <3>4, ReceiverSave
    <3>5. CASE LineFault     BY <1>1, <3>2, <3>5, FaultSave
    <3> QED  BY <1>3, <3>3, <3>4, <3>5 DEF Next
  <2> QED  BY <1>2, <2>1, <2>2 DEF SaveInv
<1>4. CASE UNCHANGED vars
  <2>1. /\ toR' = toR /\ toS' = toS /\ snd' = snd /\ rcv' = rcv /\ saved' = saved
        /\ apart' = apart /\ faults' = faults
    BY <1>4 DEF vars
  <2>2. Thinned(toR', toR)  BY <1>1, <2>1, ThinnedReads DEF Form, LineForm
  <2>3. LineInv'  BY <1>1, <2>1, <2>2, ThinnedLine
  <2>4. Good' = Good  BY <2>1 DEF Good
  <2>5. PreInv' = PreInv  BY <2>1 DEF PreInv, Opening, First, Labelled
  <2>6. FrameInv => FrameInv'
    <3>1. SndK' = SndK  BY <2>1 DEF SndK, NumberOf, Chunks
    <3> SUFFICES ASSUME FrameInv, rcv.at = "frames" PROVE FrameInv'  BY <2>1 DEF FrameInv
    <3>2. PICK e \in 0 .. Chunks : Holds(rcv, toR, saved, snd.at, snd.file, SndK, e)
      BY DEF FrameInv
    <3>3. Holds(rcv', toR', saved', snd'.at, snd'.file, SndK', e)  BY <2>1, <3>1, <3>2
    <3> QED  BY <2>1, <3>3, HoldsAfter
  <2>7. DoneInv' = DoneInv
    <3>1. Content(rcv'.file) = Content(rcv.file)'  BY <2>1 DEF Content, File, Chunks, Unit, Pad
    <3>2. Content(rcv'.file) = Content(rcv.file)  BY <2>1
    <3> QED  BY <2>1, <3>1, <3>2 DEF DoneInv
  <2> QED  BY <1>1, <1>2, <2>3, <2>4, <2>5, <2>6, <2>7 DEF SaveInv
<1> QED  BY <1>3, <1>4

LEMMA SaveInvInOrder == SaveInv => SavedInOrder
<1> SUFFICES ASSUME SaveInv, rcv.open, faults.save = 0, ~apart
             PROVE  IsPrefix(saved, Content(rcv.file))
  BY DEF SavedInOrder
<1>1. PreInv /\ FrameInv /\ DoneInv /\ SndForm /\ rcv \in Receivers
  BY DEF SaveInv, Good, Form, RcvForm
<1>2. rcv.at \in {"frames", "done"}  BY <1>1 DEF PreInv, Opening, Receivers
<1>3. CASE rcv.at = "frames"
  <2>1. PICK e \in 0 .. Chunks : saved = Taken(rcv.file, e)  BY <1>1, <1>3 DEF FrameInv, Holds
  <2>2. e \in Nat  BY <1>1, ChunksPositive
  <2>3. IsPrefix(Taken(rcv.file, e), Content(rcv.file))  BY <1>1, <2>2, TakenContent
  <2> QED  BY <2>1, <2>3
<1>4. CASE rcv.at = "done"  BY <1>1, <1>4 DEF DoneInv
<1> QED  BY <1>2, <1>3, <1>4

\* What the save callbacks hold of the open file is a beginning of it, in every
\* behaviour of the two ends and the line in which no save fails and the sender
\* stays within the sequence numbers: receiver_process_frame takes no block
\* twice, out of order or in the place of another one.
THEOREM BlocksStayInOrder == Spec => []SavedInOrder
<1>1. Init => SaveInv  BY SaveInit
<1>2. SaveInv /\ [Next]_vars => SaveInv'  BY SaveStep
<1> QED  BY <1>1, <1>2, SaveInvInOrder, PTL DEF Spec

-----------------------------------------------------------------------------
(* A line without faults.  Its frames are whole and each is followed by a   *)
(* repetition or by its successor, whatever the ends make of their answers: *)
(* a receiver that reads every frame misses none.                           *)

Clean == faults.line = 0 /\ faults.save = 0

Whole(a, crc) == a.t # "junk" /\ (a.t = "body" => a.ok /\ a.crc = crc)
Follows(a, b) ==
  /\ a.t = "head" <=> b.t = "body"
  /\ a.t # "can"
  /\ b.t = "eot" => Adjacent(a.f, a.k, b.f, b.k)
Links(line, crc) ==
  \A i \in DOMAIN line :
    /\ Whole(line[i], crc)
    /\ i + 1 \in DOMAIN line => Follows(line[i], line[i + 1])
    /\ i + 2 \in DOMAIN line /\ line[i + 1].t = "head" =>
         Adjacent(line[i].f, line[i].k, line[i + 2].f, line[i + 2].k)
Chain(line, crc) == Links(line, crc) /\ (line # <<>> => line[Len(line)].t # "head")

\* The last frame on the line is the one that the sender is at.
LastSent(line, at, f, k) == line # <<>> /\ at # "done" =>
  Labelled(line[Len(line)]) /\ line[Len(line)].f = f /\ line[Len(line)].k = k

\* The next frame to read follows number l of file g.
NextIs(line, g, l, at, f, k) ==
  /\ line = <<>> /\ at # "done" => f = g /\ k = l
  /\ line # <<>> => /\ line[1].t # "body"
                    /\ line[1].t = "eot" => Adjacent(g, l, line[1].f, line[1].k)
                    /\ line[1].t = "head" => Adjacent(g, l, line[2].f, line[2].k)

\* A body is at the front only for a receiver that has just read its head.
FirstRead == Opening /\ toR # <<>> /\ toR[1].t = "body" => rcv.at = "first" /\ rcv.head = "SOH"

\* The receiver holds the first e blocks, all of them once it has seen the end.
Exact(r, s, e) ==
  /\ r.open /\ r.ymodem = snd.ymodem /\ r.file \in 1 .. Files /\ r.crc = snd.crc
  /\ r.state \in {"FILEXFER", "ENDOFXFER", "ENDING"}
  /\ s = Taken(r.file, e) /\ r.expected = (e + 1) % SeqCount
  /\ snd.ymodem /\ r.state = "FILEXFER" => Len(s) < FileLen
  /\ r.state = "ENDING" => e = Chunks
Position(state, e) == IF state = "ENDING" THEN Chunks + 1 ELSE e

CleanFrame == rcv.at = "frames" =>
  /\ snd.at # "handshake"
  /\ \E e \in 0 .. Chunks :
       /\ Exact(rcv, saved, e)
       /\ NextIs(toR, rcv.file, Position(rcv.state, e), snd.at, snd.file, SndK)
CleanDone == rcv.res = "OK" => rcv.at = "done" /\ saved = Content(rcv.file)

CleanInv ==
  /\ PreInv /\ Chain(toR, snd.crc) /\ LastSent(toR, snd.at, snd.file, SndK)
  /\ FirstRead /\ CleanFrame /\ CleanDone
WholeInv == Form /\ LineInv /\ (Clean => CleanInv)

\* One more atom.
LEMMA LinkOne ==
  ASSUME NEW line \in Seq(Atoms), NEW a \in Atoms, NEW crc, Links(line, crc), Whole(a, crc),
         line # <<>> => Follows(line[Len(line)], a),
         Len(line) >= 2 /\ line[Len(line)].t = "head" =>
           Adjacent(line[Len(line) - 1].f, line[Len(line) - 1].k, a.f, a.k)
  PROVE  Links(Append(line, a), crc)
<1> DEFINE u == Append(line, a)  n == Len(line)
<1>1. /\ n \in Nat /\ DOMAIN line = 1 .. n /\ DOMAIN u = 1 .. n + 1 /\ u[n + 1] = a
      /\ \A i \in 1 .. n : u[i] = line[i]
  BY AppendProperties, LenProperties
<1>2. n >= 1 => line # <<>>  BY EmptySeq
<1>3. /\ n >= 1 => Follows(line[n], a)
      /\ n >= 2 /\ line[n].t = "head" => Adjacent(line[n - 1].f, line[n - 1].k, a.f, a.k)
  BY <1>2
<1> HIDE DEF u, n
<1>4. ASSUME NEW i \in DOMAIN u
      PROVE  /\ Whole(u[i], crc)
             /\ i + 1 \in DOMAIN u => Follows(u[i], u[i + 1])
             /\ i + 2 \in DOMAIN u /\ u[i + 1].t = "head" =>
                  Adjacent(u[i].f, u[i].k, u[i + 2].f, u[i + 2].k)
  <2>1. CASE i = n + 1
    <3>1. i + 1 \notin DOMAIN u /\ i + 2 \notin DOMAIN u  BY <1>1, <2>1
    <3> QED  BY <1>1, <2>1, <3>1
  <2>2. CASE i = n /\ n >= 1
    <3>1. i \in DOMAIN line /\ u[i] = line[i] /\ u[i + 1] = a /\ i + 2 \notin DOMAIN u  BY <1>1, <2>2
    <3>2. Whole(line[i], crc)  BY <3>1 DEF Links
    <3> QED  BY <1>3, <2>2, <3>1, <3>2
  <2>3. CASE i = n - 1 /\ n >= 2
    <3>1. /\ i \in DOMAIN line /\ i + 1 \in DOMAIN line /\ i + 1 = n /\ u[i] = line[i]
          /\ u[i + 1] = line[i + 1] /\ u[i + 2] = a
      BY <1>1, <2>3
    <3>2. Whole(line[i], crc) /\ Follows(line[i], line[i + 1])  BY <3>1 DEF Links
    <3> QED  BY <1>3, <2>3, <3>1, <3>2
  <2>4. CASE i <= n - 2
    <3>1. /\ i \in DOMAIN line /\ i + 1 \in DOMAIN line /\ i + 2 \in DOMAIN line /\ u[i] = line[i]
          /\ u[i + 1] = line[i + 1] /\ u[i + 2] = line[i + 2]
      BY <1>1, <2>4
    <3> QED  BY <3>1 DEF Links
  <2> QED  BY <1>1, <2>1, <2>2, <2>3, <2>4
<1>5. Links(u, crc)  BY <1>4 DEF Links
<1> QED  BY <1>5 DEF u

\* A line that is read stays a chain.
LEMMA ChainTail ==
  ASSUME NEW line \in Seq(Atoms), line # <<>>, NEW crc, Chain(line, crc), NEW at, NEW f, NEW k,
         LastSent(line, at, f, k)
  PROVE  Chain(Tail(line), crc) /\ LastSent(Tail(line), at, f, k)
<1> DEFINE u == Tail(line)  n == Len(line)
<1>1. /\ n \in Nat /\ n >= 1 /\ DOMAIN line = 1 .. n /\ Len(u) = n - 1 /\ DOMAIN u = 1 .. n - 1
      /\ u \in Seq(Atoms)
  BY HeadTailProperties, LenProperties, EmptySeq
<1>2. \A i \in 1 .. n - 1 : u[i] = line[i + 1]  BY HeadTailProperties, <1>1
<1>3. line[n].t # "head"  BY DEF Chain
<1>4. at # "done" => Labelled(line[n]) /\ line[n].f = f /\ line[n].k = k  BY DEF LastSent
<1> HIDE DEF u, n
<1>5. Links(u, crc)
  <2> SUFFICES ASSUME NEW i \in DOMAIN u
               PROVE  /\ Whole(u[i], crc)
                      /\ i + 1 \in DOMAIN u => Follows(u[i], u[i + 1])
                      /\ i + 2 \in DOMAIN u /\ u[i + 1].t = "head" =>
                           Adjacent(u[i].f, u[i].k, u[i + 2].f, u[i + 2].k)
    BY DEF Links
  <2> DEFINE j == i + 1
  <2>1. j \in DOMAIN line /\ u[i] = line[j]  BY <1>1, <1>2
  <2>2. i + 1 \in DOMAIN u => j + 1 \in DOMAIN line /\ u[i + 1] = line[j + 1]  BY <1>1, <1>2
  <2>3. i + 2 \in DOMAIN u => i + 1 \in DOMAIN u /\ j + 2 \in DOMAIN line /\ u[i + 2] = line[j + 2]
    BY <1>1, <1>2
  <2> HIDE DEF j
  <2>4. /\ Whole(line[j], crc)
        /\ j + 1 \in DOMAIN line => Follows(line[j], line[j + 1])
        /\ j + 2 \in DOMAIN line /\ line[j + 1].t = "head" =>
             Adjacent(line[j].f, line[j].k, line[j + 2].f, line[j + 2].k)
    BY <2>1 DEF Chain, Links
  <2> QED  BY <2>1, <2>2, <2>3, <2>4
<1>6. u # <<>> => u[Len(u)] = line[n]
  <2> SUFFICES ASSUME u # <<>> PROVE u[Len(u)] = line[n]  OBVIOUS
  <2>1. Len(u) # 0  BY <1>1, EmptySeq
  <2> QED  BY <1>1, <1>2, <2>1
<1>7. Chain(u, crc)  BY <1>3, <1>5, <1>6 DEF Chain
<1>8. LastSent(u, at, f, k)  BY <1>4, <1>6 DEF LastSent
<1> QED  BY <1>7, <1>8 DEF u

\* What follows a frame that is read.
LEMMA Consumed ==
  ASSUME NEW line \in Seq(Atoms), line # <<>>, NEW crc, Chain(line, crc), NEW at, NEW f, NEW k,
         LastSent(line, at, f, k), Labelled(line[1])
  PROVE  NextIs(Tail(line), line[1].f, line[1].k, at, f, k)
<1> DEFINE u == Tail(line)  n == Len(line)
<1>1. /\ n \in Nat /\ n >= 1 /\ DOMAIN line = 1 .. n /\ Len(u) = n - 1 /\ u \in Seq(Atoms)
      /\ line[1].t # "head"
  BY HeadTailProperties, LenProperties, EmptySeq DEF Labelled
<1>2. \A i \in 1 .. n - 1 : u[i] = line[i + 1]  BY HeadTailProperties, <1>1
<1>3. line[n].t # "head" /\ Links(line, crc)  BY DEF Chain
<1>4. at # "done" => line[n].f = f /\ line[n].k = k  BY DEF LastSent
<1> HIDE DEF u, n
<1>5. CASE u = <<>>
  <2>1. n = 1  BY <1>1, <1>5, EmptySeq
  <2> QED  BY <1>4, <1>5, <2>1 DEF NextIs, u
<1>6. CASE u # <<>>
  <2>1. n >= 2 /\ u[1] = line[2] /\ 1 \in DOMAIN line /\ 1 + 1 \in DOMAIN line /\ 1 + 1 = 2
    <3>1. Len(u) # 0  BY <1>1, <1>6, EmptySeq
    <3> QED  BY <1>1, <1>2, <3>1
  <2>2. Follows(line[1], line[2])  BY <1>3, <2>1 DEF Links
  <2>3. line[2].t # "body" /\ (line[2].t = "eot" => Adjacent(line[1].f, line[1].k, line[2].f, line[2].k))
    BY <1>1, <2>2 DEF Follows
  <2>4. ASSUME line[2].t = "head"
        PROVE  u[2] = line[3] /\ Adjacent(line[1].f, line[1].k, line[3].f, line[3].k)
    <3>1. n # 2  BY <1>3, <2>4
    <3>2. u[2] = line[3] /\ 1 + 2 \in DOMAIN line /\ 1 + 2 = 3  BY <1>1, <1>2, <2>1, <3>1
    <3> QED  BY <1>3, <2>1, <2>4, <3>2 DEF Links
  <2> QED  BY <1>6, <2>1, <2>3, <2>4 DEF NextIs, u
<1> QED  BY <1>5, <1>6

\* The atoms of a transmission.
Positions == {"handshake", "info", "info_request", "data", "eot", "eot1", "eot2", "end_request",
              "end", "done"}
LEMMA TransmissionIs ==
  ASSUME NEW at \in Positions, NEW f, NEW k, NEW crc
  PROVE  \/ at \in {"handshake", "end_request", "done"} /\ Transmission(at, f, k, crc) = <<>>
         \/ \E b : /\ b.t = "body" /\ b.ok /\ b.crc = crc /\ b.f = f /\ b.k = NumberOf(at, k)
                   /\ at # "done" /\ Transmission(at, f, k, crc) = <<HEAD, b>>
         \/ \E a : /\ a.t = "eot" /\ a.f = f /\ a.k = NumberOf(at, k)
                   /\ at # "done" /\ Transmission(at, f, k, crc) = <<a>>
<1>1. \A seq, data, n : LET b == Body(seq, data, crc, f, n) IN
        b.t = "body" /\ b.ok /\ b.crc = crc /\ b.f = f /\ b.k = n
  BY DEF Body
<1>2. \A n : EOT(f, n).t = "eot" /\ EOT(f, n).f = f /\ EOT(f, n).k = n  BY DEF EOT
<1>3. CASE at \in {"info", "info_request"}
  <2>1. NumberOf(at, k) = 0 /\ at # "done"  BY <1>3 DEF NumberOf
  <2>2. Transmission(at, f, k, crc) = <<HEAD, Body(0, InfoData(f), crc, f, 0)>>
    BY <1>3 DEF Transmission
  <2> QED  BY <1>1, <2>1, <2>2
<1>4. CASE at = "data"
  <2>1. NumberOf(at, k) = k /\ at # "done"  BY <1>4 DEF NumberOf
  <2>2. Transmission(at, f, k, crc) = <<HEAD, Body(k % SeqCount, ChunkData(f, k), crc, f, k)>>
    BY <1>4 DEF Transmission
  <2> QED  BY <1>1, <2>1, <2>2
<1>5. CASE at \in {"eot", "eot1", "eot2"}
  <2>1. NumberOf(at, k) = Chunks + 1 /\ at # "done"  BY <1>5 DEF NumberOf
  <2>2. Transmission(at, f, k, crc) = <<EOT(f, Chunks + 1)>>  BY <1>5 DEF Transmission
  <2> QED  BY <1>2, <2>1, <2>2
<1>6. CASE at = "end"
  <2>1. NumberOf(at, k) = Chunks + 2 /\ at # "done"  BY <1>6 DEF NumberOf
  <2>2. Transmission(at, f, k, crc) = <<HEAD, Body(0, EndData, crc, f, Chunks + 2)>>
    BY <1>6 DEF Transmission
  <2> QED  BY <1>1, <2>1, <2>2
<1>7. CASE at \in {"handshake", "end_request", "done"}  BY <1>7 DEF Transmission
<1> QED  BY <1>3, <1>4, <1>5, <1>6, <1>7 DEF Positions

LEMMA HeadAndCan ==
  HEAD \in Atoms /\ HEAD.t = "head" /\ CAN \in Atoms /\ CAN.t = "can"
  BY DEF HEAD, CAN, Atoms

LEMMA AppendTwo ==
  ASSUME NEW S, NEW s \in Seq(S), NEW a \in S, NEW b \in S
  PROVE  s \o <<a, b>> = Append(Append(s, a), b) /\ s \o <<a>> = Append(s, a)
  OBVIOUS

\* What a step of the sender puts on the line.
LEMMA SenderPuts ==
  ASSUME Form, Form', SndInv, Way
  PROVE  \/ toR' = toR /\ snd'.at \in {"handshake", "info_request", "end_request", "done"}
         \/ toR' = Append(toR, CAN) /\ snd'.at = "done"
         \/ \E b \in Atoms : /\ b.t = "body" /\ b.ok /\ b.crc = snd'.crc /\ b.f = snd'.file
                             /\ b.k = SndK' /\ toR' = Append(Append(toR, HEAD), b)
                             /\ snd'.at # "done"
         \/ \E a \in Atoms : /\ a.t = "eot" /\ a.f = snd'.file /\ a.k = SndK'
                             /\ toR' = Append(toR, a) /\ snd'.at # "done"
<1>0. toR \in Seq(Atoms) /\ snd \in Senders /\ snd' \in Senders /\ SndForm
  BY DEF Form, LineForm, SndForm
<1>1. Goes(snd'.at, snd'.file, snd'.chunk) /\ snd'.ymodem = snd.ymodem  BY WayFacts
<1>2. SndK' = NumberOf(snd'.at, snd'.chunk)  BY <1>1, ChunksFixed DEF SndK, NumberOf
<1>3. CASE snd'.at \in {"handshake", "info_request", "done"} /\ toR' = toR  BY <1>3
<1>4. CASE snd'.at = "done" /\ toR' = toR \o <<CAN>>
  BY <1>0, <1>4, HeadAndCan, AppendTwo
<1>5. CASE toR' = toR \o Transmission(snd'.at, snd'.file, snd'.chunk, snd'.crc)
  <2> DEFINE at == snd'.at  f == snd'.file  k == snd'.chunk  crc == snd'.crc
             x == Transmission(at, f, k, crc)
  <2>1. at \in Positions /\ f \in 1 .. Files /\ k \in Nat \ {0} /\ crc \in 1 .. 2
    BY <1>0 DEF Senders, Positions
  <2>2. toR' = toR \o x /\ SndK' = NumberOf(at, k)  BY <1>2, <1>5
  <2>3. x \in Seq(Atoms)  BY <1>0, <2>1, TransmissionForm
  <2> HIDE DEF at, f, k, crc
  <2>4. \/ at \in {"handshake", "end_request", "done"} /\ x = <<>>
        \/ \E b : /\ b.t = "body" /\ b.ok /\ b.crc = crc /\ b.f = f /\ b.k = NumberOf(at, k)
                  /\ at # "done" /\ x = <<HEAD, b>>
        \/ \E a : /\ a.t = "eot" /\ a.f = f /\ a.k = NumberOf(at, k)
                  /\ at # "done" /\ x = <<a>>
    <3>1. at \in Positions  BY <2>1
    <3> QED  BY <3>1, TransmissionIs
  <2> HIDE DEF x
  <2>5. CASE at \in {"handshake", "end_request", "done"} /\ x = <<>>
    <3>1. toR' = toR  BY <1>0, <2>2, <2>5, ConcatEmptySeq
    <3> QED  BY <2>5, <3>1 DEF at
  <2>6. CASE \E b : /\ b.t = "body" /\ b.ok /\ b.crc = crc /\ b.f = f /\ b.k = NumberOf(at, k)
                    /\ at # "done" /\ x = <<HEAD, b>>
    <3>1. PICK b : /\ b.t = "body" /\ b.ok /\ b.crc = crc /\ b.f = f /\ b.k = NumberOf(at, k)
                   /\ at # "done" /\ x = <<HEAD, b>>
      BY <2>6
    <3>2. b \in Atoms
      <4>1. <<HEAD, b>> \in Seq(Atoms)  BY <2>3, <3>1
      <4>2. <<HEAD, b>>[2] \in Atoms  BY <4>1
      <4> QED  BY <4>2
    <3>3. toR' = Append(Append(toR, HEAD), b)  BY <1>0, <2>2, <3>1, <3>2, HeadAndCan, AppendTwo
    <3> QED  BY <2>2, <3>1, <3>2, <3>3 DEF at, f, crc
  <2>7. CASE \E a : /\ a.t = "eot" /\ a.f = f /\ a.k = NumberOf(at, k)
                    /\ at # "done" /\ x = <<a>>
    <3>1. PICK a : /\ a.t = "eot" /\ a.f = f /\ a.k = NumberOf(at, k)
                   /\ at # "done" /\ x = <<a>>
      BY <2>7
    <3>2. a \in Atoms
      <4>1. <<a>> \in Seq(Atoms)  BY <2>3, <3>1
      <4>2. <<a>>[1] \in Atoms  BY <4>1
      <4> QED  BY <4>2
    <3>3. toR' = Append(toR, a)  BY <1>0, <2>2, <3>1, <3>2, AppendTwo
    <3> QED  BY <2>2, <3>1, <3>2, <3>3 DEF at, f
  <2> QED  BY <2>4, <2>5, <2>6, <2>7
<1> QED  BY <1>1, <1>3, <1>4, <1>5 DEF Goes

\* A frame behind the last one.
LEMMA ChainFrame ==
  ASSUME NEW line \in Seq(Atoms), NEW crc, Chain(line, crc), NEW b \in Atoms,
         b.t = "body", b.ok, b.crc = crc,
         line # <<>> => /\ Labelled(line[Len(line)])
                        /\ Adjacent(line[Len(line)].f, line[Len(line)].k, b.f, b.k)
  PROVE  Chain(Append(Append(line, HEAD), b), crc)
<1> DEFINE u == Append(line, HEAD)  v == Append(u, b)  n == Len(line)
<1>1. /\ u \in Seq(Atoms) /\ n \in Nat /\ Len(u) = n + 1 /\ u[Len(u)] = HEAD /\ HEAD.t = "head"
      /\ n >= 1 => line # <<>> /\ u[Len(u) - 1] = line[Len(line)]
  BY HeadAndCan, AppendProperties, LenProperties, EmptySeq
<1>2. Links(u, crc)
  <2>1. Whole(HEAD, crc)  BY HeadAndCan DEF Whole
  <2>2. line # <<>> => Follows(line[Len(line)], HEAD)
    BY HeadAndCan DEF Follows, Labelled, Chain
  <2>3. line[Len(line)].t = "head" => line = <<>>  BY DEF Chain
  <2>4. Len(line) >= 2 => line # <<>>  BY EmptySeq
  <2> QED  BY <2>1, <2>2, <2>3, <2>4, HeadAndCan, LinkOne DEF Chain
<1> HIDE DEF u
<1>3. Links(v, crc)
  <2>1. Whole(b, crc)  BY DEF Whole
  <2>2. Follows(u[Len(u)], b)  BY <1>1 DEF Follows
  <2>3. Len(u) >= 2 => Adjacent(u[Len(u) - 1].f, u[Len(u) - 1].k, b.f, b.k)  BY <1>1
  <2> QED  BY <1>1, <1>2, <2>1, <2>2, <2>3, LinkOne
<1>4. v[Len(v)] = b  BY <1>1, AppendProperties
<1> HIDE DEF v
<1>5. Chain(v, crc)  BY <1>3, <1>4 DEF Chain
<1> QED  BY <1>5 DEF u, v

\* An EOT or a CAN behind the last frame.
LEMMA ChainByte ==
  ASSUME NEW line \in Seq(Atoms), NEW crc, Chain(line, crc), NEW a \in Atoms,
         a.t \in {"eot", "can"},
         line # <<>> => /\ Labelled(line[Len(line)])
                        /\ a.t = "eot" => Adjacent(line[Len(line)].f, line[Len(line)].k, a.f, a.k)
  PROVE  Chain(Append(line, a), crc)
<1> DEFINE u == Append(line, a)
<1>1. Whole(a, crc)  BY DEF Whole
<1>2. line # <<>> => Follows(line[Len(line)], a)  BY DEF Follows, Labelled, Chain
<1>3. line[Len(line)].t = "head" => line = <<>>  BY DEF Chain
<1>4. Len(line) >= 2 => line # <<>>  BY EmptySeq
<1>5. Links(u, crc)  BY <1>1, <1>2, <1>3, <1>4, LinkOne DEF Chain
<1>6. u[Len(u)] = a  BY AppendProperties
<1> HIDE DEF u
<1>7. Chain(u, crc)  BY <1>5, <1>6 DEF Chain
<1> QED  BY <1>7 DEF u

\* The front of a line that grows.
LEMMA FrontKept ==
  ASSUME NEW s \in Seq(Atoms), NEW a \in Atoms
  PROVE  /\ Append(s, a) \in Seq(Atoms) /\ Append(s, a) # <<>>
         /\ Append(s, a)[Len(Append(s, a))] = a
         /\ s # <<>> => Append(s, a)[1] = s[1]
         /\ Len(s) >= 2 => Append(s, a)[2] = s[2]
         /\ s = <<>> => Append(s, a)[1] = a
<1>1. /\ Append(s, a) \in Seq(Atoms) /\ Len(Append(s, a)) = Len(s) + 1
      /\ Append(s, a)[Len(s) + 1] = a /\ \A i \in 1 .. Len(s) : Append(s, a)[i] = s[i]
  BY AppendProperties
<1>2. Len(s) \in Nat /\ (s = <<>> <=> Len(s) = 0)  BY LenProperties, EmptySeq
<1>3. Append(s, a) # <<>>  BY <1>1, <1>2, EmptySeq
<1> QED  BY <1>1, <1>2, <1>3

\* The line, and the next frame on it, after a step of the sender.
LEMMA SenderChain ==
  ASSUME Form, Form', LineInv, sender_run, Chain(toR, snd.crc),
         LastSent(toR, snd.at, snd.file, SndK)
  PROVE  /\ Chain(toR', snd'.crc) /\ LastSent(toR', snd'.at, snd'.file, SndK')
         /\ toR # <<>> => toR' # <<>> /\ toR'[1] = toR[1]
         /\ toR = <<>> /\ toR' # <<>> => toR'[1].t # "body"
         /\ \A g, l : snd.at # "handshake" /\ NextIs(toR, g, l, snd.at, snd.file, SndK) =>
              NextIs(toR', g, l, snd'.at, snd'.file, SndK')
<1>0. toR \in Seq(Atoms) /\ toR' \in Seq(Atoms) /\ SndInv /\ Sent
  BY DEF Form, LineForm, LineInv
<1>00. Way  BY <1>0, SenderWay
<1>1. /\ snd'.ymodem = snd.ymodem /\ snd.at # "done"
      /\ snd.at # "handshake" /\ snd'.at # "done" => Adjacent(snd.file, SndK, snd'.file, SndK')
      /\ snd'.at \in {"info_request", "end_request"} => snd'.file = snd.file /\ SndK' = SndK
      /\ snd'.at = "handshake" => snd.at = "handshake"
      /\ Goes(snd'.at, snd'.file, snd'.chunk)
  BY <1>0, <1>00, WayFacts
<1>2. Len(toR) \in Nat /\ (toR # <<>> => Len(toR) >= 1 /\ Len(toR) \in DOMAIN toR)
  BY <1>0, LenProperties, EmptySeq
<1>3. snd.at = "handshake" => toR = <<>>
  BY <1>1, <1>2, <1>0 DEF LastSent, Sent
<1>4. snd.at # "handshake" => snd'.crc = snd.crc  BY <1>1 DEF Goes
<1>5. Chain(toR, snd'.crc)
  <2>1. CASE snd.at # "handshake"  BY <1>4, <2>1
  <2>2. CASE snd.at = "handshake"
    <3>1. toR = <<>> /\ DOMAIN <<>> = {}  BY <1>3, <2>2
    <3> QED  BY <3>1 DEF Chain, Links
  <2> QED  BY <2>1, <2>2
<1>6. toR # <<>> => /\ Labelled(toR[Len(toR)]) /\ toR[Len(toR)].f = snd.file
                    /\ toR[Len(toR)].k = SndK /\ snd.at # "handshake"
  BY <1>1, <1>3 DEF LastSent
<1>7. CASE toR' = toR /\ snd'.at \in {"handshake", "info_request", "end_request", "done"}
  <2>1. LastSent(toR', snd'.at, snd'.file, SndK')
    BY <1>1, <1>3, <1>6, <1>7 DEF LastSent
  <2>2. ASSUME NEW g, NEW l, snd.at # "handshake", NextIs(toR, g, l, snd.at, snd.file, SndK)
        PROVE  NextIs(toR', g, l, snd'.at, snd'.file, SndK')
    BY <1>1, <1>7, <2>2 DEF NextIs
  <2> QED  BY <1>5, <1>7, <2>1, <2>2
<1>8. CASE toR' = Append(toR, CAN) /\ snd'.at = "done"
  <2>1. Chain(toR', snd'.crc)  BY <1>0, <1>5, <1>6, <1>8, HeadAndCan, ChainByte
  <2>2. LastSent(toR', snd'.at, snd'.file, SndK')  BY <1>8 DEF LastSent
  <2>3. /\ toR' # <<>> /\ (toR # <<>> => toR'[1] = toR[1]) /\ (Len(toR) >= 2 => toR'[2] = toR[2])
        /\ toR = <<>> => toR'[1] = CAN
    BY <1>0, <1>8, HeadAndCan, FrontKept
  <2>4. ASSUME NEW g, NEW l, NextIs(toR, g, l, snd.at, snd.file, SndK)
        PROVE  NextIs(toR', g, l, snd'.at, snd'.file, SndK')
    <3>1. CASE toR = <<>>  BY <2>3, <3>1, HeadAndCan DEF NextIs
    <3>2. CASE toR # <<>>
      <4>1. toR[1].t = "head" => Len(toR) >= 2
        BY <1>2, <3>2 DEF Chain
      <4> QED  BY <2>3, <2>4, <3>2, <4>1 DEF NextIs
    <3> QED  BY <3>1, <3>2
  <2> QED  BY <2>1, <2>2, <2>3, <2>4, HeadAndCan
<1>9. CASE \E b \in Atoms : /\ b.t = "body" /\ b.ok /\ b.crc = snd'.crc /\ b.f = snd'.file
                            /\ b.k = SndK' /\ toR' = Append(Append(toR, HEAD), b)
                            /\ snd'.at # "done"
  <2>1. PICK b \in Atoms : /\ b.t = "body" /\ b.ok /\ b.crc = snd'.crc /\ b.f = snd'.file
                           /\ b.k = SndK' /\ toR' = Append(Append(toR, HEAD), b)
                           /\ snd'.at # "done"
    BY <1>9
  <2>2. toR # <<>> => Adjacent(snd.file, SndK, b.f, b.k)  BY <1>1, <1>6, <2>1
  <2>3. Chain(toR', snd'.crc)  BY <1>0, <1>5, <1>6, <2>1, <2>2, ChainFrame
  <2> DEFINE u == Append(toR, HEAD)
  <2>4. /\ u \in Seq(Atoms) /\ u # <<>> /\ (toR # <<>> => u[1] = toR[1])
        /\ Len(toR) >= 2 => u[2] = toR[2]
        /\ toR = <<>> => u[1] = HEAD
    BY <1>0, HeadAndCan, FrontKept
  <2>5. Len(u) = Len(toR) + 1  BY <1>0, HeadAndCan, AppendProperties
  <2>6. toR' = Append(u, b)  BY <2>1
  <2> HIDE DEF u
  <2>7. /\ toR' # <<>> /\ toR'[Len(toR')] = b /\ toR'[1] = u[1] /\ (Len(u) >= 2 => toR'[2] = u[2])
    BY <2>4, <2>6, FrontKept
  <2>8. LastSent(toR', snd'.at, snd'.file, SndK')  BY <2>1, <2>7 DEF LastSent, Labelled
  <2>9. ASSUME NEW g, NEW l, snd.at # "handshake", NextIs(toR, g, l, snd.at, snd.file, SndK)
        PROVE  NextIs(toR', g, l, snd'.at, snd'.file, SndK')
    <3>1. CASE toR = <<>>
      <4>1. Len(u) = 1 /\ snd.file = g /\ SndK = l  BY <1>1, <2>5, <2>9, <3>1, EmptySeq DEF NextIs
      <4>2. toR'[2] = b
        <5>1. Append(u, b)[Len(u) + 1] = b  BY <2>4, AppendProperties
        <5>2. Len(u) + 1 = 2  BY <4>1
        <5> QED  BY <2>6, <5>1, <5>2
      <4>3. toR'[1] = HEAD  BY <2>4, <2>7, <3>1
      <4>4. Adjacent(g, l, b.f, b.k)  BY <1>1, <2>1, <2>9, <4>1
      <4> QED  BY <2>7, <4>2, <4>3, <4>4, HeadAndCan DEF NextIs
    <3>2. CASE toR # <<>>
      <4>1. toR[1].t = "head" => Len(toR) >= 2
        BY <1>2, <3>2 DEF Chain
      <4>2. Len(toR) >= 2 => toR'[2] = toR[2]  BY <1>2, <2>4, <2>5, <2>7
      <4> QED  BY <2>4, <2>7, <2>9, <3>2, <4>1, <4>2 DEF NextIs
    <3> QED  BY <3>1, <3>2
  <2>10. toR = <<>> => toR'[1].t # "body"  BY <2>4, <2>7, HeadAndCan
  <2> QED  BY <2>3, <2>4, <2>7, <2>8, <2>9, <2>10
<1>10. CASE \E a \in Atoms : /\ a.t = "eot" /\ a.f = snd'.file /\ a.k = SndK'
                             /\ toR' = Append(toR, a) /\ snd'.at # "done"
  <2>1. PICK a \in Atoms : /\ a.t = "eot" /\ a.f = snd'.file /\ a.k = SndK'
                           /\ toR' = Append(toR, a) /\ snd'.at # "done"
    BY <1>10
  <2>2. toR # <<>> => Adjacent(snd.file, SndK, a.f, a.k)  BY <1>1, <1>6, <2>1
  <2>3. Chain(toR', snd'.crc)  BY <1>0, <1>5, <1>6, <2>1, <2>2, ChainByte
  <2>4. /\ toR' # <<>> /\ toR'[Len(toR')] = a /\ (toR # <<>> => toR'[1] = toR[1])
        /\ (Len(toR) >= 2 => toR'[2] = toR[2]) /\ (toR = <<>> => toR'[1] = a)
    BY <1>0, <2>1, FrontKept
  <2>5. LastSent(toR', snd'.at, snd'.file, SndK')  BY <2>1, <2>4 DEF LastSent, Labelled
  <2>6. ASSUME NEW g, NEW l, snd.at # "handshake", NextIs(toR, g, l, snd.at, snd.file, SndK)
        PROVE  NextIs(toR', g, l, snd'.at, snd'.file, SndK')
    <3>1. CASE toR = <<>>
      <4>1. snd.file = g /\ SndK = l  BY <1>1, <2>6, <3>1 DEF NextIs
      <4>2. Adjacent(g, l, a.f, a.k)  BY <1>1, <2>1, <2>6, <4>1
      <4> QED  BY <2>1, <2>4, <3>1, <4>2 DEF NextIs
    <3>2. CASE toR # <<>>
      <4>1. toR[1].t = "head" => Len(toR) >= 2
        BY <1>2, <3>2 DEF Chain
      <4> QED  BY <2>4, <2>6, <3>2, <4>1 DEF NextIs
    <3> QED  BY <3>1, <3>2
  <2> QED  BY <2>1, <2>3, <2>4, <2>5, <2>6
<1> QED  BY <1>0, <1>00, <1>7, <1>8, <1>9, <1>10, SenderPuts

\* The parts of the invariant after a step that leaves the protocol as it is.
LEMMA CleanAfter ==
  ASSUME snd'.ymodem = snd.ymodem, PreInv', FirstRead', Chain(toR', snd'.crc),
         LastSent(toR', snd'.at, snd'.file, SndK'),
         rcv'.at = "frames" =>
           /\ snd'.at # "handshake" /\ snd'.crc = snd.crc
           /\ \E e \in 0 .. Chunks :
                /\ Exact(rcv', saved', e)
                /\ NextIs(toR', rcv'.file, Position(rcv'.state, e), snd'.at, snd'.file, SndK'),
         rcv'.res = "OK" => rcv'.at = "done" /\ saved' = Content(rcv'.file)
  PROVE  CleanInv'
<1>0. Chunks' = Chunks  BY ChunksFixed
<1>1. Chain(toR, snd.crc)'  BY <1>0 DEF Chain, Links, Whole, Follows, Adjacent
<1>2. LastSent(toR, snd.at, snd.file, SndK)'  BY DEF LastSent, Labelled
<1>3. CleanFrame'
  <2> SUFFICES ASSUME rcv'.at = "frames" PROVE CleanFrame'  BY DEF CleanFrame
  <2>1. PICK e \in 0 .. Chunks :
          /\ Exact(rcv', saved', e)
          /\ NextIs(toR', rcv'.file, Position(rcv'.state, e), snd'.at, snd'.file, SndK')
    OBVIOUS
  <2>2. Taken(rcv'.file, e) = Taken(rcv.file, e)'
    BY <1>0 DEF Taken, Cut, Length, BlockSize, Unit, Pad
  <2>3. Exact(rcv, saved, e)'  BY <1>0, <2>1, <2>2 DEF Exact
  <2>4. NextIs(toR, rcv.file, Position(rcv.state, e), snd.at, snd.file, SndK)'
    BY <1>0, <2>1 DEF NextIs, Adjacent, Position
  <2> QED  BY <1>0, <2>3, <2>4 DEF CleanFrame
<1>4. CleanDone'
  <2>1. Content(rcv'.file) = Content(rcv.file)'  BY <1>0 DEF Content, File, Unit, Pad
  <2> QED  BY <2>1 DEF CleanDone
<1> QED  BY <1>1, <1>2, <1>3, <1>4 DEF CleanInv

LEMMA SenderClean ==
  ASSUME Form, Form', LineInv, sender_run, CleanInv
  PROVE  CleanInv'
<1>0. /\ PreInv /\ Chain(toR, snd.crc) /\ LastSent(toR, snd.at, snd.file, SndK) /\ FirstRead
      /\ CleanFrame /\ CleanDone /\ rcv' = rcv /\ saved' = saved
  BY DEF CleanInv, sender_run
<1>1. /\ Chain(toR', snd'.crc) /\ LastSent(toR', snd'.at, snd'.file, SndK')
      /\ toR # <<>> => toR' # <<>> /\ toR'[1] = toR[1]
      /\ toR = <<>> /\ toR' # <<>> => toR'[1].t # "body"
      /\ \A g, l : snd.at # "handshake" /\ NextIs(toR, g, l, snd.at, snd.file, SndK) =>
           NextIs(toR', g, l, snd'.at, snd'.file, SndK')
  BY <1>0, SenderChain
<1>2. PreInv'  BY <1>0, SenderPre
<1>3. /\ snd'.ymodem = snd.ymodem /\ (snd'.at = "handshake" => snd.at = "handshake")
      /\ snd.at # "handshake" => snd'.crc = snd.crc
  <2>1. Way /\ SndInv  BY SenderWay DEF LineInv
  <2> QED  BY <2>1, WayFacts DEF Goes
<1>4. FirstRead'  BY <1>0, <1>1 DEF FirstRead, Opening
<1>5. rcv'.at = "frames" =>
        /\ snd'.at # "handshake" /\ snd'.crc = snd.crc
        /\ \E e \in 0 .. Chunks :
             /\ Exact(rcv', saved', e)
             /\ NextIs(toR', rcv'.file, Position(rcv'.state, e), snd'.at, snd'.file, SndK')
  BY <1>0, <1>1, <1>3 DEF CleanFrame
<1>6. rcv'.res = "OK" => rcv'.at = "done" /\ saved' = Content(rcv'.file)  BY <1>0 DEF CleanDone
<1> QED  BY <1>1, <1>2, <1>3, <1>4, <1>5, <1>6, CleanAfter

\* The same for a step of the receiver.
LEMMA ReceiverAfter ==
  ASSUME snd' = snd, PreInv', FirstRead', Chain(toR', snd.crc),
         LastSent(toR', snd.at, snd.file, SndK),
         rcv'.at = "frames" =>
           /\ snd.at # "handshake"
           /\ \E e \in 0 .. Chunks :
                /\ Exact(rcv', saved', e)
                /\ NextIs(toR', rcv'.file, Position(rcv'.state, e), snd.at, snd.file, SndK),
         rcv'.res = "OK" => rcv'.at = "done" /\ saved' = Content(rcv'.file)
  PROVE  CleanInv'
<1>1. SndK' = SndK  BY DEF SndK, NumberOf, Chunks
<1> QED  BY <1>1, CleanAfter

LEMMA EmptyChain ==
  ASSUME NEW crc, NEW at, NEW f, NEW k
  PROVE  Chain(<<>>, crc) /\ LastSent(<<>>, at, f, k)
<1>1. DOMAIN <<>> = {}  OBVIOUS
<1> QED  BY <1>1 DEF Chain, Links, LastSent

\* The receiver gives up, or returns with the whole file.
LEMMA ReturnsClean ==
  ASSUME snd' = snd, CleanInv, toR' = <<>>, rcv'.at = "done",
         rcv'.res = "OK" => saved' = Content(rcv'.file)
  PROVE  CleanInv'
<1>1. PreInv' /\ FirstRead'  BY DEF PreInv, FirstRead, Opening
<1>2. Chain(toR', snd.crc) /\ LastSent(toR', snd.at, snd.file, SndK)  BY EmptyChain
<1> QED  BY <1>1, <1>2, ReceiverAfter

\* What the receiver holds does not change with the rest of its state.
LEMMA ExactKept ==
  ASSUME NEW r, NEW q, NEW s, NEW e, Exact(r, s, e), q.open = r.open, q.ymodem = r.ymodem,
         q.file = r.file, q.crc = r.crc, q.state = r.state, q.expected = r.expected
  PROVE  Exact(q, s, e)
  BY DEF Exact

LEMMA RequestClean ==
  ASSUME Form, CleanInv, receiver_send_request, snd' = snd, Thinned(toR', toR)
  PROVE  CleanInv'
<1>0. /\ PreInv /\ Chain(toR, snd.crc) /\ LastSent(toR, snd.at, snd.file, SndK) /\ FirstRead
      /\ CleanDone /\ rcv.at = "request" /\ rcv \in Receivers
  BY DEF CleanInv, receiver_send_request, Form, RcvForm
<1>1. rcv.res # "OK"  BY <1>0 DEF CleanDone
<1>2. PreInv'  BY <1>0, RequestSave
<1> DEFINE crc == IF rcv.crc = 2 /\ rcv.shake >= HandshakeRetry \div 2 THEN 1 ELSE rcv.crc
<1>3. CASE rcv' = [rcv EXCEPT !.at = "wait", !.crc = crc] /\ toR' = toR
  <2>1. rcv'.at = "wait" /\ rcv'.res = rcv.res  BY <1>0, <1>3 DEF Receivers
  <2>2. FirstRead'  BY <1>0, <1>3 DEF FirstRead, Opening
  <2> QED  BY <1>0, <1>1, <1>2, <1>3, <2>1, <2>2, ReceiverAfter
<1>4. CASE rcv' = Return(rcv, "ERR_RETRY") /\ toR' = <<>>
  <2>1. rcv'.at = "done" /\ rcv'.res = "ERR_RETRY"  BY <1>0, <1>4 DEF Return, Receivers
  <2> QED  BY <1>4, <2>1, ReturnsClean
<1> QED  BY <1>3, <1>4 DEF receiver_send_request

\* The first atom of a line without faults.
LEMMA FrontAtom ==
  ASSUME Form, toR # <<>>, Chain(toR, snd.crc), toR[1].t # "body"
  PROVE  /\ Head(toR) = toR[1] /\ 1 \in DOMAIN toR /\ toR \in Seq(Atoms)
         /\ \A c : AfterHead(c) = Tail(toR)
         /\ Tail(toR) \in Seq(Atoms)
         /\ Chain(Tail(toR), snd.crc)
         /\ LastSent(toR, snd.at, snd.file, SndK) => LastSent(Tail(toR), snd.at, snd.file, SndK)
         /\ \/ toR[1].t = "head" /\ HeadClasses(Head(toR)) = {"SOH"}
            \/ toR[1].t = "eot" /\ HeadClasses(Head(toR)) = {"EOT"}
            \/ toR[1].t = "can" /\ HeadClasses(Head(toR)) = {"bad"}
         /\ Tail(toR) # <<>> => (Tail(toR)[1].t = "body" <=> toR[1].t = "head")
         /\ toR[1].t = "head" => Tail(toR) # <<>> /\ Tail(toR)[1] = toR[2]
<1>1. toR \in Seq(Atoms)  BY DEF Form, LineForm
<1>2. /\ Len(toR) \in Nat /\ Len(toR) >= 1 /\ DOMAIN toR = 1 .. Len(toR) /\ Head(toR) = toR[1]
      /\ Tail(toR) \in Seq(Atoms) /\ Len(Tail(toR)) = Len(toR) - 1
  BY <1>1, HeadTailProperties, LenProperties, EmptySeq
<1>3. 1 \in DOMAIN toR /\ toR[1] \in Atoms  BY <1>1, <1>2, Labels
<1>4. Whole(toR[1], snd.crc)  BY <1>3 DEF Chain, Links
<1>5. toR[1].t \in {"head", "eot", "can"}
  <2>1. toR[1].t \in {"head", "eot", "can", "junk", "body"}
    BY <1>3 DEF Atoms, HEAD, CAN, JUNK, Eots, Bodies
  <2> QED  BY <1>4, <2>1 DEF Whole
<1>6. \A c : AfterHead(c) = Tail(toR)  BY <1>2, <1>5, AfterHeadThins
<1>7. /\ Chain(Tail(toR), snd.crc)
      /\ LastSent(toR, snd.at, snd.file, SndK) => LastSent(Tail(toR), snd.at, snd.file, SndK)
  <2>1. Chain(Tail(toR), snd.crc)
    <3>1. LastSent(toR, "done", snd.file, SndK)  BY DEF LastSent
    <3> QED  BY <1>1, <3>1, ChainTail
  <2> QED  BY <1>1, <2>1, ChainTail
<1>8. \/ toR[1].t = "head" /\ HeadClasses(Head(toR)) = {"SOH"}
      \/ toR[1].t = "eot" /\ HeadClasses(Head(toR)) = {"EOT"}
      \/ toR[1].t = "can" /\ HeadClasses(Head(toR)) = {"bad"}
  BY <1>2, <1>5 DEF HeadClasses
<1>9. Tail(toR) # <<>> => Tail(toR)[1] = toR[2] /\ Follows(toR[1], toR[2])
  <2> SUFFICES ASSUME Tail(toR) # <<>> PROVE Tail(toR)[1] = toR[2] /\ Follows(toR[1], toR[2])
    OBVIOUS
  <2>1. Len(Tail(toR)) # 0  BY <1>2, EmptySeq
  <2>2. 1 \in 1 .. Len(toR) - 1 /\ 1 + 1 = 2 /\ 2 \in DOMAIN toR  BY <1>2, <2>1
  <2>3. Tail(toR)[1] = toR[1 + 1]  BY <1>1, <1>2, <2>2, HeadTailProperties
  <2>4. Follows(toR[1], toR[1 + 1])  BY <1>3, <2>2 DEF Chain, Links
  <2> QED  BY <2>2, <2>3, <2>4
<1>10. Tail(toR) # <<>> => (Tail(toR)[1].t = "body" <=> toR[1].t = "head")  BY <1>9 DEF Follows
<1>11. toR[1].t = "head" => Tail(toR) # <<>>
  <2> DEFINE u == Tail(toR)
  <2>1. u \in Seq(Atoms) /\ Len(u) = Len(toR) - 1  BY <1>2
  <2> HIDE DEF u
  <2>2. u = <<>> => Len(toR) = 1
    <3>1. u = <<>> => Len(u) = 0  BY <2>1, EmptySeq
    <3>2. Len(toR) \in Nat  BY <1>2
    <3> QED  BY <2>1, <3>1, <3>2
  <2>3. Len(toR) = 1 => toR[1].t # "head"  BY DEF Chain
  <2> QED  BY <2>2, <2>3 DEF u
<1> QED  BY <1>1, <1>2, <1>3, <1>6, <1>7, <1>8, <1>9, <1>10, <1>11

LEMMA FirstByteClean ==
  ASSUME Form, CleanInv, receiver_first_byte, snd' = snd, Thinned(toR', toR)
  PROVE  CleanInv'
<1>0. /\ PreInv /\ Chain(toR, snd.crc) /\ LastSent(toR, snd.at, snd.file, SndK) /\ FirstRead
      /\ CleanDone /\ rcv \in Receivers /\ Opening
      /\ rcv.at = "wait" \/ (rcv.at = "first" /\ rcv.head # "SOH")
  BY DEF CleanInv, receiver_first_byte, Form, RcvForm, Opening
<1>1. rcv.res # "OK"  BY <1>0 DEF CleanDone, Opening
<1>2. PreInv'  BY <1>0, FirstByteSave
<1>3. CASE toR = <<>> /\ rcv' = [rcv EXCEPT !.at = "request", !.shake = @ + 1] /\ toR' = toR
  <2>1. rcv'.at = "request" /\ rcv'.res = rcv.res  BY <1>0, <1>3 DEF Receivers
  <2>2. FirstRead'  BY <1>3 DEF FirstRead
  <2> QED  BY <1>0, <1>1, <1>2, <1>3, <2>1, <2>2, ReceiverAfter
<1>4. CASE /\ toR # <<>>
           /\ \E c \in HeadClasses(Head(toR)) :
                /\ toR' = AfterHead(c)
                /\ rcv' = [rcv EXCEPT !.at = "first", !.head = c,
                                      !.errors = IF rcv.at = "wait" THEN 0 ELSE @]
  <2>1. PICK c \in HeadClasses(Head(toR)) :
                /\ toR' = AfterHead(c)
                /\ rcv' = [rcv EXCEPT !.at = "first", !.head = c,
                                      !.errors = IF rcv.at = "wait" THEN 0 ELSE @]
    BY <1>4
  <2>2. rcv'.at = "first" /\ rcv'.head = c /\ rcv'.res = rcv.res  BY <1>0, <2>1 DEF Receivers
  <2>3. toR[1].t # "body"  BY <1>0, <1>4 DEF FirstRead
  <2>4. /\ toR' = Tail(toR) /\ Chain(toR', snd.crc) /\ LastSent(toR', snd.at, snd.file, SndK)
        /\ toR' # <<>> /\ toR'[1].t = "body" => c = "SOH"
    BY <1>0, <1>4, <2>1, <2>3, FrontAtom
  <2>5. FirstRead'  BY <2>2, <2>4 DEF FirstRead
  <2> QED  BY <1>1, <1>2, <2>2, <2>4, <2>5, ReceiverAfter
<1> QED  BY <1>3, <1>4 DEF receiver_first_byte

LEMMA FirstFrameClean ==
  ASSUME Form, LineInv, CleanInv, receiver_process_first_frame, snd' = snd, Thinned(toR', toR),
         faults'.save = 0
  PROVE  CleanInv'
<1>0. /\ PreInv /\ Chain(toR, snd.crc) /\ LastSent(toR, snd.at, snd.file, SndK) /\ FirstRead
      /\ CleanDone /\ rcv \in Receivers /\ rcv.at = "first" /\ SndForm
  BY DEF CleanInv, receiver_process_first_frame, Form, RcvForm
<1>1. rcv.res # "OK"  BY <1>0 DEF CleanDone
<1>2. PreInv'  BY <1>0, FirstFrameSave
<1>3. CASE rcv' = FirstFrameFails(rcv, "ERR_CRC") /\ toR' = <<>>
  <2>1. rcv'.at \in {"first", "done"} /\ rcv'.res \in {rcv.res, "ERR_CRC"}
    BY <1>0, <1>3, FirstFailsKeeps
  <2>2. FirstRead'  BY <1>3 DEF FirstRead
  <2>3. Chain(toR', snd.crc) /\ LastSent(toR', snd.at, snd.file, SndK)  BY <1>3, EmptyChain
  <2> QED  BY <1>1, <1>2, <2>1, <2>2, <2>3, ReceiverAfter
<1>4. CASE /\ receiver_verify_frame(toR) /\ toR' = Tail(toR)
           /\ 1 \in DOMAIN toR /\ toR[1].t = "body" /\ toR[1].f = 1 /\ toR[1].k = First
           /\ Opens /\ saved' = Taken(1, First)
  <2>1. toR \in Seq(Atoms) /\ toR # <<>> /\ Head(toR) = toR[1] /\ Labelled(toR[1])
    <3>1. toR \in Seq(Atoms) /\ toR # <<>>  BY <1>4 DEF Form, LineForm, receiver_verify_frame
    <3>2. Head(toR) = toR[1]  BY <3>1, HeadTailProperties
    <3> QED  BY <1>4, <3>1, <3>2 DEF Labelled
  <2>2. Chain(toR', snd.crc) /\ LastSent(toR', snd.at, snd.file, SndK)
    BY <1>0, <1>4, <2>1, ChainTail
  <2>3. NextIs(toR', 1, First, snd.at, snd.file, SndK)  BY <1>0, <1>4, <2>1, Consumed
  <2>4. rcv.crc = snd.crc
    <3>1. Whole(toR[1], snd.crc)  BY <1>0, <1>4 DEF Chain, Links
    <3>2. toR[1].crc = rcv.crc  BY <1>4, <2>1 DEF receiver_verify_frame
    <3> QED  BY <1>4, <3>1, <3>2 DEF Whole
  <2>5. First \in 0 .. Chunks /\ First \in Nat  BY <1>0, ChunksPositive DEF First
  <2>6. snd.ymodem => Len(saved') < FileLen
    <3> SUFFICES ASSUME snd.ymodem PROVE Len(saved') < FileLen  OBVIOUS
    <3>1. First = 0  BY DEF First
    <3>2. Len(saved') = Cut(First) /\ Cut(First) \in Nat /\ Cut(First) <= First * BlockSize
      BY <1>0, <1>4, <2>5, TakenContent
    <3>3. BlockSize \in Nat  BY <1>0, ChunksPositive
    <3>4. First * BlockSize = 0  BY <3>1, <3>3
    <3> QED  BY <3>2, <3>4, Sizes
  <2>7. Exact(rcv', saved', First)
    <3>1. 1 \in 1 .. Files  BY Sizes
    <3> QED  BY <1>4, <2>4, <2>6, <3>1 DEF Exact, Opens
  <2>8. snd.at # "handshake"  BY <1>4, <2>1 DEF LineInv, Sent
  <2>9. /\ rcv'.at = "frames" /\ rcv'.file = 1 /\ rcv'.res = rcv.res
        /\ Position(rcv'.state, First) = First
    BY <1>4 DEF Opens, Position
  <2>10. FirstRead'  BY <2>9 DEF FirstRead, Opening
  <2> QED  BY <1>1, <1>2, <2>2, <2>3, <2>5, <2>7, <2>8, <2>9, <2>10, ReceiverAfter
<1> QED  BY <1>0, <1>3, <1>4, FirstFrame

\* The receiver's frames: where it is, and what it reads next.
LEMMA FramesAt ==
  ASSUME Form, LineInv, CleanInv, rcv.at = "frames"
  PROVE  /\ rcv \in Receivers /\ SndForm /\ rcv.res # "OK" /\ snd.at # "handshake"
         /\ Chain(toR, snd.crc) /\ LastSent(toR, snd.at, snd.file, SndK)
         /\ \E e \in 0 .. Chunks :
              /\ Exact(rcv, saved, e)
              /\ NextIs(toR, rcv.file, Position(rcv.state, e), snd.at, snd.file, SndK)
  BY DEF CleanInv, CleanFrame, CleanDone, Form, RcvForm

\* The receiver goes on where it is, with the line as it is or behind a repetition.
LEMMA StaysClean ==
  ASSUME snd' = snd, snd.at # "handshake", saved' = saved, Chain(toR', snd.crc),
         LastSent(toR', snd.at, snd.file, SndK), NEW e \in 0 .. Chunks, Exact(rcv, saved, e),
         NextIs(toR', rcv.file, Position(rcv.state, e), snd.at, snd.file, SndK),
         rcv'.open = rcv.open, rcv'.ymodem = rcv.ymodem, rcv'.file = rcv.file, rcv'.crc = rcv.crc,
         rcv'.state = rcv.state, rcv'.expected = rcv.expected, rcv'.at \in {"frames", "done"},
         rcv'.res # "OK"
  PROVE  CleanInv'
<1>1. PreInv' /\ FirstRead'  BY DEF PreInv, FirstRead, Opening
<1>2. Exact(rcv', saved', e)  BY ExactKept
<1> QED  BY <1>1, <1>2, ReceiverAfter

LEMMA TimeoutClean ==
  ASSUME Form, LineInv, CleanInv, receiver_timeout, snd' = snd
  PROVE  CleanInv'
<1>0. rcv.at = "frames" /\ saved' = saved /\ toR' = toR /\ FrameError(rcv, <<"NAK">>)
  BY DEF receiver_timeout
<1>1. /\ rcv \in Receivers /\ rcv.res # "OK" /\ snd.at # "handshake"
      /\ Chain(toR, snd.crc) /\ LastSent(toR, snd.at, snd.file, SndK)
  BY <1>0, FramesAt
<1>2. PICK e \in 0 .. Chunks :
        /\ Exact(rcv, saved, e)
        /\ NextIs(toR, rcv.file, Position(rcv.state, e), snd.at, snd.file, SndK)
  BY <1>0, FramesAt
<1>3. /\ rcv'.open = rcv.open /\ rcv'.ymodem = rcv.ymodem /\ rcv'.file = rcv.file
      /\ rcv'.state = rcv.state /\ rcv'.expected = rcv.expected /\ rcv'.at \in {"frames", "done"}
      /\ rcv'.crc = rcv.crc /\ rcv'.res # "OK"
  BY <1>0, <1>1, FrameErrorKeeps
<1> QED  BY <1>0, <1>1, <1>2, <1>3, StaysClean

LEMMA BadHeadClean ==
  ASSUME Form, LineInv, CleanInv, receiver_bad_head, snd' = snd
  PROVE  CleanInv'
<1>1. rcv \in Receivers /\ rcv' = Return(rcv, "ERR_HEAD") /\ toR' = <<>>
  BY DEF receiver_bad_head, Form, RcvForm
<1>2. rcv'.at = "done" /\ rcv'.res = "ERR_HEAD"  BY <1>1 DEF Return, Receivers
<1> QED  BY <1>1, <1>2, ReturnsClean

\* The EOT follows the last block.
LEMMA EotClean ==
  ASSUME Form, LineInv, CleanInv, receiver_eot, snd' = snd
  PROVE  CleanInv'
<1>0. rcv.at = "frames" /\ toR # <<>> /\ saved' = saved /\ "EOT" \in HeadClasses(Head(toR))
  BY DEF receiver_eot
<1>1. /\ rcv \in Receivers /\ SndForm /\ rcv.res # "OK" /\ snd.at # "handshake"
      /\ Chain(toR, snd.crc) /\ LastSent(toR, snd.at, snd.file, SndK)
      /\ Chunks \in Nat /\ Chunks >= 1
  BY <1>0, FramesAt, ChunksPositive
<1>2. PICK e \in 0 .. Chunks :
        /\ Exact(rcv, saved, e)
        /\ NextIs(toR, rcv.file, Position(rcv.state, e), snd.at, snd.file, SndK)
  BY <1>0, FramesAt
<1>3. toR[1].t # "body" /\ (toR[1].t = "eot" => Adjacent(rcv.file, Position(rcv.state, e), toR[1].f, toR[1].k))
  BY <1>0, <1>2 DEF NextIs
<1>4. /\ toR[1].t = "eot" /\ AfterHead("EOT") = Tail(toR) /\ Chain(Tail(toR), snd.crc)
      /\ LastSent(Tail(toR), snd.at, snd.file, SndK) /\ 1 \in DOMAIN toR /\ toR \in Seq(Atoms)
  BY <1>0, <1>1, <1>3, FrontAtom
<1>5. toR[1].k = Chunks + 1 /\ Labelled(toR[1]) /\ toR[1].f \in 1 .. Files
  BY <1>4, Labels DEF LineInv, Shapes, Shape, Labelled
<1>6. /\ rcv.file \in 1 .. Files /\ rcv.state \in {"FILEXFER", "ENDOFXFER", "ENDING"}
      /\ (rcv.state = "ENDING" => e = Chunks) /\ saved = Taken(rcv.file, e)
      /\ rcv.ymodem = snd.ymodem
      /\ snd.ymodem /\ rcv.state = "FILEXFER" => Len(saved) < FileLen
  BY <1>2 DEF Exact
<1>7. e = Chunks /\ toR[1].f = rcv.file
  <2>1. e \in Nat /\ e <= Chunks  BY <1>1
  <2>2. ASSUME rcv.state = "ENDING" PROVE e = Chunks /\ toR[1].f = rcv.file
    <3>1. Position(rcv.state, e) = Chunks + 1  BY <2>2 DEF Position
    <3>2. Adjacent(rcv.file, Chunks + 1, toR[1].f, Chunks + 1)  BY <1>3, <1>4, <1>5, <3>1
    <3>3. Chunks + 1 # 0  BY <1>1
    <3> QED  BY <1>6, <2>2, <3>2, <3>3 DEF Adjacent
  <2>3. ASSUME rcv.state # "ENDING" PROVE e = Chunks /\ toR[1].f = rcv.file
    <3>1. Position(rcv.state, e) = e  BY <2>3 DEF Position
    <3>2. Adjacent(rcv.file, e, toR[1].f, Chunks + 1)  BY <1>3, <1>4, <1>5, <3>1
    <3>3. /\ toR[1].f = rcv.file
          /\ Chunks + 1 = e \/ Chunks + 1 = e + 1
      <4>1. Chunks + 1 # 0  BY <1>1
      <4> QED  BY <3>2, <4>1 DEF Adjacent
    <3> QED  BY <1>1, <2>1, <3>3
  <2> QED  BY <2>2, <2>3
<1>8. NextIs(Tail(toR), rcv.file, Chunks + 1, snd.at, snd.file, SndK)
  BY <1>0, <1>1, <1>4, <1>5, <1>7, Consumed
<1>9. saved = Content(rcv.file)
  <2>1. e \in Nat  BY <1>1
  <2> QED  BY <1>1, <1>6, <1>7, <2>1, TakenContent
<1>10. snd.ymodem => Len(saved) = FileLen
  <2>1. snd.ymodem => Content(rcv.file) = [i \in 1 .. FileLen |-> Unit(rcv.file, i)]
    BY DEF Content, File
  <2>2. Len([i \in 1 .. FileLen |-> Unit(rcv.file, i)]) = FileLen  BY Sizes
  <2> QED  BY <1>9, <2>1, <2>2
<1> DEFINE to(state) == [rcv EXCEPT !.state = state]
<1>11. ASSUME NEW st \in States
       PROVE  to(st) \in Receivers /\ to(st).state = st /\ to(st).file = rcv.file
              /\ to(st).open = rcv.open /\ to(st).ymodem = rcv.ymodem /\ to(st).crc = rcv.crc
              /\ to(st).expected = rcv.expected /\ to(st).res = rcv.res /\ to(st).at = rcv.at
  BY <1>1 DEF Receivers
<1>12. "ENDED" \in States /\ "ENDING" \in States /\ "ENDOFXFER" \in States  BY DEF States
<1> HIDE DEF to
<1>13. toR' = IF rcv'.at = "done" THEN <<>> ELSE Tail(toR)  BY <1>4 DEF receiver_eot
<1>14. \/ FrameOk(to("ENDED"))
       \/ rcv.ymodem /\ rcv.state = "FILEXFER"
       \/ rcv.ymodem /\ rcv.state = "ENDOFXFER" /\ FrameOk(to("ENDING"))
       \/ rcv.ymodem /\ rcv.state = "ENDING" /\ FrameOk(rcv)
  <2>1. \/ ~rcv.ymodem /\ FrameOk(to("ENDED"))
        \/ rcv.ymodem /\ rcv.state = "FILEXFER" /\ FrameOk(to("ENDOFXFER"))
        \/ rcv.ymodem /\ rcv.state = "ENDOFXFER" /\ FrameOk(to("ENDING"))
        \/ rcv.ymodem /\ rcv.state \notin {"FILEXFER", "ENDOFXFER"} /\ FrameOk(rcv)
    BY Zenon DEF receiver_eot, to
  <2> QED  BY <1>6, <2>1
<1>15. CASE FrameOk(to("ENDED"))
  <2>1. rcv'.at = "done" /\ rcv'.file = rcv.file  BY <1>11, <1>12, <1>15, FrameOkKeeps
  <2>2. toR' = <<>> /\ saved' = Content(rcv'.file)  BY <1>0, <1>9, <1>13, <2>1
  <2> QED  BY <2>1, <2>2, ReturnsClean
<1>16. CASE rcv.ymodem /\ rcv.state = "FILEXFER"
  <2>1. snd.ymodem  BY <1>6, <1>16, Zenon
  <2>2. Len(saved) < FileLen  BY <1>6, <1>16, <2>1, Zenon
  <2>3. Len(saved) = FileLen  BY <1>10, <2>1, Zenon
  <2>4. FileLen \in Nat  BY Sizes
  <2> QED  BY <2>2, <2>3, <2>4
<1>17. CASE rcv.ymodem /\ rcv.state = "ENDOFXFER" /\ FrameOk(to("ENDING"))
  <2>1. /\ rcv'.open = rcv.open /\ rcv'.ymodem = rcv.ymodem /\ rcv'.file = rcv.file
        /\ rcv'.state = "ENDING" /\ rcv'.expected = rcv.expected /\ rcv'.at = "frames"
        /\ rcv'.crc = rcv.crc /\ rcv'.res = rcv.res
    <3> DEFINE r == to("ENDING")
    <3>1. /\ r \in Receivers /\ r.state = "ENDING" /\ r.file = rcv.file /\ r.open = rcv.open
          /\ r.ymodem = rcv.ymodem /\ r.crc = rcv.crc /\ r.expected = rcv.expected
          /\ r.res = rcv.res /\ r.at = "frames" /\ FrameOk(r)
      BY <1>0, <1>11, <1>12, <1>17
    <3> HIDE DEF r
    <3> QED  BY <3>1, FrameOkKeeps
  <2>2. Exact(rcv', saved', e)  BY <1>0, <1>2, <1>7, <2>1 DEF Exact
  <2>3. toR' = Tail(toR) /\ Position(rcv'.state, e) = Chunks + 1  BY <1>13, <2>1 DEF Position
  <2>4. PreInv' /\ FirstRead'  BY <2>1 DEF PreInv, FirstRead, Opening
  <2> QED  BY <1>1, <1>4, <1>8, <2>1, <2>2, <2>3, <2>4, ReceiverAfter
<1>18. CASE rcv.ymodem /\ rcv.state = "ENDING" /\ FrameOk(rcv)
  <2>1. /\ rcv'.open = rcv.open /\ rcv'.ymodem = rcv.ymodem /\ rcv'.file = rcv.file
        /\ rcv'.state = rcv.state /\ rcv'.expected = rcv.expected /\ rcv'.at = "frames"
        /\ rcv'.crc = rcv.crc /\ rcv'.res = rcv.res
    BY <1>0, <1>1, <1>18, FrameOkKeeps
  <2>2. toR' = Tail(toR) /\ Position(rcv.state, e) = Chunks + 1
    BY <1>13, <1>18, <2>1 DEF Position
  <2> QED  BY <1>0, <1>1, <1>2, <1>4, <1>8, <2>1, <2>2, StaysClean
<1> QED  BY <1>14, <1>15, <1>16, <1>17, <1>18

\* A frame that arrives is the one of the receiver's position or the next one.
LEMMA FrameArrives ==
  ASSUME Form, LineInv, CleanInv, rcv.at = "frames", toR # <<>>, "SOH" \in HeadClasses(Head(toR)),
         NEW line, line = AfterHead("SOH"), NEW e \in 0 .. Chunks, Exact(rcv, saved, e),
         NextIs(toR, rcv.file, Position(rcv.state, e), snd.at, snd.file, SndK)
  PROVE  /\ receiver_verify_frame(line)
         /\ Head(line).t = "body" /\ Shape(Head(line)) /\ Head(line).f \in 1 .. Files
         /\ Head(line).k \in Nat
         /\ Adjacent(rcv.file, Position(rcv.state, e), Head(line).f, Head(line).k)
         /\ Chain(Tail(line), snd.crc) /\ LastSent(Tail(line), snd.at, snd.file, SndK)
         /\ NextIs(Tail(line), Head(line).f, Head(line).k, snd.at, snd.file, SndK)
<1>1. Chain(toR, snd.crc) /\ LastSent(toR, snd.at, snd.file, SndK) /\ rcv.crc = snd.crc
  BY FramesAt DEF Exact
<1>2. /\ toR[1].t # "body"
      /\ toR[1].t = "head" => Adjacent(rcv.file, Position(rcv.state, e), toR[2].f, toR[2].k)
  BY DEF NextIs
<1>3. /\ toR[1].t = "head" /\ line = Tail(toR) /\ line \in Seq(Atoms) /\ line # <<>>
      /\ Chain(line, snd.crc) /\ LastSent(line, snd.at, snd.file, SndK) /\ line[1] = toR[2]
      /\ line[1].t = "body"
  <2>1. /\ AfterHead("SOH") = Tail(toR) /\ Tail(toR) \in Seq(Atoms)
        /\ Chain(Tail(toR), snd.crc) /\ LastSent(Tail(toR), snd.at, snd.file, SndK)
        /\ Tail(toR) # <<>> => (Tail(toR)[1].t = "body" <=> toR[1].t = "head")
        /\ toR[1].t = "head" => Tail(toR) # <<>> /\ Tail(toR)[1] = toR[2]
    BY <1>1, <1>2, FrontAtom
  <2>2. toR[1].t = "head"
    <3>1. \/ toR[1].t = "head" /\ HeadClasses(Head(toR)) = {"SOH"}
          \/ toR[1].t = "eot" /\ HeadClasses(Head(toR)) = {"EOT"}
          \/ toR[1].t = "can" /\ HeadClasses(Head(toR)) = {"bad"}
      BY <1>1, <1>2, FrontAtom
    <3> QED  BY <3>1
  <2>3. line = Tail(toR)  BY <2>1
  <2> QED  BY <2>1, <2>2, <2>3
<1>4. toR \in Seq(Atoms)  BY DEF Form, LineForm
<1>5. /\ Head(line) = line[1] /\ 1 \in DOMAIN line /\ 2 \in DOMAIN toR
  <2>1. /\ Len(toR) \in Nat /\ DOMAIN toR = 1 .. Len(toR) /\ Len(line) \in Nat
        /\ DOMAIN line = 1 .. Len(line)
    BY <1>3, <1>4, LenProperties
  <2>2. Head(line) = line[1] /\ Len(line) = Len(toR) - 1
    BY <1>3, <1>4, HeadTailProperties
  <2>3. Len(line) # 0  BY <1>3, EmptySeq
  <2> QED  BY <2>1, <2>2, <2>3
<1>6. Labelled(line[1])  BY <1>3 DEF Labelled
<1>7. Shape(Head(line)) /\ Head(line).f \in 1 .. Files /\ Head(line).k \in Nat
  <2>1. Shape(toR[2])  BY <1>5 DEF LineInv, Shapes
  <2>2. line[1].f \in 1 .. Files /\ line[1].k \in Nat  BY <1>3, <1>5, <1>6, Labels
  <2> QED  BY <1>3, <1>5, <2>1, <2>2
<1>8. Whole(line[1], snd.crc)  BY <1>3, <1>5 DEF Chain, Links
<1>9. receiver_verify_frame(line)  BY <1>1, <1>3, <1>5, <1>8 DEF receiver_verify_frame, Whole
<1>10. Chain(Tail(line), snd.crc) /\ LastSent(Tail(line), snd.at, snd.file, SndK)
  BY <1>3, ChainTail
<1>11. NextIs(Tail(line), line[1].f, line[1].k, snd.at, snd.file, SndK)
  BY <1>3, <1>6, Consumed
<1> QED  BY <1>2, <1>3, <1>5, <1>7, <1>9, <1>10, <1>11

\* The end of the batch, and its next file.
LEMMA EndClean ==
  ASSUME Form, CleanInv, rcv.at = "frames", snd' = snd, faults'.save = 0, snd.at # "handshake",
         rcv.res # "OK", NEW b, b.t = "body", Shape(b), b.f \in 1 .. Files, b.k \in Nat,
         Adjacent(rcv.file, Chunks + 1, b.f, b.k), Chain(toR', snd.crc),
         LastSent(toR', snd.at, snd.file, SndK),
         rcv'.at = "frames" => NextIs(toR', b.f, b.k, snd.at, snd.file, SndK),
         rcv'.at = "done" /\ rcv'.res = "OK" => toR' = <<>>,
         Exact(rcv, saved, Chunks), EndFrame(b)
  PROVE  CleanInv'
<1>0. rcv \in Receivers /\ SndForm /\ Chunks \in Nat /\ Chunks >= 1
  BY ChunksPositive DEF Form, RcvForm
<1>1. /\ rcv.ymodem = snd.ymodem /\ rcv.crc = snd.crc /\ rcv.file \in 1 .. Files
      /\ saved = Taken(rcv.file, Chunks)
  BY DEF Exact
<1>2. CASE b.data = EndData
  <2> DEFINE r == [rcv EXCEPT !.state = "ENDED"]
  <2>1. r \in Receivers /\ r.state = "ENDED" /\ r.file = rcv.file  BY <1>0 DEF Receivers, States
  <2>2. FrameOk(r) /\ saved' = saved  BY <1>2 DEF EndFrame
  <2> HIDE DEF r
  <2>3. rcv'.at = "done" /\ rcv'.file = rcv.file  BY <2>1, <2>2, FrameOkKeeps
  <2>4. saved = Content(rcv.file)  BY <1>0, <1>1, TakenContent
  <2>5. PreInv' /\ FirstRead'  BY <2>3 DEF PreInv, FirstRead, Opening
  <2> QED  BY <2>2, <2>3, <2>4, <2>5, ReceiverAfter
<1>3. CASE b.data # EndData
  <2>1. b.k = 0 /\ b.f = rcv.file + 1
    <3>1. b.k # Chunks + 2  BY <1>0, <1>3 DEF Shape
    <3>2. b.k # Chunks + 1  BY <1>0 DEF Shape
    <3>3. (Chunks + 1) + 1 = Chunks + 2  BY <1>0
    <3> QED  BY <3>1, <3>2, <3>3 DEF Adjacent
  <2>2. b.data = InfoData(b.f)  BY <1>0, <2>1 DEF Shape
  <2>3. /\ rcv'.open /\ rcv'.ymodem = snd.ymodem /\ rcv'.file = b.f /\ saved' = Taken(b.f, 0)
        /\ rcv'.state = "FILEXFER" /\ rcv'.at = "frames" /\ rcv'.expected = (0 + 1) % SeqCount
        /\ rcv'.crc = rcv.crc /\ rcv'.res = rcv.res /\ Len(saved') = 0
    BY <1>1, <1>3, <2>2, EndOpens
  <2>4. 0 < FileLen /\ 0 \in 0 .. Chunks  BY <1>0, Sizes
  <2>5. Len(saved') < FileLen  BY <2>3, <2>4
  <2>6. Exact(rcv', saved', 0)
    <3>1. rcv'.crc = snd.crc /\ rcv'.file \in 1 .. Files /\ rcv'.state # "ENDING"  BY <1>1, <2>3
    <3>2. rcv'.state \in {"FILEXFER", "ENDOFXFER", "ENDING"}  BY <2>3
    <3>3. saved' = Taken(rcv'.file, 0)  BY <2>3
    <3> QED  BY <2>3, <2>5, <3>1, <3>2, <3>3, Zenon DEF Exact
  <2>7. Position(rcv'.state, 0) = 0  BY <2>3 DEF Position
  <2>8. NextIs(toR', rcv'.file, Position(rcv'.state, 0), snd.at, snd.file, SndK)
    BY <2>1, <2>3, <2>7
  <2>9. PreInv' /\ FirstRead'  BY <2>3 DEF PreInv, FirstRead, Opening
  <2>10. rcv'.res # "OK"  BY <2>3
  <2> QED  BY <2>4, <2>6, <2>8, <2>9, <2>10, ReceiverAfter
<1> QED  BY <1>2, <1>3

\* A data frame is the next block, or a repetition of the last one.
LEMMA BlockClean ==
  ASSUME Form, CleanInv, rcv.at = "frames", snd' = snd, faults'.save = 0, snd.at # "handshake",
         rcv.res # "OK", NEW b, b.t = "body", Shape(b), b.f \in 1 .. Files, b.k \in Nat,
         NEW e \in 0 .. Chunks, rcv.state # "ENDING", Adjacent(rcv.file, e, b.f, b.k),
         NEW rest, Chain(rest, snd.crc), LastSent(rest, snd.at, snd.file, SndK),
         NextIs(rest, b.f, b.k, snd.at, snd.file, SndK),
         ~(rcv'.at = "done" /\ rcv'.res = "OK") => toR' = rest,
         Exact(rcv, saved, e), DataFrame(b)
  PROVE  CleanInv'
<1>0. /\ rcv \in Receivers /\ SndForm /\ Chunks \in Nat /\ Chunks >= 1 /\ e \in Nat /\ e <= Chunks
      /\ SeqCount \in Nat \ {0}
  BY ChunksPositive, Sizes DEF Form, RcvForm
<1>1. /\ rcv.open /\ rcv.ymodem = snd.ymodem /\ rcv.crc = snd.crc /\ rcv.file \in 1 .. Files
      /\ rcv.state \in {"FILEXFER", "ENDOFXFER"}
      /\ saved = Taken(rcv.file, e) /\ rcv.expected = (e + 1) % SeqCount
  BY DEF Exact
<1>2. b.f = rcv.file /\ (b.k = e \/ b.k = e + 1)
  <2>1. e # Chunks + 1  BY <1>0
  <2> QED  BY <2>1 DEF Adjacent
<1>3. Position(rcv.state, e) = e  BY DEF Position
<1>4. CASE b.seq = rcv.expected /\ receiver_save_data(b.data)
  <2>1. /\ Within(rcv.file, rcv.state = "ENDING", e, b.f, b.k)
        /\ b.k <= Chunks => b.k <= e + SeqCount
    <3>1. (rcv.state = "ENDING") = FALSE  OBVIOUS
    <3>2. e <= b.k /\ b.k <= e + SeqCount  BY <1>0, <1>2
    <3>3. Before(rcv.file, e, b.f, b.k)  BY <1>2, <3>2 DEF Before
    <3>4. b.k # Chunks + 2  BY <1>0, <1>2
    <3>5. Within(rcv.file, FALSE, e, b.f, b.k)  BY <1>2, <3>3, <3>4 DEF Within
    <3> QED  BY <3>1, <3>2, <3>5
  <2>2. /\ b.k = e + 1 /\ b.f = rcv.file /\ e + 1 <= Chunks /\ rcv.state # "ENDING"
        /\ b.data = ChunkData(rcv.file, e + 1)
    BY <1>1, <1>4, <2>1, NextBlock
  <2>3. /\ saved' = Taken(rcv.file, e + 1)
        /\ rcv'.open /\ rcv'.ymodem = snd.ymodem /\ rcv'.file = rcv.file
        /\ rcv'.state \in {"FILEXFER", "ENDOFXFER"}
        /\ rcv'.expected = ((e + 1) + 1) % SeqCount /\ rcv'.at = "frames"
        /\ rcv'.crc = rcv.crc /\ rcv'.res = rcv.res
        /\ snd.ymodem /\ rcv'.state = "FILEXFER" => Len(saved') < FileLen
    BY <1>0, <1>1, <1>4, <2>2, DataSaved
  <2> DEFINE m == e + 1
  <2>4. /\ m \in 0 .. Chunks /\ saved' = Taken(rcv'.file, m)
        /\ rcv'.expected = (m + 1) % SeqCount /\ b.k = m
    BY <1>0, <2>2, <2>3
  <2> HIDE DEF m
  <2>5. Exact(rcv', saved', m)
    <3>1. /\ rcv'.crc = snd.crc /\ rcv'.file \in 1 .. Files /\ rcv'.state # "ENDING"
          /\ rcv'.state \in {"FILEXFER", "ENDOFXFER", "ENDING"}
      BY <1>1, <2>3
    <3> QED  BY <2>3, <2>4, <3>1, Zenon DEF Exact
  <2>6. Position(rcv'.state, m) = m  BY <2>3 DEF Position
  <2>7. toR' = rest /\ rcv'.res # "OK"  BY <2>3
  <2>8. NextIs(toR', rcv'.file, Position(rcv'.state, m), snd.at, snd.file, SndK)
    BY <2>2, <2>3, <2>4, <2>6, <2>7
  <2>9. PreInv' /\ FirstRead'  BY <2>3 DEF PreInv, FirstRead, Opening
  <2> QED  BY <2>4, <2>5, <2>7, <2>8, <2>9, ReceiverAfter
<1>5. CASE b.seq # rcv.expected /\ saved' = saved /\ (FrameOk(rcv) \/ FrameError(rcv, <<"NAK">>))
  <2>1. b.k = e
    <3> SUFFICES ASSUME b.k = e + 1 PROVE FALSE  BY <1>2
    <3>1. b.k # 0 /\ b.k # Chunks + 2  BY <1>0
    <3>2. b.seq = b.k % SeqCount  BY <3>1 DEF Shape
    <3> QED  BY <1>1, <1>5, <3>2
  <2>2. rcv.state # "ENDED"  BY <1>1
  <2>3. /\ rcv'.open = rcv.open /\ rcv'.ymodem = rcv.ymodem /\ rcv'.file = rcv.file
        /\ rcv'.state = rcv.state /\ rcv'.expected = rcv.expected /\ rcv'.at \in {"frames", "done"}
        /\ rcv'.crc = rcv.crc /\ rcv'.res # "OK"
    <3>1. CASE FrameOk(rcv)  BY <1>0, <2>2, <3>1, FrameOkKeeps
    <3>2. CASE FrameError(rcv, <<"NAK">>)  BY <1>0, <3>2, FrameErrorKeeps
    <3> QED  BY <1>5, <3>1, <3>2
  <2>4. toR' = rest  BY <2>3
  <2>5. NextIs(toR', rcv.file, Position(rcv.state, e), snd.at, snd.file, SndK)
    BY <1>2, <1>3, <2>1, <2>4
  <2> QED  BY <1>5, <2>3, <2>4, <2>5, StaysClean
<1>6. (rcv.expected + SeqCount - 1) % SeqCount # rcv.expected
  <2>1. SeqCount >= 2  BY Sizes
  <2>2. (((e + 1) % SeqCount) + SeqCount - 1) % SeqCount = e % SeqCount
    <3>1. SeqCount \in Nat /\ SeqCount >= 1  BY Sizes
    <3> QED  BY <1>0, <3>1, PreviousRemainder, Zenon
  <2>3. e % SeqCount # (e + 1) % SeqCount
    <3>1. e + 1 \in Nat /\ e <= e + 1 /\ e + 1 < e + SeqCount /\ e # e + 1 /\ SeqCount \in Nat
          /\ SeqCount >= 1
      BY <1>0, <2>1
    <3> QED  BY <1>0, <3>1, SameRemainder, Zenon
  <2> QED  BY <1>1, <2>2, <2>3
<1>7. \/ b.seq = rcv.expected /\ receiver_save_data(b.data)
      \/ /\ b.seq # rcv.expected /\ saved' = saved
         /\ FrameOk(rcv) \/ FrameError(rcv, <<"NAK">>)
  <2> DEFINE last == (rcv.expected + SeqCount - 1) % SeqCount
  <2>1. DataFrame(b) <=>
          CASE b.seq = rcv.expected -> receiver_save_data(b.data)
            [] b.seq = last ->
                 FrameOk(rcv) /\ Answer(<<"ACK">>) /\ UNCHANGED <<saved, faults>>
            [] OTHER -> FrameError(rcv, <<"NAK">>) /\ UNCHANGED <<saved, faults>>
    BY DEF DataFrame
  <2>2. last # rcv.expected  BY <1>6
  <2> HIDE DEF last
  <2> QED  BY <2>1, <2>2
<1> QED  BY <1>4, <1>5, <1>7

LEMMA ReceiveClean ==
  ASSUME Form, LineInv, CleanInv, receiver_process_frame, snd' = snd, faults'.save = 0
  PROVE  CleanInv'
<1> DEFINE line == AfterHead("SOH")
           b    == Head(line)
<1>0. rcv.at = "frames" /\ toR # <<>> /\ "SOH" \in HeadClasses(Head(toR))
  BY DEF receiver_process_frame
<1>1. /\ rcv.res # "OK" /\ snd.at # "handshake" /\ Chunks \in Nat /\ Chunks >= 1
  BY <1>0, FramesAt, ChunksPositive
<1>2. PICK e \in 0 .. Chunks :
        /\ Exact(rcv, saved, e)
        /\ NextIs(toR, rcv.file, Position(rcv.state, e), snd.at, snd.file, SndK)
  BY <1>0, FramesAt
<1>3. line = AfterHead("SOH") /\ b = Head(line)  OBVIOUS
<1>4. \/ ~receiver_verify_frame(line)
      \/ /\ receiver_verify_frame(line)
         /\ IF rcv.ymodem /\ rcv.state = "ENDING" /\ b.seq = 0 THEN EndFrame(b) ELSE DataFrame(b)
         /\ toR' = IF rcv'.at = "done" /\ rcv'.res = "OK" THEN <<>> ELSE Tail(line)
  BY Zenon DEF receiver_process_frame
<1> HIDE DEF b, line
<1>5. /\ receiver_verify_frame(line)
      /\ b.t = "body" /\ Shape(b) /\ b.f \in 1 .. Files /\ b.k \in Nat
      /\ Adjacent(rcv.file, Position(rcv.state, e), b.f, b.k)
      /\ Chain(Tail(line), snd.crc) /\ LastSent(Tail(line), snd.at, snd.file, SndK)
      /\ NextIs(Tail(line), b.f, b.k, snd.at, snd.file, SndK)
  BY <1>0, <1>2, <1>3, FrameArrives
<1>6. /\ IF rcv.ymodem /\ rcv.state = "ENDING" /\ b.seq = 0 THEN EndFrame(b) ELSE DataFrame(b)
      /\ toR' = IF rcv'.at = "done" /\ rcv'.res = "OK" THEN <<>> ELSE Tail(line)
  BY <1>4, <1>5
<1>7. CASE rcv.state = "ENDING"
  <2>1. Adjacent(rcv.file, Chunks + 1, b.f, b.k) /\ e = Chunks /\ rcv.ymodem = snd.ymodem
    BY <1>2, <1>5, <1>7, Zenon DEF Exact, Position
  <2>2. snd.ymodem /\ b.seq = 0
    <3>1. b.k \notin 1 .. Chunks  BY <1>1, <2>1 DEF Adjacent
    <3> QED  BY <1>5, <3>1 DEF Shape
  <2>3. EndFrame(b)
    <3>1. rcv.ymodem  BY <2>1, <2>2, Zenon
    <3> QED  BY <1>6, <1>7, <2>2, <3>1, Zenon
  <2>4. Exact(rcv, saved, Chunks)  BY <1>2, <2>1
  <2>5. Chain(toR', snd.crc) /\ LastSent(toR', snd.at, snd.file, SndK)
    BY <1>5, <1>6, EmptyChain
  <2>6. /\ rcv'.at = "frames" => NextIs(toR', b.f, b.k, snd.at, snd.file, SndK)
        /\ rcv'.at = "done" /\ rcv'.res = "OK" => toR' = <<>>
    BY <1>5, <1>6
  <2> QED  BY <1>0, <1>1, <1>5, <2>1, <2>3, <2>4, <2>5, <2>6, EndClean
<1>8. CASE rcv.state # "ENDING"
  <2>1. Adjacent(rcv.file, e, b.f, b.k)  BY <1>5, <1>8 DEF Position
  <2>2. DataFrame(b)  BY <1>6, <1>8
  <2>3. ~(rcv'.at = "done" /\ rcv'.res = "OK") => toR' = Tail(line)  BY <1>6
  <2> DEFINE rest == Tail(line)
  <2>4. /\ Chain(rest, snd.crc) /\ LastSent(rest, snd.at, snd.file, SndK)
        /\ NextIs(rest, b.f, b.k, snd.at, snd.file, SndK)
        /\ ~(rcv'.at = "done" /\ rcv'.res = "OK") => toR' = rest
    BY <1>5, <2>3
  <2> HIDE DEF rest
  <2> QED  BY <1>0, <1>1, <1>2, <1>5, <1>8, <2>1, <2>2, <2>4, BlockClean
<1> QED  BY <1>7, <1>8

LEMMA ReceiverClean ==
  ASSUME Form, LineInv, CleanInv, receiver_run, faults'.save = 0
  PROVE  CleanInv'
<1>1. Thinned(toR', toR)  BY ReceiverThins
<1>2. snd' = snd  BY DEF receiver_run
<1>3. CASE receiver_send_request         BY <1>1, <1>2, <1>3, RequestClean
<1>4. CASE receiver_first_byte           BY <1>1, <1>2, <1>4, FirstByteClean
<1>5. CASE receiver_process_first_frame  BY <1>1, <1>2, <1>5, FirstFrameClean
<1>6. CASE receiver_timeout              BY <1>2, <1>6, TimeoutClean
<1>7. CASE receiver_eot                  BY <1>2, <1>7, EotClean
<1>8. CASE receiver_bad_head             BY <1>2, <1>8, BadHeadClean
<1>9. CASE receiver_process_frame        BY <1>2, <1>9, ReceiveClean
<1> QED  BY <1>3, <1>4, <1>5, <1>6, <1>7, <1>8, <1>9 DEF receiver_run

LEMMA CleanInit == ASSUME Init PROVE WholeInv
<1>1. Form /\ LineInv /\ PreInv
  <2>1. SaveInv /\ ~apart /\ faults.save = 0  BY SaveInit DEF Init
  <2> QED  BY <2>1 DEF SaveInv, Good
<1>2. toR = <<>> /\ rcv.at = "request" /\ rcv.res = "none"  BY DEF Init
<1>3. FirstRead /\ CleanFrame /\ CleanDone  BY <1>2 DEF FirstRead, CleanFrame, CleanDone
<1>4. Chain(toR, snd.crc) /\ LastSent(toR, snd.at, snd.file, SndK)  BY <1>2, EmptyChain
<1> QED  BY <1>1, <1>3, <1>4 DEF WholeInv, CleanInv

\* Faults stay on record.
LEMMA CleanBefore ==
  ASSUME Form, Next, Clean'
  PROVE  Clean /\ faults'.save = 0 /\ ~LineFault
<1>1. faults'.line = 0 /\ faults'.save = 0  BY DEF Clean
<1>2. faults \in [line : Nat, save : Nat]  BY DEF Form, FaultForm
<1>3. ~LineFault
  <2> SUFFICES ASSUME LineFault PROVE FALSE  OBVIOUS
  <2>1. faults'.line = faults.line + 1 /\ faults.line \in Nat  BY <1>2 DEF LineFault
  <2> QED  BY <1>1, <2>1
<1>4. faults' = faults
  <2>1. CASE sender_run  BY <2>1 DEF sender_run
  <2>2. CASE receiver_run
    <3>1. faults' = faults \/ SaveFault
      BY <2>2 DEF receiver_run, receiver_send_request, receiver_first_byte,
         receiver_process_first_frame, FirstInfoFrame, FirstDataFrame, receiver_timeout,
         receiver_eot, receiver_bad_head, receiver_process_frame, EndFrame, DataFrame,
         receiver_save_data, SaveOk
    <3>2. ~SaveFault  BY <1>1, NoSaveFault
    <3> QED  BY <3>1, <3>2
  <2> QED  BY <1>3, <2>1, <2>2 DEF Next
<1> QED  BY <1>1, <1>3, <1>4 DEF Clean

LEMMA CleanStep == WholeInv /\ [Next]_vars => WholeInv'
<1> SUFFICES ASSUME WholeInv, [Next]_vars PROVE WholeInv'  OBVIOUS
<1>1. Form /\ LineInv /\ (Clean => CleanInv)  BY DEF WholeInv
<1>2. Form'  BY <1>1, StepForm
<1>3. CASE Next
  <2>1. LineInv'  BY <1>1, <1>2, <1>3, LineStep
  <2>2. ASSUME Clean' PROVE CleanInv'
    <3>1. Clean /\ faults'.save = 0 /\ ~LineFault  BY <1>1, <1>3, <2>2, CleanBefore
    <3>2. CleanInv  BY <1>1, <3>1
    <3>3. CASE sender_run    BY <1>1, <1>2, <3>2, <3>3, SenderClean
    <3>4. CASE receiver_run  BY <1>1, <3>1, <3>2, <3>4, ReceiverClean
    <3> QED  BY <1>3, <3>1, <3>3, <3>4 DEF Next
  <2> QED  BY <1>2, <2>1, <2>2 DEF WholeInv
<1>4. CASE UNCHANGED vars
  <2>1. /\ toR' = toR /\ toS' = toS /\ snd' = snd /\ rcv' = rcv /\ saved' = saved
        /\ apart' = apart /\ faults' = faults
    BY <1>4 DEF vars
  <2>2. Thinned(toR', toR)  BY <1>1, <2>1, ThinnedReads DEF Form, LineForm
  <2>3. LineInv'  BY <1>1, <2>1, <2>2, ThinnedLine
  <2>4. Clean' = Clean  BY <2>1 DEF Clean
  <2>5. ASSUME CleanInv PROVE CleanInv'
    <3>1. /\ PreInv /\ Chain(toR, snd.crc) /\ LastSent(toR, snd.at, snd.file, SndK) /\ FirstRead
          /\ CleanFrame /\ CleanDone
      BY <2>5 DEF CleanInv
    <3>2. PreInv'  BY <2>1, <3>1 DEF PreInv, Opening, First, Labelled
    <3>3. FirstRead'  BY <2>1, <3>1 DEF FirstRead, Opening
    <3>4. rcv'.at = "frames" =>
            /\ snd.at # "handshake"
            /\ \E e \in 0 .. Chunks :
                 /\ Exact(rcv', saved', e)
                 /\ NextIs(toR', rcv'.file, Position(rcv'.state, e), snd.at, snd.file, SndK)
      BY <2>1, <3>1 DEF CleanFrame
    <3>5. rcv'.res = "OK" => rcv'.at = "done" /\ saved' = Content(rcv'.file)
      BY <2>1, <3>1 DEF CleanDone
    <3>6. Chain(toR', snd.crc) /\ LastSent(toR', snd.at, snd.file, SndK)  BY <2>1, <3>1
    <3> QED  BY <2>1, <3>2, <3>3, <3>4, <3>5, <3>6, ReceiverAfter
  <2> QED  BY <1>1, <1>2, <2>3, <2>4, <2>5 DEF WholeInv
<1> QED  BY <1>3, <1>4

\* A receiver that returns MY_YMODEM_OK holds the whole of its file, in every
\* behaviour in which the line and the save callbacks are intact: however early
\* the timeouts of the two ends fire, and however many copies of a frame and of
\* an answer they put on the line, no repeated frame or EOT makes
\* receiver_process_frame count a block, or end the transfer, too early.
THEOREM OkMeansComplete == Spec => []OkComplete
<1>1. Init => WholeInv  BY CleanInit
<1>2. WholeInv /\ [Next]_vars => WholeInv'  BY CleanStep
<1>3. WholeInv => OkComplete  BY DEF WholeInv, Clean, CleanInv, CleanDone, OkComplete
<1> QED  BY <1>1, <1>2, <1>3, PTL DEF Spec
=============================================================================
