-------------------------- MODULE BlePacketProofs --------------------------
(***************************************************************************)
(* The response transport never gets stuck and never mixes responses, for  *)
(* every number of retries, queue length, buffer size, response size and   *)
(* every course of requests, answers, timeouts, faults and connections:    *)
(* proofs of TypeOK, NeverStuck, NeverMixed and CompletedReceived.         *)
(*                                                                         *)
(* NeverStuck is inductive together with the types, with BusyHas: the size *)
(* of the response under way, which decides whether a packet is the last,  *)
(* is known only because a busy transport has one; and with ProtoKnown: a  *)
(* repetition finds a packet to repeat, so that it does start the timer.   *)
(* BufOK holds that what another thread is notifying is still in the       *)
(* buffer, so that nothing is taken out that is not there.                 *)
(*                                                                         *)
(* NeverMixed and CompletedReceived follow from Mix, which holds until     *)
(* tainted does: the buffer holds packets of one response in the order of  *)
(* their parts (LineOK); the app has the packet recorded in                *)
(* s_packet_trans_data or expects it, and in front of it in the buffer is  *)
(* at most the part before it (UnderWay); an answer to the packet recorded *)
(* means that the app has it, and none to a later part is behind it        *)
(* (Answered).                                                             *)
(***************************************************************************)
EXTENDS BlePacket, SequenceTheorems, TLAPS

Msgs == [id : {"RX", "TX", "TIMEOUT"}, n : Nat]
Answers == [k : {"cmd", "ok", "ack"}, n : Nat]
CellSet == [p : Packets, i : 1 .. PacketCells]
Starts == [k : {"start"}, resp : Copies, len : Sizes, rx : BOOLEAN]
Stores == [k : {"store"}, resp : Copies, rx : BOOLEAN]
Sends == [k : {"send"}, proto : {"single", "multi"}, seq : Nat, off : Nat, len : Nat,
          resp : Copies, rx : BOOLEAN]

QueueOK == q \in Seq(Msgs) /\ Len(q) <= QueueLen /\ lost \in BOOLEAN
RxOK == rx \in [k : {"none", "cmd", "ok", "ack"}, n : Nat]
AirOK == air \in Seq(Answers)
CurOK == cur \in [resp : Copies \cup {None}, busy : BOOLEAN, waiting : BOOLEAN,
                  proto : {"none", "single", "multi"}, seq : Nat, off : Nat, len : Nat,
                  sent : Nat, next : Nat, retry : 0 .. MaxRetry]
WaitOK == wait \in Copies \cup {None} /\ timer \in BOOLEAN
JobOK == job \in {NoJob} \cup Starts \cup Stores \cup [k : {"again"}, rx : BOOLEAN] \cup Sends
BufOK == buf \in Seq(CellSet) /\ Len(buf) <= BufCells /\ other <= Len(buf)
LinkOK == conn \in BOOLEAN /\ ccc \in BOOLEAN /\ other \in Nat
CountOK == /\ asked \in Nat /\ faults \in Nat /\ conns \in Nat
           /\ tainted \in BOOLEAN /\ narrow \in BOOLEAN
BusyHas == cur.busy => cur.resp \in Copies
ProtoKnown == /\ cur.waiting => cur.proto # "none"
              /\ job.k = "again" /\ cur.busy => cur.waiting
              /\ job.k = "start" /\ job.resp.k = "resp" => job.len = job.resp.size

Types == QueueOK /\ RxOK /\ AirOK /\ CurOK /\ WaitOK /\ JobOK /\ BufOK /\ LinkOK /\ CountOK

\* What every step keeps.
IInv == Types /\ BusyHas /\ ProtoKnown /\ NeverStuck

LEMMA TypesAreTypeOK == Types => TypeOK
  BY DEF Types, TypeOK, QueueOK, RxOK, AirOK, CurOK, WaitOK, JobOK, BufOK, LinkOK, CountOK,
         Msgs, Answers, CellSet, Starts, Stores, Sends

LEMMA NoneType == None \notin Copies /\ None \in [k : {"none", "cmd", "ok", "ack"}, n : Nat]
  BY DEF None, Resps, Copies

LEMMA CopyType == ASSUME NEW r \in Copies PROVE r.size \in Nat /\ (r.k # "zero" => r \in Resps)
<1>1. CASE r \in Resps
  <2>1. r.size \in Sizes  BY <1>1 DEF Resps
  <2> QED  BY <1>1, <2>1, ConstantsAssumption
<1>2. CASE r \in [k : {"zero"}, n : {0}, size : Sizes \cup {0}]
  <2>1. r.size \in Sizes \cup {0}  BY <1>2
  <2>2. r.k = "zero"  BY <1>2
  <2>3. r.size \in Nat
    <3>1. CASE r.size = 0  BY <3>1
    <3>2. CASE r.size \in Sizes  BY <3>2, ConstantsAssumption
    <3> QED  BY <2>1, <3>1, <3>2
  <2> QED  BY <2>2, <2>3
<1> QED  BY <1>1, <1>2 DEF Copies

LEMMA IdleType ==
  /\ Idle \in [resp : Copies \cup {None}, busy : BOOLEAN, waiting : BOOLEAN,
               proto : {"none", "single", "multi"}, seq : Nat, off : Nat, len : Nat,
               sent : Nat, next : Nat, retry : 0 .. MaxRetry]
  /\ Idle.busy = FALSE /\ Idle.waiting = FALSE
  BY ConstantsAssumption DEF Idle

-----------------------------------------------------------------------------
(* Queue and buffer *)

\* my_send_msg respects the capacity, and keeps every message of the queue.
LEMMA PostType ==
  ASSUME QueueOK, NEW m \in Msgs, Post(m)
  PROVE  /\ QueueOK'
         /\ \A i \in 1 .. Len(q) : i \in 1 .. Len(q') /\ q'[i] = q[i]
         /\ lost => lost'
         /\ lost' \/ (Len(q') = Len(q) + 1 /\ q'[Len(q')] = m)
<1>0. Len(q) \in Nat /\ QueueLen \in Nat \ {0}  BY ConstantsAssumption DEF QueueOK
<1>1. CASE Full
  <2>1. q' = q /\ lost' = TRUE  BY <1>1 DEF Post, QueueOK
  <2> QED  BY <2>1, <1>0 DEF QueueOK
<1>2. CASE ~Full
  <2>1. q' = Append(q, m) /\ lost' = lost  BY <1>2 DEF Post, QueueOK
  <2>2. /\ q' \in Seq(Msgs) /\ Len(q') = Len(q) + 1 /\ q'[Len(q) + 1] = m
        /\ \A i \in 1 .. Len(q) : q'[i] = q[i]
    BY <2>1, AppendProperties DEF QueueOK
  <2>3. Len(q') <= QueueLen  BY <2>2, <1>0, <1>2 DEF Full
  <2> QED  BY <2>1, <2>2, <2>3, <1>0 DEF QueueOK
<1> QED  BY <1>1, <1>2

\* The BLE thread takes one message; a timeout in the queue stays unless it is that one.
LEMMA HandleType ==
  ASSUME QueueOK, NEW id, Handle(id), lost' = lost
  PROVE  /\ QueueOK' /\ job.k = "none" /\ Head(q) \in Msgs
         /\ \A i \in 1 .. Len(q) : q[i].id = "TIMEOUT" /\ id # "TIMEOUT" =>
              \E j \in 1 .. Len(q') : q'[j].id = "TIMEOUT"
<1>1. q # <<>> /\ q' = Tail(q) /\ Head(q).id = id /\ q \in Seq(Msgs) /\ job.k = "none"
  BY DEF Handle, QueueOK
<1>2. /\ Tail(q) \in Seq(Msgs) /\ Len(Tail(q)) = Len(q) - 1 /\ Len(q) \in Nat \ {0}
      /\ \A i \in 1 .. Len(Tail(q)) : Tail(q)[i] = q[i + 1]
      /\ Head(q) = q[1] /\ Head(q) \in Msgs
  BY <1>1, HeadTailProperties, EmptySeq, LenProperties
<1>3. ASSUME NEW i \in 1 .. Len(q), q[i].id = "TIMEOUT", id # "TIMEOUT"
      PROVE  \E j \in 1 .. Len(q') : q'[j].id = "TIMEOUT"
  <2>1. i # 1  BY <1>1, <1>2, <1>3
  <2>2. i - 1 \in 1 .. Len(q') /\ q'[i - 1] = q[i]  BY <2>1, <1>1, <1>2
  <2> QED  BY <2>2, <1>3
<1>4. QueueOK'  BY <1>1, <1>2, ConstantsAssumption DEF QueueOK
<1> QED  BY <1>1, <1>2, <1>3, <1>4

LEMMA CellsType ==
  ASSUME NEW p \in Packets
  PROVE  Cells(p) \in Seq(CellSet) /\ Len(Cells(p)) = PacketCells
  BY ConstantsAssumption DEF Cells, CellSet

\* A packet that does not fit is not added (BLE_NOTIFY_SEND_BUF_MAX_SIZE).
LEMMA AddType ==
  ASSUME NEW b \in Seq(CellSet), Len(b) <= BufCells, NEW p \in Packets
  PROVE  Add(b, p) \in Seq(CellSet) /\ Len(Add(b, p)) <= BufCells /\ Len(b) <= Len(Add(b, p))
<1>1. Cells(p) \in Seq(CellSet) /\ Len(Cells(p)) = PacketCells  BY CellsType
<1>2. b \o Cells(p) \in Seq(CellSet) /\ Len(b \o Cells(p)) = Len(b) + PacketCells
  BY <1>1, ConcatProperties
<1> QED  BY <1>2, ConstantsAssumption, LenProperties DEF Add

LEMMA PartType ==
  ASSUME NEW b \in Seq(CellSet), Len(b) <= BufCells, NEW n \in 0 .. Len(b)
  PROVE  /\ SubSeq(b, 1, n) \in Seq(CellSet) /\ Len(SubSeq(b, 1, n)) = n
         /\ Rest(b, n) \in Seq(CellSet) /\ Len(Rest(b, n)) <= BufCells
<1>1. Len(b) \in Nat /\ BufCells \in Nat  BY ConstantsAssumption
<1>2. SubSeq(b, 1, n) \in Seq(CellSet) /\ Len(SubSeq(b, 1, n)) = n
  BY <1>1, SubSeqProperties
<1>3. SubSeq(b, n + 1, Len(b)) \in Seq(CellSet) /\ Len(SubSeq(b, n + 1, Len(b))) = Len(b) - n
  BY <1>1, SubSeqProperties
<1> QED  BY <1>1, <1>2, <1>3 DEF Rest

LEMMA FrontType ==
  ASSUME NEW b \in Seq(CellSet), Len(b) <= BufCells
  PROVE  Front(b) \in Seq(CellSet) /\ Len(Front(b)) \in 0 .. Len(b)
<1>1. (IF Len(b) < NotifyCells THEN Len(b) ELSE NotifyCells) \in 0 .. Len(b)
  BY ConstantsAssumption, LenProperties
<1> QED  BY <1>1, PartType DEF Front

LEMMA OtherType == OtherPacket \in Packets
  BY DEF OtherPacket, Packets

\* Whatever the app makes of a notification, what it sends is an answer.
LEMMA DeliverType ==
  ASSUME AirOK, NEW cells \in Seq(CellSet), Deliver(cells)
  PROVE  AirOK'
<1>1. CASE UNCHANGED air  BY <1>1 DEF AirOK
<1>2. CASE cells # <<>> /\ Take(cells[1].p)
  <2>1. cells[1] \in CellSet  BY <1>2, EmptySeq, ElementOfSeq, LenProperties
  <2>2. cells[1].p \in Packets  BY <2>1 DEF CellSet
  <2> DEFINE p == cells[1].p
  <2>3. p.seq \in Nat  BY <2>2 DEF Packets
  <2>4. Answer(p) \/ UNCHANGED air  BY <1>2 DEF Take
  <2>5. CASE Answer(p)
    <3>1. PICK a \in Answers : air' \in {air, Append(air, a)}
      <4>1. CASE p.proto = "single"
        <5>1. air' \in {air, Append(air, [k |-> "ok", n |-> 0])}  BY <2>5, <4>1 DEF Answer
        <5> QED  BY <5>1 DEF Answers
      <4>2. CASE p.proto # "single"
        <5>1. air' \in {air, Append(air, [k |-> "ack", n |-> p.seq])}  BY <2>5, <4>2 DEF Answer
        <5> QED  BY <5>1, <2>3 DEF Answers
      <4> QED  BY <4>1, <4>2
    <3> QED  BY <3>1, AppendProperties DEF AirOK
  <2> QED  BY <2>4, <2>5 DEF AirOK
<1> QED  BY <1>1, <1>2 DEF Deliver

LEMMA NotifyType ==
  ASSUME AirOK, BufOK, LinkOK, CountOK, NEW p \in Packets, ble_server_send_notification(p),
         UNCHANGED hist
  PROVE  AirOK' /\ BufOK' /\ LinkOK' /\ CountOK'
<1> DEFINE all == Add(buf, p)
           sent == Rest(all, Len(Front(all)))
<1>1. all \in Seq(CellSet) /\ Len(all) <= BufCells /\ Len(buf) <= Len(all)  BY AddType DEF BufOK
<1>2. Front(all) \in Seq(CellSet) /\ Len(Front(all)) \in 0 .. Len(all)  BY <1>1, FrontType
<1>3. sent \in Seq(CellSet) /\ Len(sent) <= BufCells  BY <1>1, <1>2, PartType
<1>4. Add(sent, OtherPacket) \in Seq(CellSet) /\ Len(Add(sent, OtherPacket)) <= BufCells
  BY <1>3, AddType, OtherType
<1>5. LinkOK' /\ CountOK'
  BY DEF ble_server_send_notification, Fault, LinkOK, CountOK, hist
<1>6. AirOK'
  <2>1. UNCHANGED air \/ Deliver(Front(all))  BY DEF ble_server_send_notification
  <2> QED  BY <2>1, <1>2, DeliverType DEF AirOK
<1>7. BufOK'
  <2>1. buf' \in {buf, all} \/ (buf' \in {sent, Add(sent, OtherPacket)} /\ other = 0)
    BY DEF ble_server_send_notification
  <2>2. other' = other  BY DEF ble_server_send_notification
  <2>3. CASE buf' \in {buf, all}
    <3>1. Len(buf) \in Nat /\ Len(all) \in Nat /\ other \in Nat  BY <1>1 DEF BufOK, LinkOK
    <3> HIDE DEF all
    <3> QED  BY <2>2, <2>3, <3>1, <1>1 DEF BufOK
  <2>4. CASE buf' \in {sent, Add(sent, OtherPacket)} /\ other = 0
    <3>1. Len(sent) \in Nat /\ Len(Add(sent, OtherPacket)) \in Nat  BY <1>3, <1>4
    <3> HIDE DEF sent
    <3> QED  BY <2>2, <2>4, <3>1, <1>3, <1>4 DEF BufOK
  <2> QED  BY <2>1, <2>3, <2>4
<1> QED  BY <1>5, <1>6, <1>7
-----------------------------------------------------------------------------
(* The transport *)

TransOK == CurOK /\ WaitOK /\ JobOK /\ BusyHas /\ ProtoKnown

\* A response of a possible length is copied next, and nothing is under way meanwhile.
LEMMA StartType ==
  ASSUME NEW r \in Copies, r.size # 0, NEW b \in BOOLEAN, StartTransfer(r, b)
  PROVE  CurOK' /\ JobOK' /\ BusyHas' /\ ProtoKnown' /\ job'.k = "start" /\ ~cur'.busy
<1>1. cur' = Idle /\ job' = [k |-> "start", resp |-> r, len |-> r.size, rx |-> b]
  BY DEF StartTransfer
<1>2. r.size \in Sizes  BY DEF Copies, Resps
<1>3. job' \in Starts  BY <1>1, <1>2 DEF Starts
<1>4. job'.k = "start" /\ job'.len = job'.resp.size  BY <1>1
<1>5. CurOK' /\ ~cur'.busy /\ ~cur'.waiting  BY <1>1, IdleType DEF CurOK
<1> QED  BY <1>3, <1>4, <1>5 DEF BusyHas, ProtoKnown, JobOK

LEMMA SendType ==
  ASSUME TransOK, NEW n \in Nat, NEW b \in BOOLEAN, ble_packet_trans_send(n, b)
  PROVE  TransOK' /\ timer' = timer /\ (~cur'.busy \/ cur' = cur)
<1>1. PICK s \in Sizes : LET r == [k |-> "resp", n |-> n, size |-> s] IN
        /\ UNCHANGED <<wait, timer>>
        /\ \/ ~cur.busy /\ StartTransfer(r, b)
           \/ /\ cur.busy /\ job' = [k |-> "store", resp |-> r, rx |-> b]
              /\ UNCHANGED cur
  BY DEF ble_packet_trans_send
<1> DEFINE r == [k |-> "resp", n |-> n, size |-> s]
<1>2. r \in Copies /\ r.size # 0  BY ConstantsAssumption DEF Resps, Copies
<1> HIDE DEF r
<1>3. CASE StartTransfer(r, b) /\ UNCHANGED <<wait, timer>>
  BY <1>2, <1>3, StartType DEF TransOK, WaitOK
<1>4. CASE /\ job' = [k |-> "store", resp |-> r, rx |-> b]
           /\ UNCHANGED <<cur, wait, timer>>
  <2>1. JobOK' /\ job'.k = "store"  BY <1>2, <1>4 DEF JobOK, Stores
  <2> QED  BY <2>1, <1>4 DEF TransOK, CurOK, WaitOK, BusyHas, ProtoKnown
<1> QED  BY <1>1, <1>3, <1>4 DEF r

\* After a transfer the transport is idle, or copies the response that waited.
LEMMA NextTransferType ==
  ASSUME TransOK, NEW b \in BOOLEAN, NextTransfer(b)
  PROVE  TransOK' /\ ~cur'.busy
<1>1. CASE Pended /\ StartTransfer(wait, b)
  <2>1. wait \in Copies /\ wait.size # 0 /\ WaitOK'
    BY <1>1 DEF TransOK, WaitOK, NextTransfer, Pended
  <2> QED  BY <1>1, <2>1, StartType DEF TransOK
<1>2. CASE cur' = Idle /\ job' = NoJob
  <2>1. WaitOK' /\ JobOK'  BY <1>2 DEF NextTransfer, WaitOK, JobOK
  <2>2. CurOK' /\ BusyHas' /\ ProtoKnown' /\ ~cur'.busy
    BY <1>2, IdleType DEF CurOK, BusyHas, ProtoKnown, NoJob
  <2> QED  BY <1>2, <2>1, <2>2 DEF TransOK
<1> QED  BY <1>1, <1>2 DEF NextTransfer
-----------------------------------------------------------------------------
(* The steps *)

Pending == \E i \in 1 .. Len(q) : q[i].id = "TIMEOUT"

\* NeverStuck follows where the transport is left alone and no timeout is lost silently,
LEMMA QuietKeeps ==
  ASSUME BusyHas, ProtoKnown, NeverStuck, UNCHANGED <<cur, job, narrow>>, timer => timer' \/ Pending' \/ lost',
         Pending \/ lost => Pending' \/ lost'
  PROVE  BusyHas' /\ ProtoKnown' /\ NeverStuck'
  BY DEF BusyHas, ProtoKnown, NeverStuck, Pending

\* and where a handler ends with a packet to send or with an idle transport.
LEMMA BusyKeeps ==
  ASSUME TransOK, job'.k \in {"send", "again"} \/ ~cur'.busy
  PROVE  NeverStuck'
  BY DEF NeverStuck

\* A handler that leaves the transport alone.
LEMMA HandleKeeps ==
  ASSUME QueueOK, NeverStuck, NEW id, id # "TIMEOUT", Handle(id), lost' = lost,
         UNCHANGED <<cur, timer, narrow>>
  PROVE  NeverStuck'
<1>1. Pending => Pending'  BY HandleType DEF Pending
<1>2. job.k = "none"  BY DEF Handle
<1> QED  BY <1>1, <1>2 DEF NeverStuck, Pending

LEMMA TxStep == ASSUME IInv, OnTx PROVE IInv'
<1>0. /\ Types /\ NeverStuck /\ TransOK
      /\ Handle("TX") /\ ble_packet_trans_send(Head(q).n, FALSE)
      /\ UNCHANGED <<rx, link, air, bounds, done, hist, lost>>
  BY DEF IInv, Types, TransOK, OnTx
<1>1. QueueOK' /\ Head(q) \in Msgs  BY <1>0, HandleType DEF Types
<1>2. Head(q).n \in Nat  BY <1>1 DEF Msgs
<1>3. TransOK' /\ timer' = timer /\ (~cur'.busy \/ cur' = cur)  BY <1>0, <1>2, SendType
<1>4. NeverStuck'
  BY <1>0, <1>3, BusyKeeps, HandleKeeps DEF Types, hist
<1>5. RxOK' /\ AirOK' /\ BufOK' /\ LinkOK' /\ CountOK'
  BY <1>0, <1>3 DEF Types, RxOK, AirOK, BufOK, LinkOK, CountOK, link, bounds, hist
<1> QED  BY <1>1, <1>3, <1>4, <1>5 DEF IInv, Types, TransOK

LEMMA CommandStep == ASSUME IInv, OnCommand PROVE IInv'
<1>0. /\ Types /\ NeverStuck /\ TransOK /\ Handle("RX")
      /\ UNCHANGED <<link, air, bounds, done, hist, lost>>
      /\ \/ ble_packet_trans_send(rx.n, TRUE) /\ UNCHANGED rx
         \/ rx' = None /\ UNCHANGED trans
  BY DEF IInv, Types, TransOK, OnCommand
<1>1. QueueOK'  BY <1>0, HandleType DEF Types
<1>2. rx.n \in Nat  BY <1>0 DEF Types, RxOK
<1>3. RxOK'  BY <1>0, NoneType DEF Types, RxOK
<1>4. TransOK' /\ timer' = timer /\ (~cur'.busy \/ cur' = cur)
  <2>1. CASE ble_packet_trans_send(rx.n, TRUE)  BY <1>0, <1>2, <2>1, SendType
  <2>2. CASE UNCHANGED trans
    BY <1>0, <2>2 DEF trans, TransOK, CurOK, WaitOK, JobOK, BusyHas, ProtoKnown
  <2> QED  BY <1>0, <2>1, <2>2
<1>5. NeverStuck'  BY <1>0, <1>4, BusyKeeps, HandleKeeps DEF Types, hist
<1>6. AirOK' /\ BufOK' /\ LinkOK' /\ CountOK'
  BY <1>0, <1>4 DEF Types, AirOK, BufOK, LinkOK, CountOK, link, bounds, hist
<1> QED  BY <1>1, <1>3, <1>4, <1>5, <1>6 DEF IInv, Types, TransOK

LEMMA OtherAnswerStep == ASSUME IInv, OnOtherAnswer PROVE IInv'
<1>0. /\ Types /\ NeverStuck /\ TransOK /\ Handle("RX") /\ rx' = None
      /\ UNCHANGED <<trans, link, air, bounds, done, hist, lost>>
  BY DEF IInv, Types, TransOK, OnOtherAnswer
<1>1. QueueOK'  BY <1>0, HandleType DEF Types
<1>2. NeverStuck'  BY <1>0, HandleKeeps DEF Types, trans, hist
<1>3. RxOK'  BY <1>0, NoneType DEF RxOK
<1>4. TransOK'  BY <1>0 DEF trans, TransOK, CurOK, WaitOK, JobOK, BusyHas, ProtoKnown
<1>5. AirOK' /\ BufOK' /\ LinkOK' /\ CountOK'
  BY <1>0 DEF Types, AirOK, BufOK, LinkOK, CountOK, link, bounds, hist
<1> QED  BY <1>1, <1>2, <1>3, <1>4, <1>5 DEF IInv, Types, TransOK

\* ble_packet_trans_complete_current
LEMMA CompletedType ==
  ASSUME TransOK, RxOK, Completed
  PROVE  TransOK' /\ RxOK' /\ ~cur'.busy
<1>1. NextTransfer(TRUE) /\ rx' \in {None, rx}  BY DEF Completed
<1>2. RxOK'  BY <1>1, NoneType DEF RxOK
<1> QED  BY <1>1, <1>2, NextTransferType

LEMMA ConfirmedStep == ASSUME IInv, OnConfirmed PROVE IInv'
<1>0. /\ Types /\ TransOK /\ Handle("RX") /\ Completed
      /\ UNCHANGED <<link, air, bounds, hist, lost>>
  BY DEF IInv, Types, TransOK, OnConfirmed
<1>1. QueueOK'  BY <1>0, HandleType DEF Types
<1>2. TransOK' /\ RxOK' /\ NeverStuck'  BY <1>0, CompletedType, BusyKeeps DEF Types
<1>3. AirOK' /\ BufOK' /\ LinkOK' /\ CountOK'
  BY <1>0, <1>2 DEF Types, AirOK, BufOK, LinkOK, CountOK, link, bounds, hist
<1> QED  BY <1>1, <1>2, <1>3 DEF IInv, Types, TransOK

\* An acknowledged part is followed by the next one or ends the transfer.
LEMMA AckStep == ASSUME IInv, OnAck PROVE IInv'
<1>0. /\ Types /\ TransOK /\ Handle("RX") /\ cur.busy
      /\ UNCHANGED <<link, air, bounds, hist, lost>>
  BY DEF IInv, Types, TransOK, OnAck
<1>1. QueueOK'  BY <1>0, HandleType DEF Types
<1>2. TransOK' /\ RxOK' /\ (job'.k = "send" \/ ~cur'.busy)
  <2>1. CASE Completed  BY <1>0, <2>1, CompletedType DEF Types
  <2>2. CASE Remaining > 0 /\ ~Completed
    <3>1. /\ timer' = FALSE /\ UNCHANGED <<rx, wait, done>>
          /\ \E len \in Parts(Remaining) :
               LET last == cur.sent + len >= cur.resp.size
               IN  /\ job' = [k |-> "send", proto |-> "multi", seq |-> IF last THEN LAST ELSE cur.next,
                              off |-> cur.sent, len |-> len, resp |-> cur.resp, rx |-> TRUE]
                   /\ cur' = [cur EXCEPT !.waiting = FALSE, !.retry = 0,
                                         !.next = IF last THEN 0 ELSE cur.next + 1]
      BY <2>2 DEF OnAck
    <3>2. PICK len \in Parts(Remaining) :
            LET last == cur.sent + len >= cur.resp.size
            IN  /\ job' = [k |-> "send", proto |-> "multi", seq |-> IF last THEN LAST ELSE cur.next,
                           off |-> cur.sent, len |-> len, resp |-> cur.resp, rx |-> TRUE]
                /\ cur' = [cur EXCEPT !.waiting = FALSE, !.retry = 0,
                                      !.next = IF last THEN 0 ELSE cur.next + 1]
      BY <3>1
    <3>3. cur.resp \in Copies /\ cur.sent \in Nat /\ cur.next \in Nat /\ LAST \in Nat
      BY <1>0 DEF TransOK, BusyHas, CurOK, LAST
    <3>4. len \in Nat  BY <3>2 DEF Parts
    <3>5. \E t \in Nat : job' = [k |-> "send", proto |-> "multi", seq |-> t,
                                 off |-> cur.sent, len |-> len, resp |-> cur.resp, rx |-> TRUE]
      <4> DEFINE t == IF cur.sent + len >= cur.resp.size THEN LAST ELSE cur.next
      <4>1. t \in Nat  BY <3>3
      <4>2. job' = [k |-> "send", proto |-> "multi", seq |-> t,
                    off |-> cur.sent, len |-> len, resp |-> cur.resp, rx |-> TRUE]
        BY <3>2
      <4> HIDE DEF t
      <4> QED  BY <4>1, <4>2
    <3>6. \E x \in Nat : cur' = [cur EXCEPT !.waiting = FALSE, !.retry = 0, !.next = x]
      <4> DEFINE x == IF cur.sent + len >= cur.resp.size THEN 0 ELSE cur.next + 1
      <4>1. x \in Nat  BY <3>3
      <4>2. cur' = [cur EXCEPT !.waiting = FALSE, !.retry = 0, !.next = x]  BY <3>2
      <4> HIDE DEF x
      <4> QED  BY <4>1, <4>2
    <3>8. job' \in Sends /\ job'.k = "send"  BY <3>3, <3>4, <3>5 DEF Sends
    <3>9. CurOK' /\ cur'.waiting = FALSE /\ cur'.resp = cur.resp
      <4>1. 0 \in 0 .. MaxRetry  BY ConstantsAssumption
      <4>2. PICK x \in Nat : cur' = [cur EXCEPT !.waiting = FALSE, !.retry = 0, !.next = x]
        BY <3>6
      <4> QED  BY <1>0, <4>1, <4>2 DEF TransOK, CurOK
    <3>10. WaitOK' /\ RxOK'
      BY <1>0, <3>1 DEF TransOK, Types, WaitOK, RxOK
    <3> QED
      BY <3>3, <3>8, <3>9, <3>10 DEF TransOK, JobOK, BusyHas, ProtoKnown
  <2> QED  BY <2>1, <2>2 DEF OnAck
<1>3. NeverStuck'  BY <1>0, <1>2, BusyKeeps
<1>4. AirOK' /\ BufOK' /\ LinkOK' /\ CountOK'
  BY <1>0, <1>2 DEF Types, AirOK, BufOK, LinkOK, CountOK, link, bounds, hist
<1> QED  BY <1>1, <1>2, <1>3, <1>4 DEF IInv, Types, TransOK

\* A timeout repeats the packet, ends the transfer, or finds nothing to wait for; the
\* last only where no transfer is under way, since no handler is running.
LEMMA TimeoutStep == ASSUME IInv, OnTimeout PROVE IInv'
<1>0. /\ Types /\ NeverStuck /\ TransOK /\ Handle("TIMEOUT")
      /\ UNCHANGED <<rx, link, air, bounds, done, hist, lost>>
  BY DEF IInv, Types, TransOK, OnTimeout
<1>1. QueueOK' /\ job.k = "none"  BY <1>0, HandleType DEF Types
<1>2. TransOK' /\ NeverStuck'
  <2>1. CASE ~(cur.busy /\ cur.waiting) /\ UNCHANGED trans
    <3>1. ~(cur.busy /\ cur.resp.size # 0 /\ ~narrow)  BY <1>0, <1>1, <2>1 DEF NeverStuck
    <3>2. TransOK'
      BY <1>0, <2>1 DEF trans, TransOK, CurOK, WaitOK, JobOK, BusyHas, ProtoKnown
    <3> QED  BY <1>0, <3>1, <3>2, <2>1 DEF trans, hist, NeverStuck
  <2>2. CASE NextTransfer(FALSE)  BY <1>0, <2>2, NextTransferType, BusyKeeps
  <2>3. CASE /\ cur.busy /\ cur.waiting /\ cur.retry < MaxRetry
             /\ cur' = [cur EXCEPT !.retry = @ + 1]
             /\ job' = [k |-> "again", rx |-> FALSE]
             /\ UNCHANGED <<wait, timer>>
    <3>1. cur.retry + 1 \in 0 .. MaxRetry
      BY <1>0, <2>3, ConstantsAssumption DEF TransOK, CurOK
    <3>2. CurOK' /\ cur'.busy = cur.busy /\ cur'.waiting = cur.waiting
          /\ cur'.proto = cur.proto /\ cur'.resp = cur.resp
      BY <1>0, <2>3, <3>1 DEF TransOK, CurOK
    <3>3. JobOK' /\ job'.k = "again"  BY <2>3 DEF JobOK
    <3>4. NeverStuck'  BY <1>0, <3>3, BusyKeeps
    <3> QED  BY <1>0, <2>3, <3>2, <3>3, <3>4 DEF TransOK, WaitOK, BusyHas, ProtoKnown
  <2> QED  BY <2>1, <2>2, <2>3 DEF OnTimeout
<1>4. RxOK' /\ AirOK' /\ BufOK' /\ LinkOK' /\ CountOK'
  BY <1>0, <1>2 DEF Types, RxOK, AirOK, BufOK, LinkOK, CountOK, link, bounds, hist
<1> QED  BY <1>1, <1>2, <1>4 DEF IInv, Types, TransOK

LEMMA ReleasedType ==
  ASSUME RxOK, Released
  PROVE  RxOK'
<1>1. rx' \in {None, rx}  BY DEF Released
<1> QED  BY <1>1, NoneType DEF RxOK

\* A transfer that is begun has a response, and a packet to send,
LEMMA BeginStep == ASSUME IInv, Begin PROVE IInv'
<1> DEFINE proto == IF job.len = 1 THEN "single" ELSE "multi"
<1>0. /\ Types /\ job.k = "start"
      /\ UNCHANGED <<q, rx, wait, timer, link, air, bounds, done, narrow, lost>>
  BY DEF IInv, Begin
<1>1. job \in Starts  BY <1>0 DEF Types, JobOK, NoJob, Stores, Sends
<1>2. job.resp \in Copies /\ job.rx \in BOOLEAN  BY <1>1 DEF Starts
<1>3. PICK len \in (IF proto = "single" THEN {1} ELSE Parts(job.len - 1)) :
        job' = [k |-> "send", proto |-> proto, seq |-> 0, off |-> 0, len |-> len,
                resp |-> job.resp, rx |-> job.rx]
  BY DEF Begin
<1>4. len \in Nat  BY <1>3 DEF Parts
<1>5. job' \in Sends /\ job'.k = "send"
  <2>1. proto \in {"single", "multi"}  OBVIOUS
  <2> HIDE DEF proto
  <2> QED  BY <1>2, <1>3, <1>4, <2>1 DEF Sends
<1>6. cur' = [Idle EXCEPT !.resp = job.resp, !.busy = TRUE,
                          !.next = IF proto = "single" THEN 0 ELSE 1]
  BY DEF Begin
<1>7. CurOK' /\ cur'.resp = job.resp /\ cur'.waiting = FALSE
  BY <1>2, <1>6, IdleType DEF CurOK, Idle
<1>8. BusyHas' /\ ProtoKnown' /\ NeverStuck'
  BY <1>2, <1>5, <1>7 DEF BusyHas, ProtoKnown, NeverStuck
<1>9. CountOK'
  <2>1. tainted' \in BOOLEAN  BY DEF Begin
  <2> QED  BY <1>0, <2>1 DEF Types, CountOK, bounds
<1>10. QueueOK' /\ RxOK' /\ AirOK' /\ WaitOK' /\ JobOK' /\ BufOK' /\ LinkOK'
  BY <1>0, <1>5 DEF Types, QueueOK, RxOK, AirOK, WaitOK, JobOK, BufOK, LinkOK, link
<1> QED  BY <1>7, <1>8, <1>9, <1>10 DEF IInv, Types

\* and one begun with too small an MTU is excepted.
LEMMA BeginNarrowStep == ASSUME IInv, BeginNarrow PROVE IInv'
<1>0. /\ Types /\ job.k = "start" /\ faults' = faults + 1
      /\ tainted' = TRUE /\ narrow' = TRUE /\ rx' \in {None, rx}
      /\ cur' = [Idle EXCEPT !.resp = job.resp, !.busy = TRUE, !.next = 1, !.sent = job.len]
      /\ \/ job' = [k |-> "send", proto |-> "multi", seq |-> 0, off |-> 0, len |-> job.len,
                    resp |-> job.resp, rx |-> job.rx]
         \/ job' = NoJob
      /\ UNCHANGED <<q, wait, timer, link, air, asked, conns, done, lost>>
  BY DEF IInv, BeginNarrow, Fault, Released
<1>1. job \in Starts  BY <1>0 DEF Types, JobOK, NoJob, Stores, Sends
<1>2. job.resp \in Copies /\ job.rx \in BOOLEAN /\ job.len \in Nat
  BY <1>1, ConstantsAssumption DEF Starts
<1>3. JobOK' /\ job'.k \in {"send", "none"}  BY <1>0, <1>2 DEF JobOK, Sends, NoJob
<1>4. CurOK' /\ cur'.resp = job.resp /\ cur'.waiting = FALSE
  BY <1>0, <1>2, IdleType DEF CurOK, Idle
<1>5. BusyHas' /\ ProtoKnown' /\ NeverStuck'
  BY <1>0, <1>2, <1>3, <1>4 DEF BusyHas, ProtoKnown, NeverStuck
<1>6. QueueOK' /\ RxOK' /\ AirOK' /\ WaitOK' /\ BufOK' /\ LinkOK' /\ CountOK'
  BY <1>0, NoneType DEF Types, QueueOK, RxOK, AirOK, WaitOK, BufOK, LinkOK, CountOK, link
<1> QED  BY <1>3, <1>4, <1>5, <1>6 DEF IInv, Types

LEMMA StoreStep == ASSUME IInv, Store PROVE IInv'
<1>0. /\ Types /\ NeverStuck /\ BusyHas /\ ProtoKnown
      /\ job.k = "store" /\ wait' = job.resp /\ job' = NoJob /\ Released
      /\ UNCHANGED <<q, cur, timer, link, air, bounds, done, hist, lost>>
  BY DEF IInv, Store
<1>1. RxOK'  BY <1>0, ReleasedType DEF Types
<1>2. job.resp \in Copies  BY <1>0 DEF Types, JobOK, NoJob, Starts, Stores, Sends
<1>3. WaitOK' /\ JobOK'  BY <1>0, <1>2 DEF Types, WaitOK, JobOK
<1>4. QueueOK' /\ AirOK' /\ BufOK' /\ LinkOK' /\ CountOK' /\ CurOK' /\ BusyHas'
  BY <1>0 DEF Types, QueueOK, AirOK, BufOK, LinkOK, CountOK, CurOK, BusyHas, link, bounds, hist
<1>5. ProtoKnown' /\ NeverStuck'  BY <1>0 DEF ProtoKnown, NeverStuck, NoJob, hist
<1> QED  BY <1>1, <1>3, <1>4, <1>5 DEF IInv, Types

\* A packet that goes out, for the first time or again, starts the timer.
LEMMA TransmitStep == ASSUME IInv, Transmit PROVE IInv'
<1> DEFINE p == [proto |-> job.proto, resp |-> job.resp, seq |-> job.seq,
                 off |-> job.off, len |-> job.len]
<1>0. /\ Types /\ BusyHas /\ job.k = "send" /\ job' = NoJob /\ Released
      /\ ble_server_send_notification(p) /\ timer' = TRUE
      /\ UNCHANGED <<q, wait, done, hist, lost>>
  BY DEF IInv, Transmit
<1>1. job \in Sends  BY <1>0 DEF Types, JobOK, NoJob, Starts, Stores
<1>2. p \in Packets  BY <1>1 DEF Sends, Packets
<1>3. AirOK' /\ BufOK' /\ LinkOK' /\ CountOK'
  <2> HIDE DEF p
  <2> QED  BY <1>0, <1>2, NotifyType DEF Types
<1>4. /\ job.proto \in {"single", "multi"} /\ job.seq \in Nat /\ job.off \in Nat /\ job.len \in Nat
      /\ job.off + job.len \in Nat
  BY <1>1 DEF Sends
<1>5. \E x \in Nat : cur' = [cur EXCEPT !.waiting = TRUE, !.proto = job.proto, !.seq = job.seq,
                                        !.off = job.off, !.len = job.len, !.sent = x]
  <2> DEFINE x == IF job.proto = "single" THEN 0
                  ELSE IF job.off + job.len < Width THEN job.off + job.len
                  ELSE job.off + job.len - Width
  <2>1. x \in Nat  BY <1>4, ConstantsAssumption
  <2>2. cur' = [cur EXCEPT !.waiting = TRUE, !.proto = job.proto, !.seq = job.seq,
                           !.off = job.off, !.len = job.len, !.sent = x]
    BY DEF Transmit
  <2> HIDE DEF x
  <2> QED  BY <2>1, <2>2
<1>6. /\ CurOK' /\ cur'.waiting = TRUE /\ cur'.busy = cur.busy /\ cur'.resp = cur.resp
      /\ cur'.proto # "none"
  BY <1>0, <1>4, <1>5, ZenonT(60) DEF Types, CurOK
<1>7. BusyHas' /\ ProtoKnown' /\ NeverStuck'
  BY <1>0, <1>6 DEF BusyHas, ProtoKnown, NeverStuck, NoJob
<1>8. QueueOK' /\ RxOK' /\ WaitOK' /\ JobOK'
  BY <1>0, ReleasedType DEF Types, QueueOK, WaitOK, JobOK
<1> QED  BY <1>3, <1>6, <1>7, <1>8 DEF IInv, Types

LEMMA RetransmitStep == ASSUME IInv, Retransmit PROVE IInv'
<1> DEFINE p == [proto |-> cur.proto, resp |-> cur.resp, seq |-> cur.seq,
                 off |-> cur.off, len |-> cur.len]
<1>0. /\ Types /\ BusyHas /\ ProtoKnown /\ job.k = "again" /\ job' = NoJob /\ Released
      /\ UNCHANGED <<q, wait, done, hist, lost>>
  BY DEF IInv, Retransmit
<1>1. QueueOK' /\ RxOK' /\ JobOK'  BY <1>0, ReleasedType DEF Types, QueueOK, JobOK
<1>2. CASE /\ ~NothingRecorded /\ cur' = [cur EXCEPT !.waiting = TRUE]
           /\ ble_server_send_notification(p) /\ timer' = TRUE
  <2>0. cur.proto # "none"  BY <1>2 DEF NothingRecorded
  <2>1. p \in Packets  BY <1>0, <2>0 DEF Types, CurOK, Packets
  <2>2. AirOK' /\ BufOK' /\ LinkOK' /\ CountOK'
    <3> HIDE DEF p
    <3> QED  BY <1>0, <1>2, <2>1, NotifyType DEF Types
  <2>3. /\ CurOK' /\ cur'.waiting = TRUE /\ cur'.busy = cur.busy /\ cur'.resp = cur.resp
        /\ cur'.proto = cur.proto
    BY <1>0, <1>2 DEF Types, CurOK
  <2>4. BusyHas' /\ ProtoKnown' /\ NeverStuck'
    BY <1>0, <1>2, <2>0, <2>3 DEF BusyHas, ProtoKnown, NeverStuck, NoJob
  <2>5. WaitOK'  BY <1>0, <1>2 DEF Types, WaitOK
  <2> QED  BY <1>1, <2>2, <2>3, <2>4, <2>5 DEF IInv, Types
<1>3. CASE NothingRecorded /\ UNCHANGED <<cur, timer, link, air, bounds>>
  <2>1. ~cur.busy \/ cur.resp.size = 0  BY <1>0, <1>3 DEF ProtoKnown, NothingRecorded
  <2>2. BusyHas' /\ ProtoKnown' /\ NeverStuck'
    BY <1>0, <1>3, <2>1 DEF BusyHas, ProtoKnown, NeverStuck, NoJob
  <2>3. AirOK' /\ BufOK' /\ LinkOK' /\ CountOK' /\ CurOK' /\ WaitOK'
    BY <1>0, <1>3 DEF Types, AirOK, BufOK, LinkOK, CountOK, CurOK, WaitOK, link, bounds, hist
  <2> QED  BY <1>1, <2>2, <2>3 DEF IInv, Types
<1> QED  BY <1>2, <1>3 DEF Retransmit
-----------------------------------------------------------------------------
(* Timer, Bluetooth thread, other threads *)

\* The timeout is in the queue when the timer has expired, or a full queue dropped it.
LEMMA TimerStep == ASSUME IInv, TimerExpires PROVE IInv'
<1> DEFINE m == [id |-> "TIMEOUT", n |-> 0]
<1>0. /\ Types /\ BusyHas /\ ProtoKnown /\ NeverStuck /\ timer' = FALSE /\ Post(m)
      /\ UNCHANGED <<rx, cur, wait, job, link, air, bounds, done, hist>>
  BY DEF IInv, TimerExpires
<1>1. m \in Msgs /\ m.id = "TIMEOUT"  BY DEF Msgs
<1> HIDE DEF m
<1>2. QueueOK' /\ (lost' \/ (Len(q') = Len(q) + 1 /\ q'[Len(q')] = m))
  BY <1>0, <1>1, PostType DEF Types
<1>3. Pending' \/ lost'
  <2>1. CASE Len(q') = Len(q) + 1 /\ q'[Len(q')] = m
    <3>1. Len(q') \in 1 .. Len(q')  BY <1>0, <2>1 DEF Types, QueueOK
    <3> QED  BY <3>1, <2>1, <1>1 DEF Pending
  <2> QED  BY <1>2, <2>1
<1>4. BusyHas' /\ ProtoKnown' /\ NeverStuck'  BY <1>0, <1>3, QuietKeeps DEF hist
<1>5. RxOK' /\ AirOK' /\ BufOK' /\ LinkOK' /\ CountOK'
  BY <1>0 DEF Types, RxOK, AirOK, BufOK, LinkOK, CountOK, link, bounds, hist
<1>6. CurOK' /\ WaitOK' /\ JobOK'
  BY <1>0 DEF Types, CurOK, WaitOK, JobOK
<1> QED  BY <1>2, <1>4, <1>5, <1>6 DEF IInv, Types

\* A message that is posted disturbs nothing that NeverStuck speaks of.
LEMMA PostKeeps ==
  ASSUME IInv, NEW m \in Msgs, Post(m), UNCHANGED <<trans, hist>>
  PROVE  QueueOK' /\ BusyHas' /\ ProtoKnown' /\ NeverStuck'
<1>1. /\ QueueOK' /\ (lost => lost')
      /\ \A i \in 1 .. Len(q) : i \in 1 .. Len(q') /\ q'[i] = q[i]
  BY PostType DEF IInv, Types
<1>2. Pending \/ lost => Pending' \/ lost'  BY <1>1 DEF Pending
<1>3. UNCHANGED <<cur, job, timer, narrow>>  BY DEF trans, hist
<1> QED  BY <1>1, <1>2, <1>3, QuietKeeps DEF IInv

LEMMA InputStep == ASSUME IInv, BLE_DataInputBuffer PROVE IInv'
<1>0. /\ Types /\ air # <<>> /\ air' = Tail(air) /\ UNCHANGED <<trans, link, bounds, done, hist>>
      /\ \/ rx' = Head(air) /\ Post([id |-> "RX", n |-> 0])
         \/ UNCHANGED <<rx, q, lost>>
  BY DEF IInv, BLE_DataInputBuffer
<1>1. Head(air) \in Answers /\ AirOK'
  BY <1>0, HeadTailProperties DEF Types, AirOK
<1>2. RxOK'  BY <1>0, <1>1 DEF Types, RxOK, Answers
<1>3. QueueOK' /\ BusyHas' /\ ProtoKnown' /\ NeverStuck'
  <2>1. CASE Post([id |-> "RX", n |-> 0])
    <3>1. [id |-> "RX", n |-> 0] \in Msgs  BY DEF Msgs
    <3> QED  BY <1>0, <2>1, <3>1, PostKeeps
  <2>2. CASE UNCHANGED <<rx, q, lost>>
    BY <1>0, <2>2 DEF IInv, Types, QueueOK, BusyHas, ProtoKnown, NeverStuck, trans, hist
  <2> QED  BY <1>0, <2>1, <2>2
<1>4. BufOK' /\ LinkOK' /\ CountOK' /\ CurOK' /\ WaitOK' /\ JobOK'
  BY <1>0 DEF Types, BufOK, LinkOK, CountOK, CurOK, WaitOK, JobOK, link, bounds, trans, hist
<1> QED  BY <1>1, <1>2, <1>3, <1>4 DEF IInv, Types

LEMMA SendMsgStep == ASSUME IInv, send_ble_msg PROVE IInv'
<1>0. /\ Types /\ asked' = asked + 1 /\ Post([id |-> "TX", n |-> asked'])
      /\ UNCHANGED <<rx, trans, link, air, faults, conns, done, hist>>
  BY DEF IInv, send_ble_msg, Ask
<1>1. [id |-> "TX", n |-> asked'] \in Msgs  BY <1>0 DEF Types, CountOK, Msgs
<1>2. QueueOK' /\ BusyHas' /\ ProtoKnown' /\ NeverStuck'  BY <1>0, <1>1, PostKeeps
<1>3. RxOK' /\ AirOK' /\ BufOK' /\ LinkOK' /\ CountOK' /\ CurOK' /\ WaitOK' /\ JobOK'
  BY <1>0 DEF Types, RxOK, AirOK, BufOK, LinkOK, CountOK, CurOK, WaitOK, JobOK, link, trans, hist
<1> QED  BY <1>2, <1>3 DEF IInv, Types

\* The connection and the other threads leave the transport alone,
LEMMA AsideKeeps ==
  ASSUME IInv, UNCHANGED <<q, rx, trans, hist, lost>>, AirOK', BufOK', LinkOK', CountOK'
  PROVE  IInv'
<1>1. QueueOK' /\ RxOK' /\ CurOK' /\ WaitOK' /\ JobOK'
  BY DEF IInv, Types, QueueOK, RxOK, CurOK, WaitOK, JobOK, trans
<1>2. BusyHas' /\ ProtoKnown' /\ NeverStuck'
  BY DEF IInv, BusyHas, ProtoKnown, NeverStuck, trans, hist
<1> QED  BY <1>1, <1>2 DEF IInv, Types

LEMMA ConnectStep == ASSUME IInv, Connect PROVE IInv'
<1>1. AirOK' /\ BufOK' /\ LinkOK' /\ CountOK'
  BY DEF IInv, Types, Connect, AirOK, BufOK, LinkOK, CountOK, hist
<1> QED  BY <1>1, AsideKeeps DEF Connect

LEMMA SubscriptionStep == ASSUME IInv, Subscription PROVE IInv'
<1>1. AirOK' /\ BufOK' /\ LinkOK' /\ CountOK'
  BY DEF IInv, Types, Subscription, Fault, AirOK, BufOK, LinkOK, CountOK, hist
<1> QED  BY <1>1, AsideKeeps DEF Subscription

LEMMA AppCommandStep == ASSUME IInv, Command PROVE IInv'
<1>0. /\ Types /\ asked' = asked + 1 /\ air' = Append(air, [k |-> "cmd", n |-> asked'])
      /\ UNCHANGED <<q, rx, trans, link, faults, conns, done, hist, lost>>
  BY DEF IInv, Command, Ask
<1>1. [k |-> "cmd", n |-> asked'] \in Answers  BY <1>0 DEF Types, CountOK, Answers
<1>2. AirOK'  BY <1>0, <1>1, AppendProperties DEF Types, AirOK
<1>3. BufOK' /\ LinkOK' /\ CountOK'
  BY <1>0 DEF Types, BufOK, LinkOK, CountOK, link, hist
<1> QED  BY <1>0, <1>2, <1>3, AsideKeeps

LEMMA OtherBeginStep == ASSUME IInv, OtherBegin PROVE IInv'
<1>0. /\ Types /\ faults' = faults + 1 /\ buf' = Add(buf, OtherPacket)
      /\ other' = Len(Front(Add(buf, OtherPacket)))
      /\ UNCHANGED <<q, rx, trans, conn, ccc, app, got, air, asked, conns, done, hist, lost>>
  BY DEF IInv, OtherBegin, Fault
<1>1. Add(buf, OtherPacket) \in Seq(CellSet) /\ Len(Add(buf, OtherPacket)) <= BufCells
  BY <1>0, AddType, OtherType DEF Types, BufOK
<1>2. other' \in 0 .. Len(buf')  BY <1>0, <1>1, FrontType
<1>3. AirOK' /\ BufOK' /\ LinkOK' /\ CountOK'
  BY <1>0, <1>1, <1>2, LenProperties DEF Types, AirOK, BufOK, LinkOK, CountOK, hist
<1> QED  BY <1>0, <1>3, AsideKeeps

\* and cells are taken from the buffer only after they were put there.
LEMMA OtherEndStep == ASSUME IInv, OtherEnd PROVE IInv'
<1>0. /\ Types /\ other' = 0
      /\ \/ buf' = Rest(buf, other) /\ Deliver(SubSeq(buf, 1, other))
         \/ UNCHANGED <<buf, app, got, air>>
      /\ UNCHANGED <<q, rx, trans, conn, ccc, bounds, done, hist, lost>>
  BY DEF IInv, OtherEnd
<1>1. LinkOK' /\ CountOK'  BY <1>0 DEF Types, LinkOK, CountOK, bounds, hist
<1>2. AirOK' /\ BufOK'
  <2>1. CASE UNCHANGED <<buf, app, got, air>>  BY <1>0, <2>1 DEF Types, AirOK, BufOK
  <2>2. CASE buf' = Rest(buf, other) /\ Deliver(SubSeq(buf, 1, other))
    <3>1. other \in 0 .. Len(buf)  BY <1>0 DEF Types, BufOK, LinkOK
    <3>2. SubSeq(buf, 1, other) \in Seq(CellSet) /\ buf' \in Seq(CellSet) /\ Len(buf') <= BufCells
      BY <1>0, <2>2, <3>1, PartType DEF Types, BufOK
    <3>3. AirOK'  BY <1>0, <2>2, <3>2, DeliverType DEF Types
    <3>4. 0 <= Len(buf')  BY <3>2, LenProperties
    <3> QED  BY <1>0, <3>2, <3>3, <3>4 DEF BufOK
  <2> QED  BY <1>0, <2>1, <2>2
<1> QED  BY <1>0, <1>1, <1>2, AsideKeeps

LEMMA DisconnectStep == ASSUME IInv, Disconnect PROVE IInv'
<1>0. /\ Types /\ conn' = FALSE /\ ccc' = FALSE /\ air' = <<>>
      /\ timer' = FALSE /\ cur' = Idle /\ wait' = None
      /\ UNCHANGED <<q, rx, buf, other, app, got, bounds, done, hist, lost>>
  BY DEF IInv, Disconnect
<1>1. JobOK' /\ (job.k = "start" /\ job.resp.k = "resp" => job.len = job.resp.size)'
  <2>1. CASE UNCHANGED job  BY <1>0, <2>1 DEF IInv, Types, JobOK, ProtoKnown
  <2>2. ASSUME job.k \in {"start", "store"}, NEW r \in Torn(job.resp), job' = [job EXCEPT !.resp = r]
        PROVE  JobOK' /\ (job.k = "start" /\ job.resp.k = "resp" => job.len = job.resp.size)'
    <3>1. job \in Starts \cup Stores  BY <1>0, <2>2 DEF Types, JobOK, NoJob, Sends
    <3>2. job.resp \in Copies  BY <3>1 DEF Starts, Stores
    <3>3. r \in Copies /\ (r = job.resp \/ r.k = "zero")
      <4>1. job.resp.size \in Sizes \cup {0}  BY <3>2 DEF Copies, Resps
      <4> QED  BY <2>2, <3>2, <4>1 DEF Torn, Copies
    <3>4. job' \in Starts \cup Stores  BY <2>2, <3>1, <3>3 DEF Starts, Stores
    <3>5. /\ job'.resp = r /\ job'.k = job.k /\ (job.k = "start" => job'.len = job.len)
      BY <2>2, <3>1 DEF Starts, Stores
    <3>6. job.k = "start" /\ job.resp.k = "resp" => job.len = job.resp.size
      BY DEF IInv, ProtoKnown
    <3> QED  BY <3>3, <3>4, <3>5, <3>6 DEF JobOK
  <2> QED  BY <2>1, <2>2 DEF Disconnect
<1>2. CurOK' /\ BusyHas' /\ ProtoKnown' /\ NeverStuck'
  BY <1>0, <1>1, IdleType DEF CurOK, BusyHas, ProtoKnown, NeverStuck
<1>3. AirOK' /\ WaitOK'  BY <1>0, EmptySeq DEF AirOK, WaitOK
<1>4. QueueOK' /\ RxOK' /\ BufOK' /\ LinkOK' /\ CountOK'
  BY <1>0 DEF Types, QueueOK, RxOK, BufOK, LinkOK, CountOK, bounds, hist
<1> QED  BY <1>1, <1>2, <1>3, <1>4 DEF IInv, Types
-----------------------------------------------------------------------------
(* Theorems: types, and never stuck *)

LEMMA InitHolds == Init => IInv
<1> SUFFICES ASSUME Init PROVE IInv  OBVIOUS
<1>0. q = <<>> /\ air = <<>> /\ buf = <<>> /\ other = 0 /\ lost = FALSE  BY DEF Init
<1>1. QueueOK /\ AirOK /\ BufOK
  <2>1. q \in Seq(Msgs) /\ air \in Seq(Answers) /\ buf \in Seq(CellSet)
    BY <1>0, EmptySeq
  <2>2. Len(q) = 0 /\ Len(buf) = 0  BY <1>0, EmptySeq
  <2>3. Len(q) <= QueueLen /\ Len(buf) <= BufCells /\ other <= Len(buf)
    BY <2>2, <1>0, ConstantsAssumption
  <2> QED  BY <1>0, <2>1, <2>3 DEF QueueOK, AirOK, BufOK
<1>2. RxOK /\ CurOK /\ BusyHas /\ ProtoKnown /\ NeverStuck
  BY NoneType, IdleType DEF Init, RxOK, CurOK, BusyHas, ProtoKnown, NeverStuck, NoJob
<1>3. WaitOK /\ JobOK /\ LinkOK /\ CountOK
  BY DEF Init, WaitOK, JobOK, LinkOK, CountOK
<1> QED  BY <1>1, <1>2, <1>3 DEF IInv, Types

LEMMA StepKeeps == IInv /\ [Next]_vars => IInv'
<1> SUFFICES ASSUME IInv, [Next]_vars PROVE IInv'  OBVIOUS
<1>1. CASE BleThread
  BY <1>1, TxStep, CommandStep, OtherAnswerStep, ConfirmedStep, AckStep, TimeoutStep,
     BeginStep, BeginNarrowStep, StoreStep, TransmitStep, RetransmitStep DEF BleThread
<1>2. CASE TimerExpires  BY <1>2, TimerStep
<1>3. CASE Outside
  BY <1>3, InputStep, ConnectStep, SubscriptionStep, DisconnectStep, AppCommandStep, SendMsgStep,
     OtherBeginStep, OtherEndStep DEF Outside
<1>4. CASE UNCHANGED vars
  <2>1. UNCHANGED <<q, rx, trans, hist, lost>>  BY <1>4 DEF vars
  <2>2. AirOK' /\ BufOK' /\ LinkOK' /\ CountOK'
    BY <1>4 DEF vars, IInv, Types, AirOK, BufOK, LinkOK, CountOK, link, bounds, hist
  <2> QED  BY <2>1, <2>2, AsideKeeps
<1> QED  BY <1>1, <1>2, <1>3, <1>4 DEF Next

\* The queue, the notification buffer and the number of repetitions keep their limits and
\* every variable of the transport its type, whatever the app, the connection and the other
\* senders of notifications do.
THEOREM TypeCorrect == Spec => []TypeOK
<1>1. Spec => []IInv  BY InitHolds, StepKeeps, PTL DEF Spec
<1>2. IInv => TypeOK  BY TypesAreTypeOK DEF IInv
<1> QED  BY <1>1, <1>2, PTL

\* A transfer under way is always about to be looked at again: the BLE thread is sending its
\* packet, or the packet is out and the timer of ble_packet_trans_rsp_timeout_cb runs, or
\* its message is in the queue.  Excepted are, as in NeverStuck: a message dropped by a full
\* queue, a transfer begun with an MTU below 39, and a transfer whose length the clean-up of
\* a disconnect cleared between its assignment and that of is_busy.
THEOREM NeverStuckCorrect == Spec => []NeverStuck
<1>1. Spec => []IInv  BY InitHolds, StepKeeps, PTL DEF Spec
<1>2. IInv => NeverStuck  BY DEF IInv
<1> QED  BY <1>1, <1>2, PTL
-----------------------------------------------------------------------------
(* What the app puts together *)

Prefix(r, n) == [i \in 1 .. n |-> [resp |-> r, u |-> i]]

\* p is one packet of a response, with the number that its place gives it.
IsPart(p) ==
  /\ p \in Packets /\ p.resp \in Resps /\ p.len >= 1 /\ p.off + p.len <= p.resp.size
  /\ p.proto \in {"single", "multi"}
  /\ p.proto = "single" => p.resp.size = 1 /\ p.off = 0 /\ p.len = 1 /\ p.seq = 0
  /\ p.proto = "multi" => /\ p.seq = 0 <=> p.off = 0
                          /\ p.seq = LAST <=> p.off + p.len = p.resp.size
                          /\ p.seq # LAST => p.seq <= p.off

\* n is the part after p.
Succ(p, n) ==
  /\ p.proto = "multi" /\ n.proto = "multi" /\ n.resp = p.resp /\ p.seq # LAST
  /\ n.off = p.off + p.len
  /\ n.seq = IF n.off + n.len = n.resp.size THEN LAST ELSE p.seq + 1

\* Packet p is the last one the app took, where a is what it put together of parts and g
\* what it took for complete; and p is one that it would take next.
Took(p, a, g) ==
  \/ p.proto = "single" /\ Prefix(p.resp, p.resp.size) \in g
  \/ /\ p.proto = "multi" /\ a.seq = p.seq
     /\ p.seq = LAST => Prefix(p.resp, p.resp.size) \in g
     /\ p.seq # LAST => a.data = Prefix(p.resp, p.off + p.len)
Ready(p, a) ==
  \/ p.seq = 0
  \/ a.seq \in 0 .. LAST - 1 /\ p.seq \in {a.seq + 1, LAST} /\ a.data = Prefix(p.resp, p.off)

AppOK == app.seq \in -1 .. LAST
GotOK == \A d \in got : \E r \in Resps : d = Prefix(r, r.size)

LEMMA SizeType == ASSUME NEW r \in Resps PROVE r.size \in Nat \ {0} /\ r.size <= LAST + 1
  BY ConstantsAssumption, PartsAssumption DEF Resps

\* The numbers of parts do not run into the number of the last one.
LEMMA PartSeq ==
  ASSUME NEW p, IsPart(p)
  PROVE  /\ p.seq \in 0 .. LAST /\ p.off \in Nat /\ p.len \in Nat \ {0}
         /\ p.resp.size \in Nat \ {0} /\ p.resp.size <= LAST + 1
<1>1. p.seq \in Nat /\ p.off \in Nat /\ p.len \in Nat  BY DEF IsPart, Packets
<1>2. p.resp.size \in Nat \ {0} /\ p.resp.size <= LAST + 1  BY SizeType DEF IsPart
<1>3. p.len \in Nat \ {0}  BY <1>1 DEF IsPart
<1>4. p.seq \in 0 .. LAST
  <2>1. CASE p.seq # 0 /\ p.seq # LAST
    <3>1. p.proto = "multi" /\ p.off + p.len # p.resp.size /\ p.seq <= p.off
      BY <2>1 DEF IsPart
    <3>2. p.off + p.len <= p.resp.size  BY DEF IsPart
    <3> QED  BY <1>1, <1>2, <1>3, <3>1, <3>2 DEF LAST
  <2>2. CASE p.seq = 0 \/ p.seq = LAST  BY <1>1, <2>2 DEF LAST
  <2> QED  BY <2>1, <2>2
<1> QED  BY <1>1, <1>2, <1>3, <1>4

LEMMA PrefixType ==
  ASSUME NEW r, NEW n \in Nat
  PROVE  Prefix(r, n) \in Seq([resp : {r}, u : Nat]) /\ Len(Prefix(r, n)) = n
  BY DEF Prefix

LEMMA PrefixDiffer ==
  ASSUME NEW r, NEW m \in Nat, NEW n \in Nat, Prefix(r, m) = Prefix(r, n)
  PROVE  m = n
  BY PrefixType

LEMMA PrefixWhole ==
  ASSUME NEW r \in Resps
  PROVE  Whole(Prefix(r, r.size)) /\ Prefix(r, r.size)[1].resp = r
<1>1. r.size \in Nat \ {0}  BY SizeType
<1>2. Prefix(r, r.size)[1] = [resp |-> r, u |-> 1]  BY <1>1 DEF Prefix
<1>3. Len(Prefix(r, r.size)) = r.size  BY <1>1, PrefixType
<1>4. Prefix(r, r.size) # <<>>  BY <1>1, <1>3, EmptySeq
<1>5. Prefix(r, r.size)[1].resp = r  BY <1>2
<1>6. Prefix(r, r.size) = [u \in 1 .. r.size |-> [resp |-> r, u |-> u]]  BY DEF Prefix
<1> QED  BY <1>4, <1>5, <1>6 DEF Whole

\* The units of a part continue what is there up to its place.
LEMMA PrefixUnits ==
  ASSUME NEW p, p.off \in Nat, p.len \in Nat
  PROVE  /\ Prefix(p.resp, p.off) \o Units(p) = Prefix(p.resp, p.off + p.len)
         /\ p.off = 0 => Units(p) = Prefix(p.resp, p.len)
<1> DEFINE S == [resp : {p.resp}, u : Nat]
           A == Prefix(p.resp, p.off)
           B == Units(p)
           C == Prefix(p.resp, p.off + p.len)
<1>1. A \in Seq(S) /\ Len(A) = p.off /\ C \in Seq(S) /\ Len(C) = p.off + p.len
  <2>1. p.off + p.len \in Nat  OBVIOUS
  <2> QED  BY <2>1, PrefixType
<1>2. B \in Seq(S) /\ Len(B) = p.len
  <2>1. \A i \in 1 .. p.len : [resp |-> p.resp, u |-> p.off + i] \in S  OBVIOUS
  <2> HIDE DEF S
  <2> QED  BY <2>1 DEF Units
<1>3. /\ A \o B \in Seq(S) /\ Len(A \o B) = p.off + p.len
      /\ \A i \in 1 .. p.off + p.len :
           (A \o B)[i] = IF i <= p.off THEN A[i] ELSE B[i - p.off]
  <2> HIDE DEF A, B, C, S
  <2>1. /\ A \o B \in Seq(S) /\ Len(A \o B) = Len(A) + Len(B)
        /\ \A i \in 1 .. Len(A) + Len(B) :
             (A \o B)[i] = IF i <= Len(A) THEN A[i] ELSE B[i - Len(A)]
    BY <1>1, <1>2, ConcatProperties
  <2> QED  BY <2>1, <1>1, <1>2
<1>4. ASSUME NEW i \in 1 .. p.off + p.len PROVE (A \o B)[i] = C[i]
  <2>1. C[i] = [resp |-> p.resp, u |-> i]  BY DEF Prefix
  <2>2. CASE i <= p.off
    <3>1. A[i] = [resp |-> p.resp, u |-> i]  BY <2>2 DEF Prefix
    <3> QED  BY <1>3, <2>1, <2>2, <3>1
  <2>3. CASE ~(i <= p.off)
    <3>1. i - p.off \in 1 .. p.len  BY <2>3
    <3>2. B[i - p.off] = [resp |-> p.resp, u |-> p.off + (i - p.off)]  BY <3>1 DEF Units
    <3>3. p.off + (i - p.off) = i  OBVIOUS
    <3>4. B[i - p.off] = C[i]  BY <3>2, <3>3, <2>1
    <3> HIDE DEF A, B, C
    <3> QED  BY <1>3, <2>3, <3>4
  <2> QED  BY <2>2, <2>3
<1>5. A \o B = C
  <2> HIDE DEF A, B, C, S
  <2> QED  BY <1>1, <1>3, <1>4, SeqEqual
<1>6. ASSUME p.off = 0 PROVE Units(p) = Prefix(p.resp, p.len)
  BY <1>6 DEF Units, Prefix
<1> QED  BY <1>5, <1>6

IsAnswer(x, p) ==
  \/ p.proto = "single" /\ x.k = "ok"
  \/ p.proto = "multi" /\ x.k = "ack" /\ x.n = p.seq

LEMMA TookMore ==
  ASSUME NEW p, NEW a, NEW g, NEW h, g \subseteq h, Took(p, a, g)
  PROVE  Took(p, a, h)
  BY DEF Took

\* A packet that the app took last or expects next it has afterwards; another one, of which
\* the app may confirm only the end, leaves no trace unless the app has it from then on.
LEMMA TakeEffect ==
  ASSUME AppOK, NEW p, IsPart(p), Take(p),
         app.seq \in {-1, LAST} \/ Took(p, app, got) \/ Ready(p, app)
  PROVE  /\ UNCHANGED <<app, got>> \/ (/\ Took(p, app', got')
                                       /\ p.proto = "single" => app' = app
                                       /\ p.proto = "multi" => app'.seq = p.seq)
         /\ Took(p, app, got) \/ Ready(p, app) => Took(p, app', got')
         /\ got' \in {got, got \cup {Prefix(p.resp, p.resp.size)}}
         /\ AppOK' /\ (Answer(p) \/ UNCHANGED air)
<1> DEFINE W == Prefix(p.resp, p.resp.size)
<1>0. /\ p.seq \in 0 .. LAST /\ p.off \in Nat /\ p.len \in Nat \ {0} /\ app.seq \in -1 .. LAST
      /\ p.resp.size \in Nat
  BY PartSeq DEF AppOK
<1>00. /\ Prefix(p.resp, p.off) \o Units(p) = Prefix(p.resp, p.off + p.len)
       /\ p.off = 0 => Units(p) = Prefix(p.resp, p.len)
  BY <1>0, PrefixUnits
<1>1. CASE p.proto = "single" /\ got' = got \cup {Units(p)} /\ UNCHANGED app /\ Answer(p)
  <2>1. Units(p) = W  BY <1>1, <1>00 DEF IsPart
  <2>2. Took(p, app', got') /\ got' = got \cup {W}  BY <1>1, <2>1 DEF Took
  <2>3. AppOK'  BY <1>1 DEF AppOK
  <2> QED  BY <1>1, <2>2, <2>3
<1>2. CASE /\ p.proto = "multi" /\ p.seq = 0
           /\ app' = [seq |-> 0, data |-> Units(p)] /\ UNCHANGED got /\ Answer(p)
  <2>1. p.off = 0 /\ p.seq # LAST  BY <1>2 DEF IsPart, LAST
  <2>2. Units(p) = Prefix(p.resp, p.off + p.len)
    <3>1. p.off + p.len = p.len  BY <1>0, <2>1
    <3> QED  BY <1>00, <2>1, <3>1
  <2>3. app'.seq = p.seq /\ app'.data = Units(p)  BY <1>2
  <2>4. Took(p, app', got')  BY <1>2, <2>1, <2>2, <2>3 DEF Took
  <2>5. AppOK'  BY <1>0, <2>3 DEF AppOK
  <2> QED  BY <1>2, <2>3, <2>4, <2>5
<1>3. CASE p.proto = "multi" /\ p.seq # 0 /\ app.seq = p.seq /\ UNCHANGED <<app, got>> /\ Answer(p)
  <2>1. ~Ready(p, app)  BY <1>0, <1>3 DEF Ready, LAST
  <2>2. Took(p, app, got) => Took(p, app', got')  BY <1>3
  <2>3. AppOK'  BY <1>3 DEF AppOK
  <2> QED  BY <1>3, <2>1, <2>2, <2>3
<1>4. CASE /\ p.proto = "multi" /\ p.seq # 0 /\ app.seq \in 0 .. LAST - 1
           /\ p.seq \in {app.seq + 1, LAST}
           /\ app' = [seq |-> p.seq, data |-> IF p.seq = LAST THEN <<>> ELSE app.data \o Units(p)]
           /\ got' = IF p.seq = LAST THEN got \cup {app.data \o Units(p)} ELSE got
           /\ Answer(p)
  <2>1. ~Took(p, app, got) /\ app.seq \notin {-1, LAST}
    <3>1. app.seq \in 0 .. 254 /\ p.seq \in {app.seq + 1, 255}  BY <1>4 DEF LAST
    <3>2. app.seq # p.seq /\ app.seq \notin {-1, 255}  BY <3>1
    <3> QED  BY <1>4, <3>2 DEF Took, LAST
  <2>2. app.data = Prefix(p.resp, p.off)  BY <1>4, <2>1 DEF Ready
  <2>3. app.data \o Units(p) = Prefix(p.resp, p.off + p.len)  BY <1>00, <2>2
  <2>4. app'.seq = p.seq  BY <1>4
  <2>5. AppOK'  BY <1>0, <2>4 DEF AppOK
  <2>6. CASE p.seq = LAST
    <3>1. p.off + p.len = p.resp.size  BY <1>4, <2>6 DEF IsPart
    <3>2. got' = got \cup {W}  BY <1>4, <2>3, <2>6, <3>1
    <3>3. Took(p, app', got')  BY <1>4, <2>4, <2>6, <3>2 DEF Took
    <3> QED  BY <1>4, <2>4, <2>5, <3>2, <3>3
  <2>7. CASE p.seq # LAST
    <3>1. app'.data = Prefix(p.resp, p.off + p.len) /\ got' = got  BY <1>4, <2>3, <2>7
    <3>2. Took(p, app', got')  BY <1>4, <2>4, <2>7, <3>1 DEF Took
    <3> QED  BY <1>4, <2>4, <2>5, <3>1, <3>2
  <2> QED  BY <2>6, <2>7
<1>5. CASE /\ p.proto = "multi" /\ p.seq # 0 /\ app.seq # p.seq
           /\ app.seq \in {-1, LAST} \/ p.seq \notin {app.seq + 1, LAST}
           /\ UNCHANGED <<app, got, air>>
  <2>1. ~Took(p, app, got)  BY <1>5 DEF Took
  <2>2. ~Ready(p, app)  BY <1>0, <1>5 DEF Ready, LAST
  <2>3. AppOK'  BY <1>5 DEF AppOK
  <2> QED  BY <1>5, <2>1, <2>2, <2>3
<1> QED  BY <1>1, <1>2, <1>3, <1>4, <1>5 DEF Take
-----------------------------------------------------------------------------
(* The packets in the notification buffer *)

Ours(c) == c.p.proto # "other"

\* Packets in the buffer come in the order of the parts of one response, each perhaps
\* repeated, and the app, unless it waits for the first part, can make no mistake about them.
Fits(line, a, g) ==
  \A i \in 1 .. Len(line) : Ours(line[i]) =>
    /\ IsPart(line[i].p)
    /\ a.seq \in {-1, LAST} \/ Took(line[i].p, a, g) \/ Ready(line[i].p, a)
InOrder(line) ==
  \A i, j \in 1 .. Len(line) : i < j /\ Ours(line[i]) /\ Ours(line[j]) =>
    line[i].p = line[j].p \/ Succ(line[i].p, line[j].p)
LineOK(line, a, g) == Fits(line, a, g) /\ InOrder(line)

\* Packet p is under way: the app has it or expects it, and in front of it there is at most
\* the part before it, as long as the app does not have p.
UnderWay(p, line, a, g) ==
  /\ IsPart(p) /\ (Took(p, a, g) \/ Ready(p, a))
  /\ \A i \in 1 .. Len(line) : Ours(line[i]) =>
       line[i].p = p \/ (Succ(line[i].p, p) /\ ~Took(p, a, g))

LEMMA SuccFacts ==
  ASSUME NEW p, NEW n, IsPart(p), IsPart(n), Succ(p, n)
  PROVE  /\ p.proto = "multi" /\ n.proto = "multi" /\ n.resp = p.resp
         /\ p.seq \in 0 .. LAST - 1 /\ n.seq \in 1 .. LAST /\ n.seq \in {p.seq + 1, LAST}
         /\ n.off = p.off + p.len /\ n.off > p.off /\ n.seq > p.seq
<1>1. /\ p.seq \in 0 .. LAST /\ p.off \in Nat /\ p.len \in Nat \ {0}
      /\ n.seq \in 0 .. LAST /\ n.off \in Nat
  BY PartSeq
<1> QED  BY <1>1 DEF Succ, LAST

\* A part that follows the one the app took last is the one it expects.
LEMMA SuccReady ==
  ASSUME NEW p, NEW n, NEW a, NEW g, IsPart(p), IsPart(n), Succ(p, n), Took(p, a, g)
  PROVE  Ready(n, a) /\ ~Took(n, a, g)
<1>1. /\ p.proto = "multi" /\ n.proto = "multi" /\ n.resp = p.resp
      /\ p.seq \in 0 .. LAST - 1 /\ n.seq \in 1 .. LAST /\ n.seq \in {p.seq + 1, LAST}
      /\ n.off = p.off + p.len /\ n.seq > p.seq
  BY SuccFacts
<1>2. p.seq # LAST  BY <1>1 DEF LAST
<1>3. a.seq = p.seq /\ a.data = Prefix(p.resp, p.off + p.len)
  BY <1>1, <1>2 DEF Took
<1>4. Ready(n, a)  BY <1>1, <1>3 DEF Ready
<1>5. a.seq # n.seq  BY <1>1, <1>3 DEF LAST
<1> QED  BY <1>1, <1>4, <1>5 DEF Took

LEMMA NotBefore ==
  ASSUME NEW p, NEW n, IsPart(p), IsPart(n), Succ(p, n)
  PROVE  p # n /\ ~Succ(n, p)
<1>1. n.off > p.off /\ p.off \in Nat /\ n.off \in Nat  BY SuccFacts, PartSeq
<1>2. ASSUME Succ(n, p) PROVE FALSE
  <2>1. p.off > n.off  BY <1>2, SuccFacts
  <2> QED  BY <1>1, <2>1
<1> QED  BY <1>1, <1>2

LEMMA ReadyBetween ==
  ASSUME NEW p, NEW a, Ready(p, a), p.seq # 0
  PROVE  a.seq \notin {-1, LAST}
<1>1. a.seq \in 0 .. 254  BY DEF Ready, LAST
<1> QED  BY <1>1 DEF LAST

\* The packet in front of the buffer reaches the app: the others in the buffer still fit,
LEMMA TakeLine ==
  ASSUME AppOK, NEW line \in Seq(CellSet), line # <<>>, Ours(line[1]), LineOK(line, app, got),
         Take(line[1].p)
  PROVE  /\ LineOK(line, app', got') /\ AppOK'
         /\ got' \in {got, got \cup {Prefix(line[1].p.resp, line[1].p.resp.size)}}
         /\ Answer(line[1].p) \/ UNCHANGED air
<1> DEFINE f == line[1].p
<1>1. 1 \in 1 .. Len(line)  BY EmptySeq, LenProperties
<1>2. IsPart(f) /\ (app.seq \in {-1, LAST} \/ Took(f, app, got) \/ Ready(f, app))
  BY <1>1 DEF LineOK, Fits
<1> HIDE DEF f
<1>3. /\ UNCHANGED <<app, got>> \/ Took(f, app', got')
      /\ got' \in {got, got \cup {Prefix(f.resp, f.resp.size)}}
      /\ AppOK' /\ (Answer(f) \/ UNCHANGED air)
  BY <1>2, TakeEffect DEF f
<1>4. CASE Took(f, app', got')
  <2>1. ASSUME NEW i \in 1 .. Len(line), Ours(line[i])
        PROVE  IsPart(line[i].p) /\ (Took(line[i].p, app', got') \/ Ready(line[i].p, app'))
    <3>1. IsPart(line[i].p)  BY <2>1 DEF LineOK, Fits
    <3>2. line[i].p = f \/ Succ(f, line[i].p)
      BY <1>1, <2>1 DEF LineOK, InOrder, f
    <3> QED  BY <1>2, <1>4, <3>1, <3>2, SuccReady
  <2> QED  BY <1>3, <2>1 DEF LineOK, Fits, f
<1>5. CASE UNCHANGED <<app, got>>  BY <1>3, <1>5 DEF f
<1> QED  BY <1>3, <1>4, <1>5

\* and the one under way is still under way.
LEMMA TakeUnderWay ==
  ASSUME AppOK, NEW line \in Seq(CellSet), line # <<>>, Ours(line[1]), LineOK(line, app, got),
         Take(line[1].p), NEW p, UnderWay(p, line, app, got)
  PROVE  /\ UnderWay(p, line, app', got')
         /\ line[1].p = p => Took(p, app', got')
         /\ line[1].p # p => IsPart(line[1].p) /\ Succ(line[1].p, p) /\ ~Took(p, app, got)
<1> DEFINE f == line[1].p
<1>1. 1 \in 1 .. Len(line)  BY EmptySeq, LenProperties
<1>2. IsPart(f) /\ (app.seq \in {-1, LAST} \/ Took(f, app, got) \/ Ready(f, app))
  BY <1>1 DEF LineOK, Fits
<1>3. IsPart(p) /\ (Took(p, app, got) \/ Ready(p, app))  BY DEF UnderWay
<1>4. f = p \/ (Succ(f, p) /\ ~Took(p, app, got))  BY <1>1 DEF UnderWay
<1> HIDE DEF f
<1>5. Took(f, app, got) \/ Ready(f, app) => Took(f, app', got')  BY <1>2, TakeEffect DEF f
<1>6. CASE f = p
  <2>1. Took(p, app', got')  BY <1>3, <1>5, <1>6
  <2>2. ASSUME NEW i \in 1 .. Len(line), Ours(line[i]) PROVE line[i].p = p
    <3>1. IsPart(line[i].p)  BY <2>2 DEF LineOK, Fits
    <3>2. line[i].p = p \/ Succ(p, line[i].p)  BY <1>1, <1>6, <2>2 DEF LineOK, InOrder, f
    <3>3. line[i].p = p \/ Succ(line[i].p, p)  BY <2>2 DEF UnderWay
    <3> QED  BY <1>3, <3>1, <3>2, <3>3, NotBefore
  <2> QED  BY <1>3, <1>6, <2>1, <2>2 DEF UnderWay, f
<1>7. CASE f # p
  <2>1. Succ(f, p) /\ ~Took(p, app, got) /\ Ready(p, app)  BY <1>3, <1>4, <1>7
  <2>2. p.seq \in 1 .. LAST  BY <1>2, <1>3, <2>1, SuccFacts
  <2>3. app.seq \notin {-1, LAST}
    <3>1. p.seq # 0  BY <2>2
    <3> QED  BY <2>1, <3>1, ReadyBetween
  <2>4. Took(f, app', got')  BY <1>2, <1>5, <2>3
  <2>5. Ready(p, app') /\ ~Took(p, app', got')  BY <1>2, <1>3, <2>1, <2>4, SuccReady
  <2>6. \A i \in 1 .. Len(line) : Ours(line[i]) => line[i].p = p \/ Succ(line[i].p, p)
    BY DEF UnderWay
  <2>7. UnderWay(p, line, app', got')  BY <1>3, <2>5, <2>6 DEF UnderWay
  <2> QED  BY <1>2, <1>7, <2>1, <2>7 DEF f
<1> QED  BY <1>6, <1>7
-----------------------------------------------------------------------------
(* The answers of the app *)

\* Answers to packet p, in the receive buffer (r) or under way (s), mean that the app has p,
\* and none to a later part is behind them.
Later(x, p) == p.proto = "multi" /\ x.k = "ack" /\ x.n > p.seq
Answered(p, r, s, a, g) ==
  /\ IsAnswer(r, p) => Took(p, a, g) /\ \A j \in 1 .. Len(s) : ~Later(s[j], p)
  /\ \A i \in 1 .. Len(s) : IsAnswer(s[i], p) =>
       Took(p, a, g) /\ \A j \in i + 1 .. Len(s) : ~Later(s[j], p)

NoAnswer(p, s) == \A i \in 1 .. Len(s) : ~IsAnswer(s[i], p)

\* A confirmation of a single packet carries no number.
AirPlain == \A i \in 1 .. Len(air) : air[i].k = "ok" => air[i].n = 0

\* What the app says next is an answer to the packet it was given.
LEMMA AnswerIs ==
  ASSUME AirOK, NEW p, IsPart(p), Answer(p) \/ UNCHANGED air
  PROVE  \/ air' = air
         \/ \E x \in Answers : /\ air' = Append(air, x) /\ IsAnswer(x, p)
                               /\ x.k = "ok" => x.n = 0
<1>0. p.seq \in Nat /\ p.proto \in {"single", "multi"}  BY PartSeq DEF IsPart
<1>1. CASE UNCHANGED air  BY <1>1
<1>2. CASE Answer(p) /\ p.proto = "single"
  <2> DEFINE x == [k |-> "ok", n |-> 0]
  <2>1. air' \in {air, Append(air, x)}  BY <1>2 DEF Answer
  <2>2. x \in Answers /\ x.k = "ok" /\ x.n = 0  BY DEF Answers
  <2> HIDE DEF x
  <2>3. IsAnswer(x, p)  BY <1>2, <2>2 DEF IsAnswer
  <2> QED  BY <1>2, <2>1, <2>2, <2>3
<1>3. CASE Answer(p) /\ p.proto = "multi"
  <2> DEFINE x == [k |-> "ack", n |-> p.seq]
  <2>1. air' \in {air, Append(air, x)}  BY <1>3 DEF Answer
  <2>2. x \in Answers /\ x.k = "ack" /\ x.n = p.seq  BY <1>0 DEF Answers
  <2> HIDE DEF x
  <2>3. IsAnswer(x, p)  BY <1>3, <2>2 DEF IsAnswer
  <2> QED  BY <1>3, <2>1, <2>2, <2>3
<1> QED  BY <1>0, <1>1, <1>2, <1>3

\* An answer to p is not one to the part before it or after it.
LEMMA OneAnswer ==
  ASSUME NEW p, NEW n, IsPart(p), IsPart(n), Succ(p, n), NEW x
  PROVE  ~(IsAnswer(x, p) /\ IsAnswer(x, n))
<1>1. p.proto = "multi" /\ n.proto = "multi"  BY DEF Succ
<1>2. p.seq # n.seq
  <2>1. n.seq > p.seq /\ p.seq \in Nat  BY SuccFacts, PartSeq
  <2> QED  BY <2>1
<1> QED  BY <1>1, <1>2 DEF IsAnswer

LEMMA NotLater ==
  ASSUME NEW p, IsPart(p), NEW x, IsAnswer(x, p)
  PROVE  ~Later(x, p)
<1>1. p.seq \in Nat  BY PartSeq
<1> QED  BY <1>1 DEF IsAnswer, Later

\* One more answer, behind the others.
LEMMA AppendAnswered ==
  ASSUME NEW p, NEW r, NEW s \in Seq(Answers), NEW x \in Answers, NEW a, NEW g,
         Answered(p, r, s, a, g), IsAnswer(x, p) => Took(p, a, g), Took(p, a, g) => ~Later(x, p)
  PROVE  Answered(p, r, Append(s, x), a, g)
<1> DEFINE t == Append(s, x)
<1>1. /\ Len(t) = Len(s) + 1 /\ Len(s) \in Nat
      /\ \A i \in 1 .. Len(s) : t[i] = s[i]
      /\ t[Len(s) + 1] = x
  BY AppendProperties
<1> HIDE DEF t
<1>2. ASSUME NEW i \in 1 .. Len(t) PROVE (i \in 1 .. Len(s) /\ t[i] = s[i]) \/ (i = Len(s) + 1 /\ t[i] = x)
  BY <1>1
<1>3. ASSUME IsAnswer(r, p) PROVE Took(p, a, g) /\ \A j \in 1 .. Len(t) : ~Later(t[j], p)
  BY <1>2, <1>3 DEF Answered
<1>4. ASSUME NEW i \in 1 .. Len(t), IsAnswer(t[i], p)
      PROVE  Took(p, a, g) /\ \A j \in i + 1 .. Len(t) : ~Later(t[j], p)
  <2>1. CASE i \in 1 .. Len(s) /\ t[i] = s[i]
    <3>1. Took(p, a, g) /\ \A j \in i + 1 .. Len(s) : ~Later(s[j], p)
      BY <1>4, <2>1 DEF Answered
    <3>2. ASSUME NEW j \in i + 1 .. Len(t) PROVE ~Later(t[j], p)
      <4>1. j \in 1 .. Len(t)  BY <1>1, <2>1
      <4>2. CASE j \in 1 .. Len(s) /\ t[j] = s[j]
        <5>1. j \in i + 1 .. Len(s)  BY <2>1, <3>2, <4>2, <1>1
        <5> QED  BY <3>1, <4>2, <5>1
      <4>3. CASE t[j] = x  BY <3>1, <4>3
      <4> QED  BY <1>2, <4>1, <4>2, <4>3
    <3> QED  BY <3>1, <3>2
  <2>2. CASE i = Len(s) + 1 /\ t[i] = x
    <3>1. i + 1 .. Len(t) = {}  BY <1>1, <2>2
    <3> QED  BY <1>4, <2>2, <3>1
  <2> QED  BY <1>2, <2>1, <2>2
<1> QED  BY <1>3, <1>4 DEF Answered, t

\* Answered depends on what the app has only through Took.
LEMMA TookAnswered ==
  ASSUME NEW p, NEW r, NEW s, NEW a, NEW g, NEW b, NEW h, Answered(p, r, s, a, g),
         Took(p, a, g) => Took(p, b, h)
  PROVE  Answered(p, r, s, b, h)
  BY DEF Answered

LEMMA TakeAnswered ==
  ASSUME AppOK, AirOK, NEW line \in Seq(CellSet), line # <<>>, Ours(line[1]),
         LineOK(line, app, got), Take(line[1].p), NEW p, UnderWay(p, line, app, got),
         NEW r, Answered(p, r, air, app, got)
  PROVE  Answered(p, r, air', app', got')
<1> DEFINE f == line[1].p
<1>1. /\ f = p => Took(p, app', got')
      /\ f # p => IsPart(f) /\ Succ(f, p) /\ ~Took(p, app, got)
  BY TakeUnderWay
<1>2. IsPart(p)  BY DEF UnderWay
<1>3. Answer(f) \/ UNCHANGED air  BY TakeLine
<1> HIDE DEF f
<1>4. Answered(p, r, air, app', got')
  <2>1. Took(p, app, got) => Took(p, app', got')  BY <1>1
  <2> QED  BY <2>1, TookAnswered
<1>5. IsPart(f)  BY <1>1, <1>2
<1>6. CASE air' = air  BY <1>4, <1>6
<1>7. ASSUME NEW x \in Answers, air' = Append(air, x), IsAnswer(x, f)
      PROVE  Answered(p, r, air', app', got')
  <2>0. air \in Seq(Answers)  BY DEF AirOK
  <2>1. CASE f = p
    <3>1. Took(p, app', got') /\ ~Later(x, p)  BY <1>1, <1>2, <1>7, <2>1, NotLater
    <3> QED  BY <1>4, <1>7, <2>0, <3>1, AppendAnswered
  <2>2. CASE f # p
    <3>1. ~IsAnswer(x, p)  BY <1>1, <1>2, <1>7, <2>2, OneAnswer
    <3>2. ~Later(x, p)
      <4>1. f.proto = "multi" /\ p.seq > f.seq /\ p.seq \in Nat /\ f.seq \in Nat
        BY <1>1, <1>2, <2>2, SuccFacts, PartSeq
      <4>2. x.n = f.seq  BY <1>7, <4>1 DEF IsAnswer
      <4> QED  BY <4>1, <4>2 DEF Later
    <3> QED  BY <1>4, <1>7, <2>0, <3>1, <3>2, AppendAnswered
  <2> QED  BY <2>1, <2>2
<1> QED  BY <1>3, <1>5, <1>6, <1>7, AnswerIs
-----------------------------------------------------------------------------
(* Cells that leave the buffer and packets that are added *)

LEMMA RestKeeps ==
  ASSUME NEW line \in Seq(CellSet), NEW n \in 0 .. Len(line), NEW a, NEW g
  PROVE  /\ LineOK(line, a, g) => LineOK(Rest(line, n), a, g)
         /\ \A p : UnderWay(p, line, a, g) => UnderWay(p, Rest(line, n), a, g)
         /\ \A i \in 1 .. Len(Rest(line, n)) : \E j \in 1 .. Len(line) : Rest(line, n)[i] = line[j]
<1> DEFINE t == Rest(line, n)
<1>0. Len(line) \in Nat /\ \A i \in n + 1 .. Len(line) : line[i] \in CellSet
  BY ElementOfSeq, LenProperties
<1>1. /\ Len(t) = Len(line) - n
      /\ \A i \in 1 .. Len(line) - n : t[i] = line[n + i]
  <2> DEFINE m == n + 1
  <2>1. m \in Int /\ t = SubSeq(line, m, Len(line))  BY DEF Rest
  <2> HIDE DEF m, t
  <2>2. m = n + 1 /\ \A i \in m .. Len(line) : line[i] \in CellSet  BY <1>0 DEF m
  <2>3. /\ Len(t) = IF m <= Len(line) THEN Len(line) - m + 1 ELSE 0
        /\ \A i \in 1 .. Len(line) - m + 1 : t[i] = line[m + i - 1]
    BY <1>0, <2>1, <2>2, SubSeqProperties
  <2>4. \A i \in 1 .. Len(line) - n : m + i - 1 = n + i  BY <1>0, <2>2
  <2>5. Len(line) - m + 1 = Len(line) - n  BY <1>0, <2>2
  <2>6. Len(t) = Len(line) - n
    <3>1. n \in Nat /\ n <= Len(line)  BY <1>0
    <3> QED  BY <1>0, <2>2, <2>3, <3>1
  <2>7. \A i \in 1 .. Len(line) - n : t[i] = line[m + i - 1]  BY <2>3, <2>5
  <2> QED  BY <2>4, <2>6, <2>7
<1> HIDE DEF t
<1>2. \A i \in 1 .. Len(t) : n + i \in 1 .. Len(line) /\ t[i] = line[n + i]  BY <1>0, <1>1
<1>3. ASSUME LineOK(line, a, g) PROVE LineOK(t, a, g)
  <2>1. Fits(t, a, g)  BY <1>2, <1>3 DEF LineOK, Fits
  <2>2. ASSUME NEW i \in 1 .. Len(t), NEW j \in 1 .. Len(t), i < j, Ours(t[i]), Ours(t[j])
        PROVE  t[i].p = t[j].p \/ Succ(t[i].p, t[j].p)
    <3>1. n + i < n + j  BY <2>2, <1>1, <1>0
    <3> QED  BY <1>2, <1>3, <2>2, <3>1 DEF LineOK, InOrder
  <2> QED  BY <2>1, <2>2 DEF LineOK, InOrder
<1>4. ASSUME NEW p, UnderWay(p, line, a, g) PROVE UnderWay(p, t, a, g)
  BY <1>2, <1>4 DEF UnderWay
<1> QED  BY <1>2, <1>3, <1>4 DEF t

\* Every cell of the buffer is an old one, in its place, or one of the packet added.
LEMMA AddCells ==
  ASSUME NEW b \in Seq(CellSet), NEW p \in Packets
  PROVE  /\ Len(b) \in Nat /\ Len(Add(b, p)) \in Nat
         /\ \A i \in 1 .. Len(Add(b, p)) :
              \/ i \in 1 .. Len(b) /\ Add(b, p)[i] = b[i]
              \/ i > Len(b) /\ Add(b, p)[i].p = p
<1>0. Len(b) \in Nat  OBVIOUS
<1>1. CASE Len(b) + PacketCells <= BufCells
  <2>1. Cells(p) \in Seq(CellSet) /\ Len(Cells(p)) = PacketCells  BY CellsType
  <2>2. \A i \in 1 .. PacketCells : Cells(p)[i].p = p  BY DEF Cells
  <2>3. /\ Len(b \o Cells(p)) = Len(b) + PacketCells
        /\ \A i \in 1 .. Len(b) + PacketCells :
             (b \o Cells(p))[i] = IF i <= Len(b) THEN b[i] ELSE Cells(p)[i - Len(b)]
    BY <2>1, ConcatProperties
  <2>4. Add(b, p) = b \o Cells(p)  BY <1>1 DEF Add
  <2>5. PacketCells \in Nat  BY ConstantsAssumption
  <2>6. ASSUME NEW i \in 1 .. Len(b) + PacketCells
        PROVE  \/ i \in 1 .. Len(b) /\ Add(b, p)[i] = b[i]
               \/ i > Len(b) /\ Add(b, p)[i].p = p
    <3>1. CASE i <= Len(b)
      <4>1. i \in 1 .. Len(b)  BY <1>0, <3>1
      <4> QED  BY <2>3, <2>4, <3>1, <4>1
    <3>2. CASE ~(i <= Len(b))
      <4>1. i - Len(b) \in 1 .. PacketCells /\ i > Len(b)  BY <1>0, <2>5, <3>2
      <4>2. Add(b, p)[i] = Cells(p)[i - Len(b)]  BY <2>3, <2>4, <3>2
      <4> QED  BY <2>2, <4>1, <4>2
    <3> QED  BY <3>1, <3>2
  <2> QED  BY <1>0, <2>3, <2>4, <2>5, <2>6
<1>2. CASE ~(Len(b) + PacketCells <= BufCells)
  <2>1. Add(b, p) = b  BY <1>2 DEF Add
  <2> QED  BY <1>0, <2>1
<1> QED  BY <1>1, <1>2

\* A notification of another thread changes nothing about the packets of the transport.
LEMMA AddOther ==
  ASSUME NEW b \in Seq(CellSet), NEW a, NEW g
  PROVE  /\ LineOK(b, a, g) => LineOK(Add(b, OtherPacket), a, g)
         /\ \A p : UnderWay(p, b, a, g) => UnderWay(p, Add(b, OtherPacket), a, g)
         /\ \A i \in 1 .. Len(Add(b, OtherPacket)) : Ours(Add(b, OtherPacket)[i]) =>
              \E j \in 1 .. Len(b) : Add(b, OtherPacket)[i] = b[j]
<1> DEFINE t == Add(b, OtherPacket)
<1>1. \A i \in 1 .. Len(t) : Ours(t[i]) => i \in 1 .. Len(b) /\ t[i] = b[i]
  <2>1. OtherPacket.proto = "other"  BY DEF OtherPacket
  <2>2. \A i \in 1 .. Len(t) : \/ i \in 1 .. Len(b) /\ t[i] = b[i]
                               \/ i > Len(b) /\ t[i].p = OtherPacket
    BY OtherType, AddCells
  <2> HIDE DEF t
  <2> QED  BY <2>1, <2>2 DEF Ours
<1> HIDE DEF t
<1>2. ASSUME LineOK(b, a, g) PROVE LineOK(t, a, g)
  <2>1. Fits(t, a, g)  BY <1>1, <1>2 DEF LineOK, Fits
  <2>2. InOrder(t)  BY <1>1, <1>2 DEF LineOK, InOrder
  <2> QED  BY <2>1, <2>2 DEF LineOK
<1>3. ASSUME NEW p, UnderWay(p, b, a, g) PROVE UnderWay(p, t, a, g)
  BY <1>1, <1>3 DEF UnderWay
<1> QED  BY <1>1, <1>2, <1>3 DEF t

\* The packet under way may be added again, behind the others.
LEMMA AddUnderWay ==
  ASSUME NEW b \in Seq(CellSet), NEW a, NEW g, NEW p, LineOK(b, a, g), UnderWay(p, b, a, g)
  PROVE  LineOK(Add(b, p), a, g) /\ UnderWay(p, Add(b, p), a, g)
<1> DEFINE t == Add(b, p)
<1>0. IsPart(p) /\ p \in Packets /\ (Took(p, a, g) \/ Ready(p, a))  BY DEF UnderWay, IsPart
<1>1. /\ Len(b) \in Nat /\ Len(t) \in Nat
      /\ \A i \in 1 .. Len(t) : \/ i \in 1 .. Len(b) /\ t[i] = b[i]
                                \/ i > Len(b) /\ t[i].p = p
  BY <1>0, AddCells
<1> HIDE DEF t
<1>2. Fits(t, a, g)  BY <1>0, <1>1 DEF LineOK, Fits
<1>3. UnderWay(p, t, a, g)  BY <1>1 DEF UnderWay
<1>4. ASSUME NEW i \in 1 .. Len(t), NEW j \in 1 .. Len(t), i < j, Ours(t[i]), Ours(t[j])
      PROVE  t[i].p = t[j].p \/ Succ(t[i].p, t[j].p)
  <2>1. CASE t[j].p = p  BY <1>3, <1>4, <2>1 DEF UnderWay
  <2>2. CASE j \in 1 .. Len(b) /\ t[j] = b[j]
    <3>1. i \in 1 .. Len(b) /\ t[i] = b[i]  BY <1>1, <1>4, <2>2
    <3> QED  BY <1>4, <2>2, <3>1 DEF LineOK, InOrder
  <2> QED  BY <1>1, <2>1, <2>2
<1> QED  BY <1>2, <1>3, <1>4 DEF LineOK, InOrder, t

\* A notification that arrives either is read from its front or changes nothing.
LEMMA DeliverIs ==
  ASSUME NEW line \in Seq(CellSet), NEW n \in 0 .. Len(line), Deliver(SubSeq(line, 1, n))
  PROVE  \/ UNCHANGED <<app, got, air>>
         \/ line # <<>> /\ Ours(line[1]) /\ Take(line[1].p)
<1> DEFINE cells == SubSeq(line, 1, n)
<1>1. UNCHANGED <<app, got, air>> \/ (cells # <<>> /\ cells[1].p.proto # "other" /\ Take(cells[1].p))
  BY DEF Deliver
<1>2. Len(line) \in Nat /\ \A i \in 1 .. n : line[i] \in CellSet  BY ElementOfSeq, LenProperties
<1>3. /\ Len(cells) = IF 1 <= n THEN n - 1 + 1 ELSE 0
      /\ \A i \in 1 .. n - 1 + 1 : cells[i] = line[1 + i - 1]
      /\ cells \in Seq(CellSet)
  BY <1>2, SubSeqProperties
<1> HIDE DEF cells
<1>4. ASSUME cells # <<>> PROVE line # <<>> /\ cells[1] = line[1]
  <2>1. Len(cells) # 0  BY <1>3, <1>4, EmptySeq
  <2>2. n >= 1 /\ 1 \in 1 .. n - 1 + 1 /\ 1 + 1 - 1 = 1  BY <1>3, <2>1
  <2>3. cells[1] = line[1]  BY <1>3, <2>2
  <2>4. Len(line) # 0  BY <1>2, <2>2
  <2> QED  BY <2>3, <2>4, EmptySeq
<1> QED  BY <1>1, <1>4 DEF Ours

LEMMA TakePlain ==
  ASSUME AirOK, AirPlain, NEW p, IsPart(p), Answer(p) \/ UNCHANGED air
  PROVE  AirPlain'
<1>1. CASE air' = air  BY <1>1 DEF AirPlain
<1>2. ASSUME NEW x \in Answers, air' = Append(air, x), x.k = "ok" => x.n = 0
      PROVE  AirPlain'
  <2>1. /\ Len(air') = Len(air) + 1 /\ Len(air) \in Nat
        /\ \A i \in 1 .. Len(air) : air'[i] = air[i]
        /\ air'[Len(air) + 1] = x
    BY <1>2, AppendProperties DEF AirOK
  <2>2. \A i \in 1 .. Len(air') : i \in 1 .. Len(air) \/ i = Len(air) + 1  BY <2>1
  <2> QED  BY <1>2, <2>1, <2>2 DEF AirPlain
<1> QED  BY <1>1, <1>2, AnswerIs

LEMMA GotMore ==
  ASSUME GotOK, NEW r \in Resps, got' \in {got, got \cup {Prefix(r, r.size)}}
  PROVE  GotOK' /\ got \subseteq got'
  BY DEF GotOK

\* What the buffer, the app and the answers promise about the packet under way survives a
\* notification that arrives.
LEMMA DeliverKeeps ==
  ASSUME AppOK, AirOK, AirPlain, GotOK, NEW line \in Seq(CellSet), NEW n \in 0 .. Len(line),
         Deliver(SubSeq(line, 1, n)), LineOK(line, app, got)
  PROVE  /\ LineOK(Rest(line, n), app', got') /\ AppOK' /\ GotOK' /\ AirPlain' /\ got \subseteq got'
         /\ \A p, r : UnderWay(p, line, app, got) /\ Answered(p, r, air, app, got) =>
              UnderWay(p, Rest(line, n), app', got') /\ Answered(p, r, air', app', got')
<1>1. CASE UNCHANGED <<app, got, air>>
  <2>1. AppOK' /\ GotOK' /\ AirPlain' /\ got \subseteq got'  BY <1>1 DEF AppOK, GotOK, AirPlain
  <2> QED  BY <1>1, <2>1, RestKeeps
<1>2. CASE line # <<>> /\ Ours(line[1]) /\ Take(line[1].p)
  <2>1. /\ LineOK(line, app', got') /\ AppOK'
        /\ got' \in {got, got \cup {Prefix(line[1].p.resp, line[1].p.resp.size)}}
        /\ Answer(line[1].p) \/ UNCHANGED air
    BY <1>2, TakeLine
  <2>2. IsPart(line[1].p) /\ line[1].p.resp \in Resps
    <3>1. 1 \in 1 .. Len(line)  BY <1>2, EmptySeq, LenProperties
    <3> QED  BY <1>2, <3>1 DEF LineOK, Fits, IsPart
  <2>3. GotOK' /\ got \subseteq got' /\ AirPlain'  BY <2>1, <2>2, GotMore, TakePlain
  <2>4. ASSUME NEW p, NEW r, UnderWay(p, line, app, got), Answered(p, r, air, app, got)
        PROVE  UnderWay(p, Rest(line, n), app', got') /\ Answered(p, r, air', app', got')
    <3>1. UnderWay(p, line, app', got')  BY <1>2, <2>4, TakeUnderWay
    <3>2. Answered(p, r, air', app', got')  BY <1>2, <2>4, TakeAnswered
    <3> QED  BY <3>1, <3>2, RestKeeps
  <2>5. LineOK(Rest(line, n), app', got')  BY <2>1, RestKeeps
  <2> QED  BY <2>1, <2>3, <2>4, <2>5
<1> QED  BY <1>1, <1>2, DeliverIs

\* So does sending it, for the first time or again.
LEMMA NotifyKeeps ==
  ASSUME AppOK, AirOK, AirPlain, GotOK, BufOK, NEW p, NEW r, ble_server_send_notification(p),
         LineOK(buf, app, got), UnderWay(p, buf, app, got), Answered(p, r, air, app, got)
  PROVE  /\ LineOK(buf', app', got') /\ AppOK' /\ GotOK' /\ AirPlain' /\ got \subseteq got'
         /\ UnderWay(p, buf', app', got') /\ Answered(p, r, air', app', got')
         /\ ~conn => air' = air
<1> DEFINE all == Add(buf, p)
           n == Len(Front(all))
           sent == Rest(all, n)
<1>0. buf \in Seq(CellSet) /\ p \in Packets /\ Len(buf) <= BufCells
  BY DEF BufOK, UnderWay, IsPart
<1>1. all \in Seq(CellSet) /\ Len(all) <= BufCells  BY <1>0, AddType
<1>2. n \in 0 .. Len(all) /\ Front(all) = SubSeq(all, 1, n)
  <2> HIDE DEF all
  <2> DEFINE m == IF Len(all) < NotifyCells THEN Len(all) ELSE NotifyCells
  <2>1. Front(all) = SubSeq(all, 1, m)  BY DEF Front
  <2>2. m \in 0 .. Len(all)  BY <1>1, ConstantsAssumption, LenProperties
  <2> HIDE DEF m
  <2>3. Len(SubSeq(all, 1, m)) = m  BY <1>1, <2>2, PartType
  <2> QED  BY <2>1, <2>2, <2>3
<1>3. LineOK(all, app, got) /\ UnderWay(p, all, app, got)  BY <1>0, AddUnderWay
<1>4. CASE buf' \in {buf, all} /\ UNCHANGED <<app, got, air>>
  <2>1. AppOK' /\ GotOK' /\ AirPlain' /\ got \subseteq got'  BY <1>4 DEF AppOK, GotOK, AirPlain
  <2> HIDE DEF all
  <2> QED  BY <1>3, <1>4, <2>1
<1>5. CASE conn /\ Deliver(Front(all)) /\ buf' \in {sent, Add(sent, OtherPacket)}
  <2>1. sent \in Seq(CellSet)  BY <1>1, <1>2, PartType
  <2>2. /\ LineOK(sent, app', got') /\ AppOK' /\ GotOK' /\ AirPlain' /\ got \subseteq got'
        /\ UnderWay(p, sent, app', got') /\ Answered(p, r, air', app', got')
    <3> HIDE DEF all, n
    <3> QED  BY <1>1, <1>2, <1>3, <1>5, DeliverKeeps
  <2>3. /\ LineOK(Add(sent, OtherPacket), app', got')
        /\ UnderWay(p, Add(sent, OtherPacket), app', got')
    <3> HIDE DEF sent
    <3> QED  BY <2>1, <2>2, AddOther
  <2> HIDE DEF sent
  <2> QED  BY <1>5, <2>2, <2>3
<1>6. \/ buf' \in {buf, all} /\ UNCHANGED <<app, got, air>>
      \/ conn /\ Deliver(Front(all)) /\ buf' \in {sent, Add(sent, OtherPacket)}
  BY DEF ble_server_send_notification
<1> QED  BY <1>4, <1>5, <1>6
-----------------------------------------------------------------------------
(* What the transport, the buffer, the app and its answers have in common *)

\* The packet recorded in s_packet_trans_data, and the one that the handler is sending.
Recorded == [proto |-> cur.proto, resp |-> cur.resp, seq |-> cur.seq, off |-> cur.off,
             len |-> cur.len]
ToSend == [proto |-> job.proto, resp |-> job.resp, seq |-> job.seq, off |-> job.off,
           len |-> job.len]

NumberNext(p) == p.proto = "multi" /\ p.seq # LAST => cur.next = p.seq + 1

\* The packet recorded is out.
Waiting ==
  cur.busy /\ job.k # "send" =>
    /\ UnderWay(Recorded, buf, app, got) /\ Answered(Recorded, rx, air, app, got)
    /\ cur.proto = "multi" => cur.sent = cur.off + cur.len
    /\ NumberNext(Recorded)
    /\ ~conn => cur.seq = 0 /\ ~IsAnswer(rx, Recorded)

\* The handler is sending a first packet, or the part after the one recorded, which the app
\* has; nothing answers it yet.
OnlyRecorded == \A i \in 1 .. Len(buf) : Ours(buf[i]) => buf[i].p = Recorded
Sending ==
  cur.busy /\ job.k = "send" =>
    /\ IsPart(ToSend) /\ job.resp = cur.resp /\ NumberNext(ToSend)
    /\ NoAnswer(ToSend, air) /\ (job.rx \/ ~IsAnswer(rx, ToSend))
    /\ job.off = 0 => \A i \in 1 .. Len(buf) : ~Ours(buf[i])
    /\ job.off # 0 => /\ conn /\ IsPart(Recorded) /\ Succ(Recorded, ToSend)
                      /\ Took(Recorded, app, got) /\ OnlyRecorded

\* A handler that a disconnect has met sends nothing.
Aside ==
  /\ job.k = "send" /\ ~cur.busy => ~conn
  /\ job.k = "again" => cur.busy \/ cur.proto = "none"
  /\ ~conn => air = <<>>

DoneOK == \A r \in done : r \in Resps /\ Prefix(r, r.size) \in got
Plain == AirPlain /\ (rx.k = "ok" => rx.n = 0)
Static == GotOK /\ DoneOK /\ AppOK /\ LineOK(buf, app, got)

Mix == Static /\ Plain /\ Waiting /\ Sending /\ Aside

\* What every step keeps, together with IInv.
MixInv == tainted \/ Mix

LEMMA MixSuffices == MixInv => NeverMixed /\ CompletedReceived
<1> SUFFICES ASSUME Mix PROVE NeverMixed /\ CompletedReceived
  BY DEF MixInv, NeverMixed, CompletedReceived
<1>1. ASSUME NEW d \in got PROVE Whole(d)
  BY <1>1, PrefixWhole DEF Mix, Static, GotOK
<1>2. ASSUME NEW r \in done PROVE \E d \in got : Whole(d) /\ d[1].resp = r
  BY <1>2, PrefixWhole DEF Mix, Static, DoneOK
<1> QED  BY <1>1, <1>2 DEF NeverMixed, CompletedReceived

LEMMA NoneAnswers == \A p : ~IsAnswer(None, p)
  BY DEF None, IsAnswer

\* A handler that sends nothing: it keeps what is recorded, or leaves the transport idle.
LEMMA QuietMix ==
  ASSUME Mix, UNCHANGED <<conn, buf, app, air, got>>, DoneOK', rx' \in {rx, None},
         job'.k # "send", job'.k = "again" => cur'.busy \/ cur'.proto = "none",
         cur'.busy => /\ cur.busy /\ job.k # "send" /\ Recorded' = Recorded
                      /\ cur'.sent = cur.sent /\ cur'.next = cur.next
  PROVE  Mix'
<1>1. Static'  BY DEF Mix, Static, GotOK, AppOK
<1>2. Plain'  BY DEF Mix, Plain, AirPlain, None
<1>3. Sending' /\ Aside'  BY DEF Mix, Sending, Aside
<1>4. ASSUME cur'.busy
      PROVE  /\ UnderWay(Recorded, buf, app, got)' /\ Answered(Recorded, rx, air, app, got)'
             /\ (cur.proto = "multi" => cur.sent = cur.off + cur.len)'
             /\ NumberNext(Recorded)'
             /\ (~conn => cur.seq = 0 /\ ~IsAnswer(rx, Recorded))'
  <2>1. /\ UnderWay(Recorded, buf, app, got) /\ Answered(Recorded, rx, air, app, got)
        /\ cur.proto = "multi" => cur.sent = cur.off + cur.len
        /\ NumberNext(Recorded)
        /\ ~conn => cur.seq = 0 /\ ~IsAnswer(rx, Recorded)
    BY <1>4 DEF Mix, Waiting
  <2>2. /\ Recorded' = Recorded /\ cur'.sent = cur.sent /\ cur'.next = cur.next
        /\ cur'.proto = cur.proto /\ cur'.off = cur.off /\ cur'.len = cur.len /\ cur'.seq = cur.seq
    BY <1>4 DEF Recorded
  <2>3. IsAnswer(rx', Recorded) => IsAnswer(rx, Recorded)  BY NoneAnswers
  <2>4. Answered(Recorded, rx', air, app, got)  BY <2>1, <2>3 DEF Answered
  <2>5. UnderWay(Recorded, buf, app, got)' /\ Answered(Recorded, rx, air, app, got)'
    BY <2>1, <2>2, <2>4
  <2>6. NumberNext(Recorded)'
    BY <2>1, <2>2 DEF NumberNext
  <2> QED  BY <2>1, <2>2, <2>3, <2>5, <2>6
<1>5. Waiting'  BY <1>4 DEF Waiting
<1> QED  BY <1>1, <1>2, <1>3, <1>5 DEF Mix

\* Nothing of all this changes, except that another thread may add to the buffer.
LEMMA SameMix ==
  ASSUME Mix, BufOK, UNCHANGED <<rx, cur, job, conn, app, air, got, done>>,
         buf' \in {buf, Add(buf, OtherPacket)}
  PROVE  Mix'
<1> DEFINE b == Add(buf, OtherPacket)
<1>0. buf \in Seq(CellSet)  BY DEF BufOK
<1>1. /\ LineOK(buf, app, got) => LineOK(b, app, got)
      /\ \A p : UnderWay(p, buf, app, got) => UnderWay(p, b, app, got)
      /\ \A i \in 1 .. Len(b) : Ours(b[i]) => \E j \in 1 .. Len(buf) : b[i] = buf[j]
  BY <1>0, AddOther
<1> HIDE DEF b
<1>2. buf' \in {buf, b}  BY DEF b
<1>3. /\ LineOK(buf, app, got) => LineOK(buf', app, got)
      /\ \A p : UnderWay(p, buf, app, got) => UnderWay(p, buf', app, got)
      /\ \A i \in 1 .. Len(buf') : Ours(buf'[i]) => \E j \in 1 .. Len(buf) : buf'[i] = buf[j]
  BY <1>1, <1>2
<1>4. Static' /\ Plain' /\ Aside'
  BY <1>3 DEF Mix, Static, GotOK, DoneOK, AppOK, Plain, AirPlain, Aside
<1>5. Recorded' = Recorded /\ ToSend' = ToSend  BY DEF Recorded, ToSend
<1>6. Waiting'
  <2> SUFFICES ASSUME cur.busy, job.k # "send" PROVE Waiting'  BY DEF Waiting
  <2>1. /\ UnderWay(Recorded, buf, app, got) /\ Answered(Recorded, rx, air, app, got)
        /\ cur.proto = "multi" => cur.sent = cur.off + cur.len
        /\ NumberNext(Recorded)
        /\ ~conn => cur.seq = 0 /\ ~IsAnswer(rx, Recorded)
    BY DEF Mix, Waiting
  <2>2. UnderWay(Recorded', buf', app', got') /\ Answered(Recorded', rx', air', app', got')
    BY <1>3, <1>5, <2>1
  <2>3. NumberNext(Recorded)'  BY <1>5, <2>1 DEF NumberNext
  <2> QED  BY <1>5, <2>1, <2>2, <2>3 DEF Waiting
<1>7. Sending'
  <2> SUFFICES ASSUME cur.busy, job.k = "send" PROVE Sending'  BY DEF Sending
  <2>1. /\ IsPart(ToSend) /\ job.resp = cur.resp /\ NumberNext(ToSend)
        /\ NoAnswer(ToSend, air) /\ (job.rx \/ ~IsAnswer(rx, ToSend))
        /\ job.off = 0 => \A i \in 1 .. Len(buf) : ~Ours(buf[i])
        /\ job.off # 0 => /\ conn /\ IsPart(Recorded) /\ Succ(Recorded, ToSend)
                          /\ Took(Recorded, app, got) /\ OnlyRecorded
    BY DEF Mix, Sending
  <2>2. NumberNext(ToSend)' /\ NoAnswer(ToSend', air')  BY <1>5, <2>1 DEF NumberNext
  <2>3. job.off = 0 => \A i \in 1 .. Len(buf') : ~Ours(buf'[i])  BY <1>3, <2>1
  <2>4. job.off # 0 => OnlyRecorded'  BY <1>3, <1>5, <2>1 DEF OnlyRecorded
  <2> QED  BY <1>5, <2>1, <2>2, <2>3, <2>4 DEF Sending
<1> QED  BY <1>4, <1>6, <1>7 DEF Mix
-----------------------------------------------------------------------------
(* Handlers *)

\* A transfer begins with its first packet, and nothing in the way that answers it.
LEMMA BeginMix == ASSUME IInv, Mix, Begin, tainted' = FALSE PROVE Mix'
<1> DEFINE r == job.resp
           b == job.rx
           proto == IF r.size = 1 THEN "single" ELSE "multi"
           first == IF proto = "single" THEN [k |-> "ok", n |-> 0] ELSE [k |-> "ack", n |-> 0]
<1>0. /\ AirOK /\ RxOK /\ JobOK /\ job.k = "start" /\ DoneOK
      /\ UNCHANGED <<conn, buf, app, air, got, rx, done>>
  BY DEF IInv, Types, Begin, link, Mix, Static
<1>j. job \in Starts  BY <1>0 DEF JobOK, NoJob, Stores, Sends
<1>z. r.k # "zero" /\ ~Leftover(IF job.len = 1 THEN "single" ELSE "multi", b)  BY DEF Begin
<1>r. r \in Resps /\ r.k = "resp"
  <2>1. r \in Copies  BY <1>j DEF Starts
  <2>2. r \in Resps  BY <1>z, <2>1, CopyType
  <2> QED  BY <2>2 DEF Resps
<1>s. job.len = r.size  BY <1>0, <1>r DEF IInv, ProtoKnown
<1>1. r.size \in Nat \ {0} /\ r.size <= LAST + 1  BY <1>r, SizeType
<1>2. PICK len \in (IF r.size = 1 THEN {1} ELSE Parts(r.size - 1)) :
        job' = [k |-> "send", proto |-> proto, seq |-> 0, off |-> 0, len |-> len,
                resp |-> r, rx |-> b]
  <2>1. PICK len \in (IF proto = "single" THEN {1} ELSE Parts(job.len - 1)) :
          job' = [k |-> "send", proto |-> proto, seq |-> 0, off |-> 0, len |-> len,
                  resp |-> r, rx |-> b]
    BY <1>s DEF Begin
  <2> QED  BY <1>s, <2>1
<1>3. /\ job'.k = "send" /\ job'.proto = proto /\ job'.seq = 0 /\ job'.off = 0 /\ job'.len = len
      /\ job'.resp = r /\ job'.rx = b
  BY <1>2
<1>4. cur' = [Idle EXCEPT !.resp = r, !.busy = TRUE, !.next = IF r.size = 1 THEN 0 ELSE 1]
  BY <1>s DEF Begin
<1>5. cur'.busy = TRUE /\ cur'.resp = r /\ cur'.next = IF r.size = 1 THEN 0 ELSE 1
  BY <1>4 DEF Idle
<1>6. ~Leftover(proto, b)  BY <1>s, <1>z
<1>7. /\ \A i \in 1 .. Len(air) : air[i] # first
      /\ b \/ rx # first
      /\ \A i \in 1 .. Len(buf) : ~Ours(buf[i])
  BY <1>6 DEF Leftover, Ours
<1>8. len \in Nat \ {0} /\ (r.size = 1 => len = 1) /\ (r.size # 1 => len < r.size)
  <2>1. CASE r.size = 1  BY <1>2, <2>1
  <2>2. CASE r.size # 1
    <3>1. len \in Parts(r.size - 1)  BY <1>2, <2>2
    <3>2. len \in 1 .. r.size - 1  BY <3>1 DEF Parts
    <3> QED  BY <1>1, <2>2, <3>2
  <2> QED  BY <2>1, <2>2
<1>9. ToSend' = [proto |-> proto, resp |-> r, seq |-> 0, off |-> 0, len |-> len]
  BY <1>3 DEF ToSend
<1>10. /\ ToSend'.proto = proto /\ ToSend'.resp = r /\ ToSend'.seq = 0 /\ ToSend'.off = 0
       /\ ToSend'.len = len
  BY <1>9
<1>11. ToSend' \in Packets
  <2>1. proto \in {"single", "multi", "other"}  OBVIOUS
  <2>2. r \in Copies  BY <1>r DEF Copies
  <2> HIDE DEF proto, r
  <2> QED  BY <1>8, <1>9, <2>1, <2>2 DEF Packets
<1>12. IsPart(ToSend')
  <2>1. CASE r.size = 1
    <3>1. proto = "single" /\ len = 1  BY <1>8, <2>1
    <3> QED  BY <1>10, <1>11, <1>r, <2>1, <3>1 DEF IsPart
  <2>2. CASE r.size # 1
    <3>1. proto = "multi" /\ len < r.size /\ len >= 1 /\ 0 + len = len  BY <1>8, <2>2
    <3>2. 0 + len # r.size /\ 0 + len <= r.size /\ 0 # LAST  BY <1>1, <1>8, <3>1 DEF LAST
    <3> HIDE DEF proto, r
    <3> QED  BY <1>10, <1>11, <1>r, <3>1, <3>2 DEF IsPart
  <2> QED  BY <2>1, <2>2
<1>13. NumberNext(ToSend)'
  <2>1. CASE r.size = 1  BY <1>10, <2>1 DEF NumberNext
  <2>2. CASE r.size # 1
    <3>1. cur'.next = 1  BY <1>5, <2>2
    <3> QED  BY <1>10, <3>1 DEF NumberNext
  <2> QED  BY <2>1, <2>2
<1>14. ASSUME NEW x, x = rx \/ \E i \in 1 .. Len(air) : x = air[i], IsAnswer(x, ToSend')
       PROVE  x = first
  <2>1. x \in [k : {"none", "cmd", "ok", "ack"}, n : Nat] /\ (x.k = "ok" => x.n = 0)
    <3>1. CASE x = rx  BY <1>0, <3>1 DEF Mix, Plain, RxOK
    <3>2. ASSUME NEW i \in 1 .. Len(air), x = air[i]
          PROVE  x \in [k : {"none", "cmd", "ok", "ack"}, n : Nat] /\ (x.k = "ok" => x.n = 0)
      <4>1. x \in Answers  BY <1>0, <3>2, ElementOfSeq DEF AirOK
      <4> QED  BY <3>2, <4>1 DEF Mix, Plain, AirPlain, Answers
    <3> QED  BY <1>14, <3>1, <3>2
  <2>2. x = [k |-> x.k, n |-> x.n]  BY <2>1
  <2>3. \/ proto = "single" /\ x.k = "ok"
        \/ proto = "multi" /\ x.k = "ack" /\ x.n = 0
    BY <1>10, <1>14 DEF IsAnswer
  <2> QED  BY <2>1, <2>2, <2>3
<1>15. NoAnswer(ToSend', air') /\ (b \/ ~IsAnswer(rx', ToSend'))
  <2> HIDE DEF first
  <2> QED  BY <1>0, <1>7, <1>14 DEF NoAnswer
<1>16. Sending'
  <2> HIDE DEF proto, first, r, b
  <2> QED  BY <1>0, <1>3, <1>5, <1>7, <1>12, <1>13, <1>15 DEF Sending
<1>17. Static' /\ Plain'  BY <1>0 DEF Mix, Static, GotOK, DoneOK, AppOK, Plain, AirPlain
<1>18. Waiting' /\ Aside'
  <2> HIDE DEF proto, first, r, b
  <2> QED  BY <1>0, <1>3, <1>5 DEF Mix, Waiting, Aside
<1> QED  BY <1>16, <1>17, <1>18 DEF Mix

\* ble_packet_trans_send: the response is copied next, or stored next.
LEMMA SendMix ==
  ASSUME Mix, job.k = "none", NEW n \in Nat, NEW b \in BOOLEAN,
         ble_packet_trans_send(n, b), UNCHANGED <<conn, buf, app, air, got, rx, done>>
  PROVE  Mix'
<1>0. DoneOK'  BY DEF Mix, Static, DoneOK
<1>1. PICK s \in Sizes : LET r == [k |-> "resp", n |-> n, size |-> s] IN
        \/ StartTransfer(r, b)
        \/ job' = [k |-> "store", resp |-> r, rx |-> b] /\ UNCHANGED cur
  BY DEF ble_packet_trans_send
<1> DEFINE r == [k |-> "resp", n |-> n, size |-> s]
<1> HIDE DEF r
<1>3. CASE StartTransfer(r, b)
  <2>1. ~cur'.busy /\ job'.k = "start"  BY <1>3 DEF StartTransfer, Idle
  <2> QED  BY <1>0, <2>1, QuietMix
<1>4. CASE job' = [k |-> "store", resp |-> r, rx |-> b] /\ UNCHANGED cur
  <2>1. job'.k = "store"  BY <1>4
  <2>2. Recorded' = Recorded  BY <1>4 DEF Recorded
  <2> QED  BY <1>0, <1>4, <2>1, <2>2, QuietMix
<1> QED  BY <1>1, <1>3, <1>4 DEF r

\* ble_packet_trans_complete_current, ble_packet_trans_abort_current
LEMMA NextMix ==
  ASSUME Mix, NEW b \in BOOLEAN, NextTransfer(b), UNCHANGED <<conn, buf, app, air, got>>,
         DoneOK', rx' \in {rx, None}
  PROVE  Mix'
<1>1. ~cur'.busy /\ job'.k \in {"start", "none"}
  BY DEF NextTransfer, StartTransfer, Idle, NoJob
<1> QED  BY <1>1, QuietMix

LEMMA TxMix == ASSUME IInv, Mix, OnTx, tainted' = FALSE PROVE Mix'
<1>0. /\ Types /\ Handle("TX") /\ ble_packet_trans_send(Head(q).n, FALSE)
      /\ UNCHANGED <<rx, link, air, done, lost>>
  BY DEF IInv, OnTx
<1>1. job.k = "none" /\ Head(q) \in Msgs  BY <1>0, HandleType DEF Types
<1>2. Head(q).n \in Nat  BY <1>1 DEF Msgs
<1>3. UNCHANGED <<conn, buf, app, air, got, rx, done>>  BY <1>0 DEF link
<1> QED  BY <1>0, <1>1, <1>2, <1>3, SendMix DEF Types

LEMMA CommandMix == ASSUME IInv, Mix, OnCommand, tainted' = FALSE PROVE Mix'
<1>0. /\ Types /\ Handle("RX") /\ UNCHANGED <<link, air, done>>
      /\ \/ ble_packet_trans_send(rx.n, TRUE) /\ UNCHANGED rx
         \/ rx' = None /\ UNCHANGED trans
  BY DEF IInv, OnCommand
<1>1. job.k = "none" /\ rx.n \in Nat  BY <1>0 DEF Handle, Types, RxOK
<1>2. UNCHANGED <<conn, buf, app, air, got, done>>  BY <1>0 DEF link
<1>3. CASE ble_packet_trans_send(rx.n, TRUE) /\ UNCHANGED rx
  BY <1>0, <1>1, <1>2, <1>3, SendMix DEF Types
<1>4. CASE rx' = None /\ UNCHANGED trans
  <2>1. cur' = cur /\ job' = job  BY <1>4 DEF trans
  <2>2. DoneOK'  BY <1>2 DEF Mix, Static, DoneOK
  <2>3. Recorded' = Recorded  BY <2>1 DEF Recorded
  <2> QED  BY <1>1, <1>2, <1>4, <2>1, <2>2, <2>3, QuietMix
<1> QED  BY <1>0, <1>3, <1>4

LEMMA OtherAnswerMix == ASSUME IInv, Mix, OnOtherAnswer, tainted' = FALSE PROVE Mix'
<1>0. job.k = "none" /\ rx' = None /\ UNCHANGED <<trans, link, air, done>>
  BY DEF OnOtherAnswer, Handle
<1>1. cur' = cur /\ job' = job /\ UNCHANGED <<conn, buf, app, air, got>>  BY <1>0 DEF trans, link
<1>2. DoneOK'  BY <1>0, <1>1 DEF Mix, Static, DoneOK
<1>3. Recorded' = Recorded  BY <1>1 DEF Recorded
<1> QED  BY <1>0, <1>1, <1>2, <1>3, QuietMix

\* A transfer is completed on an answer to its last packet, which the app took: it has the
\* whole response.
LEMMA CompletedMix ==
  ASSUME IInv, Mix, job.k = "none", cur.busy, IsAnswer(rx, Recorded), Completed, tainted' = FALSE,
         UNCHANGED <<link, air>>,
         cur.proto = "multi" => cur.sent = cur.resp.size
  PROVE  Mix'
<1>0. UNCHANGED <<conn, buf, app, air, got>>  BY DEF link
<1>1. /\ IsPart(Recorded) /\ Took(Recorded, app, got)
      /\ cur.proto = "multi" => cur.sent = cur.off + cur.len
  BY DEF Mix, Waiting, UnderWay, Answered
<1>2. /\ Recorded.proto = cur.proto /\ Recorded.resp = cur.resp /\ Recorded.off = cur.off
      /\ Recorded.len = cur.len
  BY DEF Recorded
<1>3. Recorded.proto = "multi" => Recorded.seq = LAST  BY <1>1, <1>2 DEF IsPart
<1>4. cur.resp \in Resps /\ Prefix(cur.resp, cur.resp.size) \in got
  BY <1>1, <1>2, <1>3 DEF IsPart, Took
<1>5. /\ done' = done \cup {cur.resp} /\ NextTransfer(TRUE)
      /\ rx' = IF job'.k = "none" THEN None ELSE rx
  BY DEF Completed
<1>6. DoneOK'  BY <1>0, <1>4, <1>5 DEF Mix, Static, DoneOK
<1>7. rx' \in {rx, None}  BY <1>5
<1> QED  BY <1>0, <1>5, <1>6, <1>7, NextMix

LEMMA ConfirmedMix == ASSUME IInv, Mix, OnConfirmed, tainted' = FALSE PROVE Mix'
<1>0. /\ job.k = "none" /\ rx.k = "ok" /\ cur.busy /\ cur.proto = "single" /\ Completed
      /\ UNCHANGED <<link, air>>
  BY DEF OnConfirmed, Handle
<1>1. IsAnswer(rx, Recorded)  BY <1>0 DEF IsAnswer, Recorded
<1> QED  BY <1>0, <1>1, CompletedMix

\* The part after an acknowledged one has the number and the place that follow it, and
\* nothing under way is an answer to it.
LEMMA ContinueMix ==
  ASSUME IInv, Mix, job.k = "none", cur.busy, cur.proto = "multi", IsAnswer(rx, Recorded),
         UNCHANGED <<conn, buf, app, air, got, rx, done>>,
         cur.sent < cur.resp.size, NEW len \in 1 .. cur.resp.size - cur.sent,
         NEW last \in BOOLEAN, last <=> cur.sent + len = cur.resp.size,
         job' = [k |-> "send", proto |-> "multi", seq |-> IF last THEN LAST ELSE cur.next,
                 off |-> cur.sent, len |-> len, resp |-> cur.resp, rx |-> TRUE],
         cur' = [cur EXCEPT !.waiting = FALSE, !.retry = 0,
                            !.next = IF last THEN 0 ELSE cur.next + 1]
  PROVE  Mix'
<1> DEFINE P == Recorded
           J == ToSend'
           seq == IF last THEN LAST ELSE cur.next
<1>1. /\ UnderWay(P, buf, app, got) /\ Answered(P, rx, air, app, got)
      /\ cur.sent = cur.off + cur.len
      /\ NumberNext(P)
      /\ ~conn => ~IsAnswer(rx, P)
  BY DEF Mix, Waiting
<1>2. IsPart(P) /\ Took(P, app, got) /\ conn  BY <1>1 DEF UnderWay, Answered
<1>3. /\ P.proto = "multi" /\ P.resp = cur.resp /\ P.seq = cur.seq /\ P.off = cur.off
      /\ P.len = cur.len
  BY DEF Recorded
<1>4. /\ job'.k = "send" /\ job'.proto = "multi" /\ job'.seq = seq /\ job'.off = cur.sent
      /\ job'.len = len /\ job'.resp = cur.resp /\ job'.rx = TRUE
  OBVIOUS
<1>5. /\ J = [proto |-> "multi", resp |-> cur.resp, seq |-> seq, off |-> cur.sent, len |-> len]
      /\ J.proto = "multi" /\ J.resp = cur.resp /\ J.seq = seq /\ J.off = cur.sent /\ J.len = len
  BY <1>4 DEF ToSend
<1>6. /\ cur'.busy = cur.busy /\ cur'.resp = cur.resp /\ cur'.proto = cur.proto
      /\ cur'.seq = cur.seq /\ cur'.off = cur.off /\ cur'.len = cur.len
      /\ cur'.next = IF last THEN 0 ELSE cur.next + 1
  BY DEF IInv, Types, CurOK
<1>7. P' = P  BY <1>6 DEF Recorded
<1>8. /\ P.seq \in 0 .. LAST /\ P.off \in Nat /\ P.len \in Nat \ {0}
      /\ P.resp.size \in Nat \ {0} /\ P.resp.size <= LAST + 1
  BY <1>2, PartSeq
<1> HIDE DEF P, J
<1>9. P.seq # LAST
  <2>1. P.off + P.len # P.resp.size  BY <1>1, <1>3, <1>8
  <2> QED  BY <1>2, <1>3, <2>1 DEF IsPart
<1>10. cur.next = P.seq + 1 /\ P.seq <= P.off  BY <1>1, <1>2, <1>3, <1>9 DEF NumberNext, IsPart
<1>11. /\ len \in Nat \ {0} /\ cur.sent = P.off + P.len /\ cur.sent \in Nat \ {0}
       /\ cur.sent + len <= P.resp.size /\ cur.next <= cur.sent /\ cur.next \in Nat \ {0}
  BY <1>1, <1>3, <1>8, <1>10
<1>12. ~last => cur.next # LAST
  <2> SUFFICES ASSUME ~last PROVE cur.next # LAST  OBVIOUS
  <2>1. cur.sent + len # P.resp.size  BY <1>3
  <2> QED  BY <1>8, <1>11, <2>1 DEF LAST
<1>13. /\ seq \in Nat \ {0} /\ (seq = LAST <=> cur.sent + len = P.resp.size)
       /\ (seq # LAST => seq <= cur.sent)
  <2>1. CASE last  BY <1>3, <2>1 DEF LAST
  <2>2. CASE ~last  BY <1>3, <1>11, <1>12, <2>2
  <2> QED  BY <2>1, <2>2
<1> HIDE DEF seq
<1>14. cur.resp \in Resps  BY <1>2, <1>3 DEF IsPart
<1>15. J \in Packets
  BY <1>5, <1>11, <1>13, <1>14 DEF Packets, Copies
<1>16. IsPart(J)
  <2>1. cur.sent # 0 /\ seq # 0 /\ len >= 1  BY <1>11, <1>13
  <2> QED  BY <1>3, <1>5, <1>11, <1>13, <1>14, <1>15, <2>1 DEF IsPart
<1>17. Succ(P, J)
  <2>1. J.off = P.off + P.len /\ J.resp = P.resp  BY <1>3, <1>5, <1>11
  <2>2. seq = IF cur.sent + len = P.resp.size THEN LAST ELSE P.seq + 1
    BY <1>3, <1>10 DEF seq
  <2> QED  BY <1>3, <1>5, <1>9, <2>1, <2>2 DEF Succ
<1>18. NoAnswer(J, air)
  <2> SUFFICES ASSUME NEW i \in 1 .. Len(air), IsAnswer(air[i], J) PROVE FALSE  BY DEF NoAnswer
  <2>1. ~Later(air[i], P)  BY <1>1 DEF Answered, P
  <2>2. air[i].k = "ack" /\ air[i].n = J.seq  BY <1>5 DEF IsAnswer
  <2>3. J.seq > P.seq  BY <1>2, <1>16, <1>17, SuccFacts
  <2> QED  BY <1>3, <2>1, <2>2, <2>3 DEF Later
<1>19. OnlyRecorded'
  <2>1. \A i \in 1 .. Len(buf) : Ours(buf[i]) => buf[i].p = P  BY <1>1, <1>2 DEF UnderWay
  <2> QED  BY <1>7, <2>1 DEF OnlyRecorded, P
<1>20. NumberNext(ToSend)'
  <2>1. CASE last
    <3>1. J.seq = LAST  BY <1>5, <2>1 DEF seq
    <3> QED  BY <3>1 DEF NumberNext, J
  <2>2. CASE ~last
    <3>1. J.seq = cur.next /\ cur'.next = cur.next + 1  BY <1>5, <1>6, <2>2 DEF seq
    <3> QED  BY <3>1 DEF NumberNext, J
  <2> QED  BY <2>1, <2>2
<1>21. Sending'
  <2>1. job'.off # 0  BY <1>4, <1>11
  <2>2. Took(P', app', got')  BY <1>2, <1>7
  <2>3. Succ(P', J) /\ IsPart(P') /\ conn'  BY <1>2, <1>7, <1>17
  <2>4. NoAnswer(J, air')  BY <1>18
  <2> QED  BY <1>4, <1>6, <1>16, <1>19, <1>20, <2>1, <2>2, <2>3, <2>4 DEF Sending, P, J
<1>22. Static' /\ Plain'  BY DEF Mix, Static, GotOK, DoneOK, AppOK, Plain, AirPlain
<1>23. Waiting' /\ Aside'  BY <1>4, <1>6 DEF Mix, Waiting, Aside
<1> QED  BY <1>21, <1>22, <1>23 DEF Mix

LEMMA AckMix == ASSUME IInv, Mix, OnAck, tainted' = FALSE PROVE Mix'
<1>0. /\ job.k = "none" /\ rx.k = "ack" /\ rx.n = cur.seq /\ cur.busy /\ cur.proto = "multi"
      /\ UNCHANGED <<link, air>>
  BY DEF OnAck, Handle
<1>1. IsAnswer(rx, Recorded)  BY <1>0 DEF IsAnswer, Recorded
<1>2. /\ cur.sent \in Nat /\ cur.resp.size \in Nat /\ cur.sent <= cur.resp.size
      /\ Remaining = cur.resp.size - cur.sent
  <2>1. cur.sent = cur.off + cur.len /\ IsPart(Recorded)
    BY <1>0 DEF Mix, Waiting, UnderWay
  <2>2. Recorded.off = cur.off /\ Recorded.len = cur.len /\ Recorded.resp = cur.resp
    BY DEF Recorded
  <2>3. /\ cur.off \in Nat /\ cur.len \in Nat \ {0} /\ cur.resp.size \in Nat \ {0}
        /\ cur.off + cur.len <= cur.resp.size
    BY <2>1, <2>2, PartSeq DEF IsPart
  <2> QED  BY <2>1, <2>3 DEF Remaining
<1>3. CASE Remaining = 0 /\ Completed
  <2>1. cur.sent = cur.resp.size  BY <1>2, <1>3
  <2> QED  BY <1>0, <1>1, <1>3, <2>1, CompletedMix
<1>4. CASE /\ \E len \in Parts(Remaining) :
                LET last == cur.sent + len >= cur.resp.size
                IN  /\ job' = [k |-> "send", proto |-> "multi", seq |-> IF last THEN LAST ELSE cur.next,
                               off |-> cur.sent, len |-> len, resp |-> cur.resp, rx |-> TRUE]
                    /\ cur' = [cur EXCEPT !.waiting = FALSE, !.retry = 0,
                                          !.next = IF last THEN 0 ELSE cur.next + 1]
           /\ UNCHANGED <<rx, wait, done>>
  <2>1. UNCHANGED <<conn, buf, app, air, got, rx, done>>  BY <1>0, <1>4 DEF link
  <2>2. PICK len \in Parts(Remaining) :
          LET last == cur.sent + len >= cur.resp.size
          IN  /\ job' = [k |-> "send", proto |-> "multi", seq |-> IF last THEN LAST ELSE cur.next,
                         off |-> cur.sent, len |-> len, resp |-> cur.resp, rx |-> TRUE]
              /\ cur' = [cur EXCEPT !.waiting = FALSE, !.retry = 0,
                                    !.next = IF last THEN 0 ELSE cur.next + 1]
    BY <1>4
  <2>3. len \in 1 .. Remaining  BY <2>2 DEF Parts
  <2>4. len \in 1 .. cur.resp.size - cur.sent /\ cur.sent < cur.resp.size  BY <1>2, <2>3
  <2> DEFINE last == cur.sent + len >= cur.resp.size
  <2>5. /\ last \in BOOLEAN
        /\ job' = [k |-> "send", proto |-> "multi", seq |-> IF last THEN LAST ELSE cur.next,
                   off |-> cur.sent, len |-> len, resp |-> cur.resp, rx |-> TRUE]
        /\ cur' = [cur EXCEPT !.waiting = FALSE, !.retry = 0,
                              !.next = IF last THEN 0 ELSE cur.next + 1]
    BY <2>2
  <2>6. last <=> cur.sent + len = cur.resp.size  BY <1>2, <2>4
  <2> HIDE DEF last
  <2> QED  BY <1>0, <1>1, <2>1, <2>4, <2>5, <2>6, ContinueMix
<1> QED  BY <1>3, <1>4 DEF OnAck

LEMMA TimeoutMix == ASSUME IInv, Mix, OnTimeout, tainted' = FALSE PROVE Mix'
<1>0. Types /\ job.k = "none" /\ UNCHANGED <<rx, link, air, done>>  BY DEF IInv, OnTimeout, Handle
<1>1. UNCHANGED <<conn, buf, app, air, got>>  BY <1>0 DEF link
<1>2. DoneOK'  BY <1>0, <1>1 DEF Mix, Static, DoneOK
<1>3. CASE UNCHANGED trans
  <2>1. cur' = cur /\ job' = job  BY <1>3 DEF trans
  <2>2. Recorded' = Recorded  BY <2>1 DEF Recorded
  <2> QED  BY <1>0, <1>1, <1>2, <2>1, <2>2, QuietMix
<1>4. CASE NextTransfer(FALSE)  BY <1>0, <1>1, <1>2, <1>4, NextMix
<1>5. CASE cur.busy /\ cur' = [cur EXCEPT !.retry = @ + 1] /\ job' = [k |-> "again", rx |-> FALSE]
  <2>1. /\ cur'.busy = cur.busy /\ cur'.sent = cur.sent /\ cur'.next = cur.next
        /\ cur'.proto = cur.proto /\ cur'.resp = cur.resp /\ cur'.seq = cur.seq
        /\ cur'.off = cur.off /\ cur'.len = cur.len
    BY <1>0, <1>5 DEF Types, CurOK
  <2>2. Recorded' = Recorded /\ job'.k = "again"  BY <1>5, <2>1 DEF Recorded
  <2> QED  BY <1>0, <1>1, <1>2, <1>5, <2>1, <2>2, QuietMix
<1> QED  BY <1>3, <1>4, <1>5 DEF OnTimeout

LEMMA StoreMix == ASSUME IInv, Mix, Store, tainted' = FALSE PROVE Mix'
<1>0. /\ job.k = "store" /\ job' = NoJob /\ rx' \in {rx, None}
      /\ UNCHANGED <<cur, link, air, done>>
  BY DEF Store, Released
<1>1. UNCHANGED <<conn, buf, app, air, got>> /\ job'.k = "none"  BY <1>0 DEF link, NoJob
<1>2. DoneOK'  BY <1>0, <1>1 DEF Mix, Static, DoneOK
<1>3. Recorded' = Recorded  BY <1>0 DEF Recorded
<1> QED  BY <1>0, <1>1, <1>2, <1>3, QuietMix

\* A packet is sent and recorded: it is the one under way from then on.
LEMMA RecordMix ==
  ASSUME IInv, Mix, NEW p, ble_server_send_notification(p), UnderWay(p, buf, app, got),
         Answered(p, rx', air, app, got), cur'.busy, Recorded' = p, job' = NoJob,
         rx' \in {rx, None}, done' = done,
         cur'.proto = "multi" => cur'.sent = cur'.off + cur'.len, NumberNext(Recorded)',
         ~conn => cur'.seq = 0 /\ ~IsAnswer(rx', p)
  PROVE  Mix'
<1>0. /\ AirOK /\ BufOK /\ AppOK /\ GotOK /\ AirPlain /\ LineOK(buf, app, got) /\ DoneOK
      /\ rx.k = "ok" => rx.n = 0
      /\ ~conn => air = <<>>
  BY DEF IInv, Types, Mix, Static, Plain, Aside
<1>1. /\ LineOK(buf', app', got') /\ AppOK' /\ GotOK' /\ AirPlain' /\ got \subseteq got'
      /\ UnderWay(p, buf', app', got') /\ Answered(p, rx', air', app', got')
      /\ ~conn => air' = air
  BY <1>0, NotifyKeeps
<1>2. conn' = conn /\ job'.k = "none"  BY DEF ble_server_send_notification, NoJob
<1>3. Static'  BY <1>0, <1>1 DEF Static, DoneOK
<1>4. Plain'  BY <1>0, <1>1 DEF Plain, None
<1>5. Waiting'  BY <1>1, <1>2 DEF Waiting
<1>6. Sending' /\ Aside'  BY <1>0, <1>1, <1>2 DEF Sending, Aside
<1> QED  BY <1>3, <1>4, <1>5, <1>6 DEF Mix

LEMMA TransmitMix == ASSUME IInv, Mix, Transmit, tainted' = FALSE PROVE Mix'
<1>0. /\ Types /\ job.k = "send" /\ job' = NoJob /\ Released
      /\ ble_server_send_notification(ToSend) /\ done' = done
  BY DEF IInv, Transmit, ToSend
<1>1. rx' = IF job.rx THEN None ELSE rx  BY <1>0 DEF Released
<1>2. cur' = [cur EXCEPT !.waiting = TRUE, !.proto = job.proto, !.seq = job.seq,
                         !.off = job.off, !.len = job.len,
                         !.sent = IF job.proto = "single" THEN 0
                                  ELSE IF job.off + job.len < Width THEN job.off + job.len
                                  ELSE job.off + job.len - Width]
  BY DEF Transmit
<1>3. /\ cur'.busy = cur.busy /\ cur'.resp = cur.resp /\ cur'.next = cur.next
      /\ cur'.proto = job.proto /\ cur'.seq = job.seq /\ cur'.off = job.off /\ cur'.len = job.len
      /\ job.proto = "multi" /\ job.off + job.len < Width => cur'.sent = job.off + job.len
  BY <1>0, <1>2 DEF Types, CurOK
<1>4. CASE ~cur.busy
  <2>1. ~conn  BY <1>0, <1>4 DEF Mix, Aside
  <2>2. UNCHANGED <<conn, buf, app, air, got>>  BY <1>0, <2>1 DEF ble_server_send_notification
  <2>3. DoneOK'  BY <1>0, <2>2 DEF Mix, Static, DoneOK
  <2>4. ~cur'.busy /\ job'.k = "none" /\ rx' \in {rx, None}  BY <1>0, <1>1, <1>3, <1>4 DEF NoJob
  <2> QED  BY <2>2, <2>3, <2>4, QuietMix
<1>5. CASE cur.busy
  <2>1. /\ IsPart(ToSend) /\ job.resp = cur.resp /\ NumberNext(ToSend)
        /\ NoAnswer(ToSend, air) /\ (job.rx \/ ~IsAnswer(rx, ToSend))
        /\ job.off = 0 => \A i \in 1 .. Len(buf) : ~Ours(buf[i])
        /\ job.off # 0 => /\ conn /\ IsPart(Recorded) /\ Succ(Recorded, ToSend)
                          /\ Took(Recorded, app, got) /\ OnlyRecorded
    BY <1>0, <1>5 DEF Mix, Sending
  <2>2. ToSend.off = job.off /\ ToSend.seq = job.seq /\ ToSend.proto = job.proto  BY DEF ToSend
  <2>3. job.off = 0 => job.seq = 0  BY <2>1, <2>2 DEF IsPart
  <2>4. UnderWay(ToSend, buf, app, got)
    <3>1. CASE job.off = 0
      <4>1. Ready(ToSend, app)  BY <2>2, <2>3, <3>1 DEF Ready
      <4> QED  BY <2>1, <3>1, <4>1 DEF UnderWay
    <3>2. CASE job.off # 0
      <4>1. Ready(ToSend, app) /\ ~Took(ToSend, app, got)  BY <2>1, <3>2, SuccReady
      <4> QED  BY <2>1, <3>2, <4>1 DEF UnderWay, OnlyRecorded
    <3> QED  BY <3>1, <3>2
  <2>5. ~IsAnswer(rx', ToSend)  BY <1>1, <2>1, NoneAnswers
  <2>6. Answered(ToSend, rx', air, app, got)  BY <2>1, <2>5 DEF Answered, NoAnswer
  <2>7. Recorded' = ToSend  BY <1>3, <2>1 DEF Recorded, ToSend
  <2>8. NumberNext(Recorded)'
    <3>1. (NumberNext(Recorded))' <=>
            (Recorded'.proto = "multi" /\ Recorded'.seq # LAST => cur'.next = Recorded'.seq + 1)
      BY DEF NumberNext
    <3> QED  BY <1>3, <2>1, <2>7, <3>1 DEF NumberNext
  <2>9. ~conn => cur'.seq = 0 /\ ~IsAnswer(rx', ToSend)  BY <1>3, <2>1, <2>3, <2>5
  <2>10. cur'.proto = "multi" => cur'.sent = cur'.off + cur'.len
    <3>1. /\ ToSend.off + ToSend.len <= ToSend.resp.size /\ ToSend.resp \in Resps
          /\ ToSend.off \in Nat /\ ToSend.len \in Nat
      BY <2>1, PartSeq DEF IsPart
    <3>2. ToSend.resp.size < Width /\ ToSend.resp.size \in Nat /\ Width \in Nat
      BY <3>1, ConstantsAssumption DEF Resps
    <3>3. ToSend.off = job.off /\ ToSend.len = job.len  BY DEF ToSend
    <3>4. job.off + job.len < Width  BY <3>1, <3>2, <3>3
    <3> QED  BY <1>3, <3>4
  <2>11. rx' \in {rx, None}  BY <1>1
  <2> QED  BY <1>0, <1>3, <1>5, <2>4, <2>6, <2>7, <2>8, <2>9, <2>10, <2>11, RecordMix
<1> QED  BY <1>4, <1>5

LEMMA RetransmitMix == ASSUME IInv, Mix, Retransmit, tainted' = FALSE PROVE Mix'
<1>0. /\ Types /\ job.k = "again" /\ job' = NoJob /\ rx' \in {rx, None} /\ done' = done
  BY DEF IInv, Retransmit, Released
<1>1. CASE /\ ~NothingRecorded /\ cur' = [cur EXCEPT !.waiting = TRUE]
           /\ ble_server_send_notification(Recorded)
  <2>1. cur.busy  BY <1>0, <1>1 DEF Mix, Aside, NothingRecorded
  <2>2. /\ UnderWay(Recorded, buf, app, got) /\ Answered(Recorded, rx, air, app, got)
        /\ cur.proto = "multi" => cur.sent = cur.off + cur.len
        /\ NumberNext(Recorded)
        /\ ~conn => cur.seq = 0 /\ ~IsAnswer(rx, Recorded)
    BY <1>0, <2>1 DEF Mix, Waiting
  <2>3. /\ cur'.busy = cur.busy /\ cur'.resp = cur.resp /\ cur'.next = cur.next
        /\ cur'.proto = cur.proto /\ cur'.seq = cur.seq /\ cur'.off = cur.off /\ cur'.len = cur.len
        /\ cur'.sent = cur.sent
    BY <1>0, <1>1 DEF Types, CurOK
  <2>4. Recorded' = Recorded  BY <2>3 DEF Recorded
  <2>5. NumberNext(Recorded)'  BY <2>2, <2>3, <2>4 DEF NumberNext
  <2>6. IsAnswer(rx', Recorded) => IsAnswer(rx, Recorded)  BY <1>0, NoneAnswers
  <2>7. Answered(Recorded, rx', air, app, got)  BY <2>2, <2>6 DEF Answered
  <2>8. ~conn => cur'.seq = 0 /\ ~IsAnswer(rx', Recorded)  BY <2>2, <2>3, <2>6
  <2>9. cur'.busy /\ (cur'.proto = "multi" => cur'.sent = cur'.off + cur'.len)
    BY <2>1, <2>2, <2>3
  <2> QED  BY <1>0, <1>1, <2>2, <2>4, <2>5, <2>7, <2>8, <2>9, RecordMix
<1>2. CASE UNCHANGED <<cur, link, air>>
  <2>1. UNCHANGED <<conn, buf, app, air, got>> /\ job'.k = "none"  BY <1>0, <1>2 DEF link, NoJob
  <2>2. DoneOK'  BY <1>0, <2>1 DEF Mix, Static, DoneOK
  <2>3. Recorded' = Recorded  BY <1>2 DEF Recorded
  <2> QED  BY <1>0, <1>2, <2>1, <2>2, <2>3, QuietMix
<1> QED  BY <1>1, <1>2 DEF Retransmit, Recorded
-----------------------------------------------------------------------------
(* The app, the connection and the other threads *)

\* The app's next packet is received, or dropped because the buffer is in use.
LEMMA InputMix == ASSUME IInv, Mix, BLE_DataInputBuffer, tainted' = FALSE PROVE Mix'
<1>0. /\ air # <<>> /\ air' = Tail(air) /\ UNCHANGED <<trans, link, done>>
      /\ rx' \in {rx, Head(air)} /\ air \in Seq(Answers)
  BY DEF IInv, Types, AirOK, BLE_DataInputBuffer
<1>1. /\ Len(air) \in Nat \ {0} /\ Len(air') = Len(air) - 1 /\ Head(air) = air[1]
      /\ \A i \in 1 .. Len(air') : air'[i] = air[i + 1]
  BY <1>0, HeadTailProperties, EmptySeq, LenProperties
<1>2. \A i \in 1 .. Len(air') : i + 1 \in 1 .. Len(air) /\ air'[i] = air[i + 1]  BY <1>1
<1>3. 1 \in 1 .. Len(air)  BY <1>1
<1>4. UNCHANGED <<cur, job, conn, buf, app, got, done>>  BY <1>0 DEF trans, link
<1>5. conn  BY <1>0 DEF Mix, Aside
<1>6. Recorded' = Recorded /\ ToSend' = ToSend  BY <1>4 DEF Recorded, ToSend
<1>7. Static' /\ Aside'
  BY <1>4, <1>5 DEF Mix, Static, GotOK, DoneOK, AppOK, Aside
<1>8. Plain'
  <2>1. AirPlain'  BY <1>2 DEF Mix, Plain, AirPlain
  <2>2. rx'.k = "ok" => rx'.n = 0  BY <1>0, <1>1, <1>3 DEF Mix, Plain, AirPlain
  <2> QED  BY <2>1, <2>2 DEF Plain
<1>9. ASSUME NEW p, Answered(p, rx, air, app, got) PROVE Answered(p, rx', air', app, got)
  <2>1. ASSUME IsAnswer(rx', p)
        PROVE  Took(p, app, got) /\ \A j \in 1 .. Len(air') : ~Later(air'[j], p)
    <3>1. CASE rx' = rx
      <4>1. Took(p, app, got) /\ \A j \in 1 .. Len(air) : ~Later(air[j], p)
        BY <1>9, <2>1, <3>1 DEF Answered
      <4> QED  BY <1>2, <4>1
    <3>2. CASE rx' = air[1]
      <4>1. Took(p, app, got) /\ \A j \in 1 + 1 .. Len(air) : ~Later(air[j], p)
        BY <1>3, <1>9, <2>1, <3>2 DEF Answered
      <4>2. \A j \in 1 .. Len(air') : j + 1 \in 1 + 1 .. Len(air)  BY <1>1
      <4> QED  BY <1>2, <4>1, <4>2
    <3> QED  BY <1>0, <1>1, <3>1, <3>2
  <2>2. ASSUME NEW i \in 1 .. Len(air'), IsAnswer(air'[i], p)
        PROVE  Took(p, app, got) /\ \A j \in i + 1 .. Len(air') : ~Later(air'[j], p)
    <3>1. Took(p, app, got) /\ \A j \in i + 1 + 1 .. Len(air) : ~Later(air[j], p)
      BY <1>2, <1>9, <2>2 DEF Answered
    <3>2. \A j \in i + 1 .. Len(air') : j \in 1 .. Len(air') /\ j + 1 \in i + 1 + 1 .. Len(air)
      BY <1>1
    <3> QED  BY <1>2, <3>1, <3>2
  <2> QED  BY <2>1, <2>2 DEF Answered
<1>10. Waiting'
  <2> SUFFICES ASSUME cur.busy, job.k # "send" PROVE Waiting'  BY <1>4 DEF Waiting
  <2>1. /\ UnderWay(Recorded, buf, app, got) /\ Answered(Recorded, rx, air, app, got)
        /\ cur.proto = "multi" => cur.sent = cur.off + cur.len
        /\ NumberNext(Recorded)
    BY DEF Mix, Waiting
  <2>2. UnderWay(Recorded', buf', app', got') /\ Answered(Recorded', rx', air', app', got')
    BY <1>4, <1>6, <1>9, <2>1
  <2>3. NumberNext(Recorded)'  BY <1>4, <1>6, <2>1 DEF NumberNext
  <2> QED  BY <1>4, <1>5, <2>1, <2>2, <2>3 DEF Waiting
<1>11. Sending'
  <2> SUFFICES ASSUME cur.busy, job.k = "send" PROVE Sending'  BY <1>4 DEF Sending
  <2>1. /\ IsPart(ToSend) /\ job.resp = cur.resp /\ NumberNext(ToSend)
        /\ NoAnswer(ToSend, air) /\ (job.rx \/ ~IsAnswer(rx, ToSend))
        /\ job.off = 0 => \A i \in 1 .. Len(buf) : ~Ours(buf[i])
        /\ job.off # 0 => /\ conn /\ IsPart(Recorded) /\ Succ(Recorded, ToSend)
                          /\ Took(Recorded, app, got) /\ OnlyRecorded
    BY DEF Mix, Sending
  <2>2. NumberNext(ToSend)'  BY <1>4, <1>6, <2>1 DEF NumberNext
  <2>3. NoAnswer(ToSend', air')  BY <1>2, <1>6, <2>1 DEF NoAnswer
  <2>4. job'.rx \/ ~IsAnswer(rx', ToSend')
    BY <1>0, <1>1, <1>3, <1>4, <1>6, <2>1 DEF NoAnswer
  <2>5. job.off # 0 => OnlyRecorded'  BY <1>4, <1>6, <2>1 DEF OnlyRecorded
  <2> QED  BY <1>4, <1>6, <2>1, <2>2, <2>3, <2>4, <2>5 DEF Sending
<1> QED  BY <1>7, <1>8, <1>10, <1>11 DEF Mix

\* A new connection finds an app that has nothing, and at most a first packet out.
LEMMA ConnectMix == ASSUME IInv, Mix, Connect, tainted' = FALSE PROVE Mix'
<1>0. /\ ~conn /\ job.k = "none" /\ conn' = TRUE /\ app' = NoPart
      /\ UNCHANGED <<rx, trans, buf, got, air, done>>
  BY DEF Connect
<1>1. UNCHANGED <<cur, job>> /\ app'.seq = -1  BY <1>0 DEF trans, NoPart
<1>2. AppOK'  BY <1>1 DEF AppOK, LAST
<1>3. LineOK(buf', app', got')  BY <1>0, <1>1 DEF Mix, Static, LineOK, Fits
<1>4. Static' /\ Plain'
  BY <1>0, <1>2, <1>3 DEF Mix, Static, GotOK, DoneOK, Plain, AirPlain
<1>5. Recorded' = Recorded  BY <1>1 DEF Recorded
<1>6. Waiting'
  <2> SUFFICES ASSUME cur.busy PROVE Waiting'  BY <1>1 DEF Waiting
  <2>1. /\ UnderWay(Recorded, buf, app, got)
        /\ cur.proto = "multi" => cur.sent = cur.off + cur.len
        /\ NumberNext(Recorded)
        /\ cur.seq = 0 /\ ~IsAnswer(rx, Recorded)
    BY <1>0 DEF Mix, Waiting
  <2>2. IsPart(Recorded) /\ Recorded.seq = 0  BY <2>1 DEF UnderWay, Recorded
  <2>3. ASSUME NEW i \in 1 .. Len(buf), Ours(buf[i]) PROVE buf[i].p = Recorded
    <3>1. IsPart(buf[i].p)  BY <2>3 DEF Mix, Static, LineOK, Fits
    <3>2. ASSUME Succ(buf[i].p, Recorded) PROVE FALSE
      <4>1. Recorded.seq \in 1 .. LAST  BY <2>2, <3>1, <3>2, SuccFacts
      <4> QED  BY <2>2, <4>1
    <3> QED  BY <2>1, <2>3, <3>2 DEF UnderWay
  <2>4. UnderWay(Recorded', buf', app', got')
    <3>1. Ready(Recorded, app')  BY <2>2 DEF Ready
    <3> QED  BY <1>0, <1>5, <2>2, <2>3, <3>1 DEF UnderWay
  <2>5. Answered(Recorded', rx', air', app', got')
    <3>1. air' = <<>>  BY <1>0 DEF Mix, Aside
    <3>2. Len(air') = 0  BY <3>1, EmptySeq
    <3>3. 1 .. Len(air') = {}  BY <3>2
    <3> QED  BY <1>0, <1>5, <2>1, <3>3 DEF Answered
  <2>6. NumberNext(Recorded)'  BY <1>1, <1>5, <2>1 DEF NumberNext
  <2> QED  BY <1>0, <1>1, <2>1, <2>4, <2>5, <2>6 DEF Waiting
<1>7. Sending' /\ Aside'  BY <1>0, <1>1 DEF Sending, Aside, Mix
<1> QED  BY <1>4, <1>6, <1>7 DEF Mix

\* A disconnect leaves the transport idle, whatever is in the buffer.
LEMMA DisconnectMix == ASSUME IInv, Mix, Disconnect, tainted' = FALSE PROVE Mix'
<1>0. /\ conn' = FALSE /\ air' = <<>> /\ cur' = Idle
      /\ UNCHANGED <<rx, buf, app, got, done>>
  BY DEF Disconnect
<1>1. ~cur'.busy /\ cur'.proto = "none"  BY <1>0 DEF Idle
<1>2. 1 .. Len(air') = {}
  <2>1. Len(air') = 0  BY <1>0, EmptySeq
  <2> QED  BY <2>1
<1>3. Static' /\ Plain'
  BY <1>0, <1>2 DEF Mix, Static, GotOK, DoneOK, AppOK, Plain, AirPlain
<1>4. Waiting' /\ Sending' /\ Aside'  BY <1>0, <1>1 DEF Waiting, Sending, Aside
<1> QED  BY <1>3, <1>4 DEF Mix

LEMMA AppCommandMix == ASSUME IInv, Mix, Command, tainted' = FALSE PROVE Mix'
<1> DEFINE x == [k |-> "cmd", n |-> asked']
<1>0. /\ conn /\ asked' = asked + 1 /\ air' = Append(air, x)
      /\ UNCHANGED <<rx, trans, link, done>> /\ air \in Seq(Answers) /\ asked \in Nat
  BY DEF IInv, Types, AirOK, CountOK, Command, Ask
<1>1. x \in Answers /\ x.k = "cmd"  BY <1>0 DEF Answers
<1> HIDE DEF x
<1>2. \A p : ~IsAnswer(x, p) /\ ~Later(x, p)  BY <1>1 DEF IsAnswer, Later
<1>3. /\ Len(air') = Len(air) + 1 /\ Len(air) \in Nat
      /\ \A i \in 1 .. Len(air) : air'[i] = air[i]
      /\ air'[Len(air) + 1] = x
  BY <1>0, <1>1, AppendProperties
<1>4. \A i \in 1 .. Len(air') : (i \in 1 .. Len(air) /\ air'[i] = air[i]) \/ air'[i] = x
  BY <1>3
<1>5. UNCHANGED <<cur, job, conn, buf, app, got, done>>  BY <1>0 DEF trans, link
<1>6. Recorded' = Recorded /\ ToSend' = ToSend  BY <1>5 DEF Recorded, ToSend
<1>7. Static' /\ Aside'
  BY <1>0, <1>5 DEF Mix, Static, GotOK, DoneOK, AppOK, Aside
<1>8. Plain'  BY <1>0, <1>1, <1>4 DEF Mix, Plain, AirPlain
<1>9. Waiting'
  <2> SUFFICES ASSUME cur.busy, job.k # "send" PROVE Waiting'  BY <1>5 DEF Waiting
  <2>1. /\ UnderWay(Recorded, buf, app, got) /\ Answered(Recorded, rx, air, app, got)
        /\ cur.proto = "multi" => cur.sent = cur.off + cur.len
        /\ NumberNext(Recorded)
    BY DEF Mix, Waiting
  <2>2. Answered(Recorded, rx, air', app, got)  BY <1>0, <1>1, <1>2, <2>1, AppendAnswered
  <2>3. UnderWay(Recorded', buf', app', got') /\ Answered(Recorded', rx', air', app', got')
    BY <1>0, <1>5, <1>6, <2>1, <2>2
  <2>4. NumberNext(Recorded)'  BY <1>5, <1>6, <2>1 DEF NumberNext
  <2> QED  BY <1>0, <1>5, <2>1, <2>3, <2>4 DEF Waiting
<1>10. Sending'
  <2> SUFFICES ASSUME cur.busy, job.k = "send" PROVE Sending'  BY <1>5 DEF Sending
  <2>1. /\ IsPart(ToSend) /\ job.resp = cur.resp /\ NumberNext(ToSend)
        /\ NoAnswer(ToSend, air) /\ (job.rx \/ ~IsAnswer(rx, ToSend))
        /\ job.off = 0 => \A i \in 1 .. Len(buf) : ~Ours(buf[i])
        /\ job.off # 0 => /\ conn /\ IsPart(Recorded) /\ Succ(Recorded, ToSend)
                          /\ Took(Recorded, app, got) /\ OnlyRecorded
    BY DEF Mix, Sending
  <2>2. NumberNext(ToSend)'  BY <1>5, <1>6, <2>1 DEF NumberNext
  <2>3. NoAnswer(ToSend', air')  BY <1>2, <1>4, <1>6, <2>1 DEF NoAnswer
  <2>4. job.off # 0 => OnlyRecorded'  BY <1>5, <1>6, <2>1 DEF OnlyRecorded
  <2> QED  BY <1>0, <1>5, <1>6, <2>1, <2>2, <2>3, <2>4 DEF Sending
<1> QED  BY <1>7, <1>8, <1>9, <1>10 DEF Mix

\* Another thread's notification carries what is in front of the buffer, packets of the
\* transport too.
LEMMA OtherEndMix == ASSUME IInv, Mix, OtherEnd, tainted' = FALSE PROVE Mix'
<1>0. /\ BufOK /\ AirOK /\ other \in Nat /\ UNCHANGED <<rx, trans, conn, done>>
      /\ \/ conn /\ buf' = Rest(buf, other) /\ Deliver(SubSeq(buf, 1, other))
         \/ UNCHANGED <<buf, app, got, air>>
  BY DEF IInv, Types, LinkOK, OtherEnd
<1>1. UNCHANGED <<cur, job>>  BY <1>0 DEF trans
<1>2. CASE UNCHANGED <<buf, app, got, air>>  BY <1>0, <1>1, <1>2, SameMix
<1>3. CASE conn /\ buf' = Rest(buf, other) /\ Deliver(SubSeq(buf, 1, other))
  <2>1. buf \in Seq(CellSet) /\ other \in 0 .. Len(buf)  BY <1>0 DEF BufOK
  <2>2. AppOK /\ GotOK /\ AirPlain /\ LineOK(buf, app, got) /\ DoneOK  BY DEF Mix, Static, Plain
  <2>3. /\ LineOK(buf', app', got') /\ AppOK' /\ GotOK' /\ AirPlain' /\ got \subseteq got'
        /\ \A p, r : UnderWay(p, buf, app, got) /\ Answered(p, r, air, app, got) =>
             UnderWay(p, buf', app', got') /\ Answered(p, r, air', app', got')
    BY <1>0, <1>3, <2>1, <2>2, DeliverKeeps
  <2>4. Static' /\ Plain' /\ Aside'
    BY <1>0, <1>1, <1>3, <2>2, <2>3 DEF Mix, Static, DoneOK, Plain, Aside
  <2>5. Recorded' = Recorded /\ ToSend' = ToSend  BY <1>1 DEF Recorded, ToSend
  <2>6. Waiting'
    <3> SUFFICES ASSUME cur.busy, job.k # "send" PROVE Waiting'  BY <1>1 DEF Waiting
    <3>1. /\ UnderWay(Recorded, buf, app, got) /\ Answered(Recorded, rx, air, app, got)
          /\ cur.proto = "multi" => cur.sent = cur.off + cur.len
          /\ NumberNext(Recorded)
      BY DEF Mix, Waiting
    <3>2. UnderWay(Recorded', buf', app', got') /\ Answered(Recorded', rx', air', app', got')
      BY <1>0, <2>3, <2>5, <3>1
    <3>3. NumberNext(Recorded)'  BY <1>1, <2>5, <3>1 DEF NumberNext
    <3> QED  BY <1>0, <1>1, <1>3, <3>1, <3>2, <3>3 DEF Waiting
  <2>7. Sending'
    <3> SUFFICES ASSUME cur.busy, job.k = "send" PROVE Sending'  BY <1>1 DEF Sending
    <3>1. /\ IsPart(ToSend) /\ job.resp = cur.resp /\ NumberNext(ToSend)
          /\ NoAnswer(ToSend, air) /\ (job.rx \/ ~IsAnswer(rx, ToSend))
          /\ job.off = 0 => \A i \in 1 .. Len(buf) : ~Ours(buf[i])
          /\ job.off # 0 => /\ conn /\ IsPart(Recorded) /\ Succ(Recorded, ToSend)
                            /\ Took(Recorded, app, got) /\ OnlyRecorded
      BY DEF Mix, Sending
    <3>2. \A i \in 1 .. Len(buf') : \E j \in 1 .. Len(buf) : buf'[i] = buf[j]
      BY <1>3, <2>1, RestKeeps
    <3>3. NumberNext(ToSend)'  BY <1>1, <2>5, <3>1 DEF NumberNext
    <3>4. job.off = 0 => \A i \in 1 .. Len(buf') : ~Ours(buf'[i])  BY <3>1, <3>2
    <3>5. job.off # 0 => OnlyRecorded'  BY <2>5, <3>1, <3>2 DEF OnlyRecorded
    <3>6. NoAnswer(ToSend, air') /\ (job.off # 0 => Took(Recorded, app', got'))
      <4>1. CASE UNCHANGED <<app, got, air>>  BY <3>1, <4>1
      <4>2. CASE buf # <<>> /\ Ours(buf[1]) /\ Take(buf[1].p)
        <5>1. 1 \in 1 .. Len(buf)  BY <2>1, <4>2, EmptySeq, LenProperties
        <5>2. job.off # 0 /\ buf[1].p = Recorded  BY <3>1, <4>2, <5>1 DEF OnlyRecorded
        <5>3. Take(Recorded)  BY <4>2, <5>2
        <5>4. IsPart(Recorded) /\ Took(Recorded, app, got) /\ Succ(Recorded, ToSend)  BY <3>1, <5>2
        <5>5. Took(Recorded, app', got') /\ (Answer(Recorded) \/ UNCHANGED air)
          BY <2>2, <5>3, <5>4, TakeEffect
        <5>6. NoAnswer(ToSend, air')
          <6>1. CASE air' = air  BY <3>1, <6>1
          <6>2. ASSUME NEW x \in Answers, air' = Append(air, x), IsAnswer(x, Recorded)
                PROVE  NoAnswer(ToSend, air')
            <7>1. ~IsAnswer(x, ToSend)  BY <3>1, <5>4, <6>2, OneAnswer
            <7>2. /\ Len(air') = Len(air) + 1 /\ Len(air) \in Nat
                  /\ \A i \in 1 .. Len(air) : air'[i] = air[i]
                  /\ air'[Len(air) + 1] = x
              BY <1>0, <6>2, AppendProperties DEF AirOK
            <7>3. \A i \in 1 .. Len(air') : i \in 1 .. Len(air) \/ i = Len(air) + 1  BY <7>2
            <7> QED  BY <3>1, <7>1, <7>2, <7>3 DEF NoAnswer
          <6> QED  BY <1>0, <5>4, <5>5, <6>1, <6>2, AnswerIs
        <5> QED  BY <5>5, <5>6
      <4> QED  BY <1>3, <2>1, <4>1, <4>2, DeliverIs
    <3> QED  BY <1>0, <1>1, <1>3, <2>5, <3>1, <3>3, <3>4, <3>5, <3>6 DEF Sending
  <2> QED  BY <2>4, <2>6, <2>7 DEF Mix
<1> QED  BY <1>0, <1>2, <1>3

-----------------------------------------------------------------------------
(* Theorems: responses are not mixed *)

LEMMA InitMix == Init => MixInv
<1> SUFFICES ASSUME Init PROVE Mix  BY DEF MixInv
<1>0. /\ rx = None /\ cur = Idle /\ job = NoJob /\ conn = FALSE /\ buf = <<>> /\ app = NoPart
      /\ air = <<>> /\ got = {} /\ done = {}
  BY DEF Init
<1>1. 1 .. Len(buf) = {} /\ 1 .. Len(air) = {}
  <2>1. Len(buf) = 0 /\ Len(air) = 0  BY <1>0, EmptySeq
  <2> QED  BY <2>1
<1>2. LineOK(buf, app, got)  BY <1>1 DEF LineOK, Fits, InOrder
<1>3. AppOK
  <2>1. app.seq = -1  BY <1>0 DEF NoPart
  <2> QED  BY <2>1 DEF AppOK, LAST
<1>4. Static  BY <1>0, <1>2, <1>3 DEF Static, GotOK, DoneOK
<1>5. Plain  BY <1>0, <1>1 DEF Plain, AirPlain, None
<1>6. ~cur.busy /\ job.k = "none"  BY <1>0 DEF Idle, NoJob
<1>7. Waiting /\ Sending /\ Aside  BY <1>0, <1>6 DEF Waiting, Sending, Aside
<1> QED  BY <1>4, <1>5, <1>7 DEF Mix

\* An exception that was made stays made.
LEMMA TaintedStays == ASSUME IInv, [Next]_vars, tainted PROVE tainted'
<1>1. CASE Begin \/ BeginNarrow  BY <1>1 DEF Begin, BeginNarrow
<1>2. CASE BleThread /\ ~(Begin \/ BeginNarrow)
  <2>1. UNCHANGED hist
    BY <1>2 DEF BleThread, OnTx, OnCommand, OnOtherAnswer, OnConfirmed, OnAck, OnTimeout, Store,
                Transmit, Retransmit
  <2> QED  BY <2>1 DEF hist
<1>3. CASE TimerExpires \/ Outside \/ UNCHANGED vars
  <2>1. UNCHANGED hist
    BY <1>3 DEF TimerExpires, Outside, BLE_DataInputBuffer, Connect, Subscription, Disconnect,
                Command, send_ble_msg, OtherBegin, OtherEnd, vars
  <2> QED  BY <2>1 DEF hist
<1> QED  BY <1>1, <1>2, <1>3 DEF Next

LEMMA MixKeeps == IInv /\ MixInv /\ [Next]_vars => MixInv'
<1> SUFFICES ASSUME IInv, MixInv, [Next]_vars, ~tainted' PROVE Mix'  BY DEF MixInv
<1>0. Mix /\ BufOK  BY TaintedStays DEF MixInv, IInv, Types
<1>1. tainted' = FALSE
  <2>1. IInv'  BY StepKeeps
  <2> QED  BY <2>1 DEF IInv, Types, CountOK
<1>2. CASE BleThread
  <2>1. ~BeginNarrow  BY <1>1 DEF BeginNarrow
  <2> QED  BY <1>0, <1>1, <1>2, <2>1, TxMix, CommandMix, OtherAnswerMix, ConfirmedMix, AckMix,
              TimeoutMix, BeginMix, StoreMix, TransmitMix, RetransmitMix DEF BleThread
<1>3. CASE \/ BLE_DataInputBuffer \/ Connect \/ Disconnect \/ Command \/ OtherEnd
  BY <1>0, <1>1, <1>3, InputMix, ConnectMix, DisconnectMix, AppCommandMix, OtherEndMix
<1>4. CASE TimerExpires \/ Subscription \/ send_ble_msg \/ OtherBegin \/ UNCHANGED vars
  <2>1. /\ UNCHANGED <<rx, cur, job, conn, app, air, got, done>>
        /\ buf' \in {buf, Add(buf, OtherPacket)}
    BY <1>4 DEF TimerExpires, Subscription, send_ble_msg, OtherBegin, vars, trans, link
  <2> QED  BY <1>0, <2>1, SameMix
<1> QED  BY <1>2, <1>3, <1>4 DEF Next, Outside

LEMMA MixHolds == Spec => []MixInv
<1>1. Spec => []IInv  BY InitHolds, StepKeeps, PTL DEF Spec
<1> QED  BY <1>1, InitMix, MixKeeps, PTL DEF Spec

\* For responses of every size and every course of repetitions, answers lost or repeated,
\* notifications of other threads, faults, disconnects and new connections: what the app takes
\* for a response is exactly one response of the device, unit by unit
\* (ble_multiple_packet_continue and the retransmission of ble_packet_trans_timeout_handler),
\* unless a transfer began while an answer or a packet of an earlier one was under way, with
\* data that the clean-up of a disconnect zeroed while they were copied, or with an MTU below 39.
THEOREM NeverMixedCorrect == Spec => []NeverMixed
  BY MixHolds, MixSuffices, PTL

\* Under the same three exceptions, the transport reports a transfer as completed
\* (ble_packet_trans_complete_current) only when the app has the whole response.
THEOREM CompletedReceivedCorrect == Spec => []CompletedReceived
  BY MixHolds, MixSuffices, PTL
=============================================================================
