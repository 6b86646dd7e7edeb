----------------------------- MODULE OtaProofs -----------------------------
(***************************************************************************)
(* The firmware update, for every size of cache, sector, partition, image  *)
(* and packet, and every number of sessions, retries and failures.         *)
(*                                                                         *)
(*   WriterInv  the writer's books (CacheInStep) with the form of the      *)
(*              packets and counters of the two protocols: a negative      *)
(*              length would let the cache run backwards;                  *)
(*   AskInv     the app is asked for units of its image only, and only if  *)
(*              it fits into the partition, so that every unit written is  *)
(*              one of the partition (MediumOK);                           *)
(*   BleInv     the app alone: the request address is never behind the     *)
(*              writer, and where they agree the image is in its place;    *)
(*   LteInv     the 4G module alone: what was received is in its place.    *)
(*                                                                         *)
(* BleInv and LteInv give UpgradeOnlyComplete.  A session that was broken  *)
(* off and taken again accepts late packets, but cannot complete its count *)
(* with them: the packets under way end before the image does.             *)
(***************************************************************************)
EXTENDS Ota, SequenceTheorems, TLAPS

AnyUnit == (Sources \X Nat) \cup {Erased, Pad, Spoilt}
Packets == [cmd : {"START", "SIZE", "IMAGE", "END"}, addr : Nat, len : Nat]

CacheForm == cache \in [buf : Seq(AnyUnit), addr : Nat, total : Nat, size : Nat]
DfuForm   == dfu \in [req : Nat, size : Nat, rep : Nat] /\ air \in Seq(Packets)
LteForm   ==
  lte \in [st : LteSteps, next : 0 .. ImageSize["LTE"],
           written : 0 .. ImageSize["LTE"], clean : BOOLEAN]
Form == CacheForm /\ DfuForm /\ LteForm

\* What every step keeps.
WriterInv == Form /\ CacheInStep

\* Blocks follow one another from address 0.
LEMMA BlockStarts ==
  BlockStart(0) /\ \A a \in Nat : BlockStart(a) => BlockStart(a + Buf)
<1>1. BlockStart(0)
  BY SizeAssumption DEF BlockStart
<1>2. ASSUME NEW a \in Nat, BlockStart(a) PROVE BlockStart(a + Buf)
  <2>1. PICK k \in 0 .. a : a = k * Buf
    BY <1>2 DEF BlockStart
  <2>2. a + Buf = (k + 1) * Buf /\ k + 1 \in 0 .. a + Buf
    BY <2>1, SizeAssumption
  <2> QED
    BY <2>2 DEF BlockStart
<1> QED
  BY <1>1, <1>2

\* my_ota_flash_close, with or without a session, leaves the books in order.
LEMMA CloseKeeps ==
  ASSUME CacheForm, CacheInStep, CloseOnly
  PROVE  CacheForm' /\ CacheInStep'
  BY BlockStarts, SizeAssumption DEF CacheForm, CacheInStep, CloseOnly, EmptyCache

\* my_ota_flash_open starts new ones.
LEMMA OpenKeeps ==
  ASSUME NEW size \in Nat, my_ota_flash_open(size)
  PROVE  CacheForm' /\ CacheInStep'
  BY BlockStarts, SizeAssumption DEF CacheForm, CacheInStep, my_ota_flash_open, EmptyCache

\* Data that fits keeps the cache in step, flushed or not.
LEMMA FillKeeps ==
  ASSUME CacheForm, CacheInStep, NEW units \in Seq(AnyUnit), HasRoom(Len(units)),
         cache' = Filled(units)
  PROVE  CacheForm' /\ CacheInStep'
<1>1. /\ cache.buf \o units \in Seq(AnyUnit)
      /\ Len(cache.buf \o units) = Len(cache.buf) + Len(units)
      /\ Len(units) \in Nat /\ Len(cache.buf) \in Nat
  BY DEF CacheForm
<1>2. /\ cache'.buf = cache.buf \o units /\ cache'.addr = cache.addr
      /\ cache'.total = cache.total + Len(units) /\ cache'.size = cache.size
      /\ cache' \in [buf : Seq(AnyUnit), addr : Nat, total : Nat, size : Nat]
  BY <1>1 DEF Filled, CacheForm
<1> QED
  BY <1>1, <1>2, SizeAssumption DEF CacheForm, CacheInStep, HasRoom

\* A flush that succeeds moves on to the next block.
LEMMA FlushKeeps ==
  ASSUME CacheForm, CacheInStep, NEW units \in Seq(AnyUnit), HasRoom(Len(units)),
         Flushes(units), cache' = NextBlock(Filled(units))
  PROVE  CacheForm' /\ CacheInStep'
<1>1. Len(units) \in Nat /\ Len(cache.buf) \in Nat /\ Len(<<>>) = 0
  BY DEF CacheForm
<1>2. /\ cache'.buf = <<>> /\ cache'.addr = cache.addr + Buf
      /\ cache'.total = cache.total + Len(units) /\ cache'.size = cache.size
      /\ cache' \in [buf : Seq(AnyUnit), addr : Nat, total : Nat, size : Nat]
  BY <1>1, SizeAssumption DEF Filled, NextBlock, CacheForm
<1>3. Filled(units).total = cache.total + Len(units) /\ Filled(units).size = cache.size
  BY DEF Filled, CacheForm
<1>4. BlockStart(cache.addr + Buf)
  BY BlockStarts, SizeAssumption DEF CacheForm, CacheInStep
<1> QED
  BY <1>1, <1>2, <1>3, <1>4, SizeAssumption, SMTT(30)
  DEF CacheForm, CacheInStep, HasRoom, Flushes, IsLast

\* A block written to the session keeps the books in order.
LEMMA WriteKeeps ==
  ASSUME CacheForm, CacheInStep, NEW units \in Seq(AnyUnit),
         my_ota_flash_write_block(units)
  PROVE  CacheForm' /\ CacheInStep'
  BY FillKeeps, FlushKeeps DEF my_ota_flash_write_block

\* A request has a natural length: the remainder never goes below zero.
LEMMA RequestForm ==
  ASSUME NEW q \in Seq(Packets), NEW size \in Nat, NEW req \in Nat,
         NEW room \in Nat, Request(q, size, req, room)
  PROVE  air' \in Seq(Packets)
<1>1. Remain(size, req) \in Nat
  BY SizeAssumption DEF Remain, Huge
<1>2. \A mtu \in Mtus : calc_pkt_size(mtu, Remain(size, req), room) \in Nat
  BY <1>1, SizeAssumption DEF calc_pkt_size, Min
<1>3. CASE air' = q
  BY <1>3
<1>4. CASE \E mtu \in Mtus :
             air' = Append(q, [cmd |-> "IMAGE", addr |-> req,
                               len |-> calc_pkt_size(mtu, Remain(size, req), room)])
  <2>1. PICK mtu \in Mtus :
             air' = Append(q, [cmd |-> "IMAGE", addr |-> req,
                               len |-> calc_pkt_size(mtu, Remain(size, req), room)])
    BY <1>4
  <2>2. [cmd |-> "IMAGE", addr |-> req,
         len |-> calc_pkt_size(mtu, Remain(size, req), room)] \in Packets
    BY <1>2 DEF Packets
  <2> QED
    BY <2>1, <2>2
<1> QED
  BY <1>3, <1>4 DEF Request

\* The units of an IMAGE packet, and of a frame, are units.
LEMMA UnitsForm ==
  ASSUME NEW a \in Nat, NEW n \in Nat
  PROVE  Units("BLE", a, n) \in Seq(AnyUnit)
<1>1. \A i \in 1 .. n : <<"BLE", a + i - 1>> \in AnyUnit
  BY DEF AnyUnit, Sources
<1> QED
  BY <1>1 DEF Units

\* See UnitsForm.
LEMMA FrameForm ==
  ASSUME LteForm
  PROVE  /\ SaveSize \in Nat /\ SaveSize <= ImageSize["LTE"] - lte.written
         /\ FrameUnits \in Seq(AnyUnit)
<1>1. ImageSize["LTE"] \in Nat
  BY SizeAssumption DEF Sources
<1>2. SaveSize \in Nat /\ SaveSize <= ImageSize["LTE"] - lte.written
  BY <1>1, SizeAssumption DEF LteForm, SaveSize, Min
<1>3. \A i \in 1 .. SaveSize :
        (IF lte.next + i <= ImageSize["LTE"]
         THEN <<"LTE", lte.next + i - 1>> ELSE Pad) \in AnyUnit
  <2> SUFFICES ASSUME NEW i \in 1 .. SaveSize
               PROVE  lte.next + i - 1 \in Nat
    BY DEF AnyUnit, Sources
  <2> QED
    BY <1>1, <1>2 DEF LteForm
<1> QED
  BY <1>2, <1>3 DEF FrameUnits

-----------------------------------------------------------------------------
\* Initially nothing is cached and nothing is under way.
LEMMA InitKeeps == Init => WriterInv
<1> SUFFICES ASSUME Init PROVE WriterInv
  OBVIOUS
<1>1. CacheForm /\ CacheInStep
  BY BlockStarts, SizeAssumption DEF Init, CacheForm, CacheInStep, EmptyCache
<1>2. DfuForm
  BY DEF Init, DfuForm
<1>3. LteForm
  BY SizeAssumption DEF Init, LteForm, LteFrom, LteSteps, Sources
<1> QED
  BY <1>1, <1>2, <1>3 DEF WriterInv, Form

\* The head of the queue of packets can be taken off.
LEMMA TakePacket ==
  ASSUME air \in Seq(Packets), air # <<>>
  PROVE  Head(air) \in Packets /\ Tail(air) \in Seq(Packets)
  OBVIOUS

\* The app's packets, sent and lost.
LEMMA AppKeeps ==
  ASSUME WriterInv, App
  PROVE  WriterInv'
<1>1. cache' = cache /\ dfu' = dfu /\ lte' = lte
  BY DEF App, AppStart, AppEnd, Lost, session
<1>2. Packet("START") \in Packets /\ Packet("END") \in Packets
  BY DEF Packet, Packets
<1>3. air' \in Seq(Packets)
  <2>1. CASE AppStart \/ AppEnd
    BY <1>2, <2>1 DEF AppStart, AppEnd, WriterInv, Form, DfuForm
  <2>2. CASE Lost
    BY <2>2, TakePacket DEF Lost, WriterInv, Form, DfuForm
  <2> QED
    BY <2>1, <2>2 DEF App
<1> QED
  BY <1>1, <1>3 DEF WriterInv, Form, CacheForm, DfuForm, LteForm, CacheInStep

\* START, SIZE and END.
LEMMA StartKeeps ==
  ASSUME WriterInv, jimi_dfu_start
  PROVE  WriterInv'
<1>1. cache' = cache /\ dfu' = dfu /\ lte' = lte
  BY DEF jimi_dfu_start, session
<1>2. Packet("SIZE") \in Packets
  BY DEF Packet, Packets
<1>3. air' \in Seq(Packets)
  BY <1>2, TakePacket, SMTT(30) DEF jimi_dfu_start, Received, WriterInv, Form, DfuForm
<1> QED
  BY <1>1, <1>3 DEF WriterInv, Form, CacheForm, DfuForm, LteForm, CacheInStep

\* See StartKeeps.
LEMMA FileSizeKeeps ==
  ASSUME WriterInv, jimi_dfu_rx_file_size
  PROVE  WriterInv'
<1> DEFINE size == ImageSize["BLE"]
<1>1. size \in Nat /\ Tail(air) \in Seq(Packets) /\ lte' = lte
  BY SizeAssumption, TakePacket
  DEF jimi_dfu_rx_file_size, Received, WriterInv, Form, DfuForm, Sources
<1>2. CASE /\ my_ota_flash_open(size)
           /\ dfu' = [req |-> 0, size |-> size, rep |-> 0]
           /\ Request(Tail(air), size, 0, Buf)
  <2>1. CacheForm' /\ CacheInStep'
    BY <1>1, <1>2, OpenKeeps
  <2>2. air' \in Seq(Packets)
    BY <1>1, <1>2, RequestForm, SizeAssumption
  <2> QED
    BY <1>1, <1>2, <2>1, <2>2 DEF WriterInv, Form, DfuForm, LteForm
<1>3. CASE /\ CloseOnly
           /\ dfu' = [dfu EXCEPT !.size = size] /\ air' = Tail(air)
  <2>1. CacheForm' /\ CacheInStep'
    BY <1>3, CloseKeeps DEF WriterInv, Form
  <2> QED
    BY <1>1, <1>3, <2>1 DEF WriterInv, Form, DfuForm, LteForm
<1> QED
  BY <1>2, <1>3 DEF jimi_dfu_rx_file_size

\* An IMAGE packet: ignored, failed, last or one of many.
LEMMA ImageKeeps ==
  ASSUME WriterInv, jimi_dfu_write_image
  PROVE  WriterInv'
<1> DEFINE p == Head(air)
           units == Units("BLE", p.addr, p.len)
<1>1. /\ p \in Packets /\ Tail(air) \in Seq(Packets) /\ lte' = lte
      /\ p.addr \in Nat /\ p.len \in Nat
  BY TakePacket DEF jimi_dfu_write_image, Received, WriterInv, Form, DfuForm, Packets
<1>2. units \in Seq(AnyUnit)
  BY <1>1, UnitsForm
<1>3. CASE air' = Tail(air) /\ UNCHANGED <<session, dfu>>
  BY <1>1, <1>3
  DEF session, WriterInv, Form, CacheForm, DfuForm, LteForm, CacheInStep
<1>4. CASE CloseOnly /\ air' = Tail(air) /\ UNCHANGED dfu
  <2>1. CacheForm' /\ CacheInStep'
    BY <1>4, CloseKeeps DEF WriterInv, Form
  <2> QED
    BY <1>1, <1>4, <2>1 DEF WriterInv, Form, DfuForm, LteForm
<1>5. CASE /\ my_ota_flash_write_block(units)
           /\ dfu' = [req |-> p.addr + p.len, size |-> dfu.size, rep |-> 0]
           /\ Request(Tail(air), dfu.size, p.addr + p.len, Buf - Len(cache'.buf))
  <2>1. CacheForm' /\ CacheInStep'
    BY <1>2, <1>5, WriteKeeps DEF WriterInv, Form
  <2>2. Buf - Len(cache'.buf) \in Nat
    BY <2>1, SizeAssumption DEF CacheForm, CacheInStep
  <2>3. air' \in Seq(Packets)
    <3>1. p.addr + p.len \in Nat /\ dfu.size \in Nat
      BY <1>1 DEF WriterInv, Form, DfuForm
    <3> QED
      BY <1>1, <1>5, <2>2, <3>1, RequestForm
  <2>4. dfu' \in [req : Nat, size : Nat, rep : Nat]
    BY <1>1, <1>5 DEF WriterInv, Form, DfuForm
  <2> QED
    BY <1>1, <2>1, <2>3, <2>4 DEF WriterInv, Form, DfuForm, LteForm
<1> QED
  BY <1>3, <1>4, <1>5 DEF jimi_dfu_write_image, WriteLast

\* END closes whatever session there is.
LEMMA EndKeeps ==
  ASSUME WriterInv, jimi_dfu_end_image
  PROVE  WriterInv'
<1>1. CacheForm' /\ CacheInStep'
  BY CloseKeeps DEF jimi_dfu_end_image, my_ota_flash_close, WriterInv, Form
<1>2. air' \in Seq(Packets) /\ dfu' = dfu /\ lte' = lte
  BY TakePacket DEF jimi_dfu_end_image, Received, WriterInv, Form, DfuForm
<1> QED
  BY <1>1, <1>2 DEF WriterInv, Form, DfuForm, LteForm

\* The wait timer and the two work items.
LEMMA WorksKeep ==
  ASSUME WriterInv, Works
  PROVE  WriterInv'
<1>1. CASE dfu_timer_wait_callback
  <2>1. cache' = cache /\ air' = air /\ lte' = lte
    BY <1>1 DEF dfu_timer_wait_callback, Expire, session
  <2>2. dfu' \in [req : Nat, size : Nat, rep : Nat]
    BY <1>1 DEF dfu_timer_wait_callback, Expire, WriterInv, Form, DfuForm
  <2> QED
    BY <2>1, <2>2 DEF WriterInv, Form, CacheForm, DfuForm, LteForm, CacheInStep
<1>2. CASE dfu_retry_work_handler
  <2>1. cache' = cache /\ dfu' = dfu /\ lte' = lte
    BY <1>2 DEF dfu_retry_work_handler, session
  <2>2. Buf - Len(cache.buf) \in Nat
    BY SizeAssumption DEF WriterInv, Form, CacheForm, CacheInStep
  <2>3. air' \in Seq(Packets)
    BY <1>2, <2>2, RequestForm DEF dfu_retry_work_handler, WriterInv, Form, DfuForm
  <2> QED
    BY <2>1, <2>3 DEF WriterInv, Form, CacheForm, DfuForm, LteForm, CacheInStep
<1>3. CASE dfu_timeout_work_handler
  <2>1. CacheForm' /\ CacheInStep'
    BY <1>3, CloseKeeps DEF dfu_timeout_work_handler, my_ota_flash_close, WriterInv, Form
  <2> QED
    BY <1>3, <2>1 DEF dfu_timeout_work_handler, WriterInv, Form, DfuForm, LteForm
<1> QED
  BY <1>1, <1>2, <1>3 DEF Works

\* The 4G module's download: the session and the first frame.
LEMMA LteOpenKeeps ==
  ASSUME WriterInv, my_dfu_lte_prepare \/ dfu_lte_save_open
  PROVE  WriterInv'
<1>0. ImageSize["LTE"] \in Nat
  BY SizeAssumption DEF Sources
<1>1. UNCHANGED <<dfu, air>>
  BY DEF my_dfu_lte_prepare, dfu_lte_save_open, app
<1>2. CASE my_dfu_lte_prepare
  <2>1. cache' = cache /\ LteForm'
    BY <1>0, <1>2 DEF my_dfu_lte_prepare, LteForm, LteFrom, LteSteps
  <2> QED
    BY <1>1, <2>1 DEF WriterInv, Form, CacheForm, DfuForm, CacheInStep
<1>3. CASE dfu_lte_save_open
  <2>1. LteForm'
    BY <1>3 DEF dfu_lte_save_open, LteAt, LteForm, LteSteps, WriterInv, Form
  <2>2. CacheForm' /\ CacheInStep'
    <3>1. CASE my_ota_flash_open(ImageSize["LTE"])
      BY <1>0, <3>1, OpenKeeps
    <3>2. CASE UNCHANGED cache
      BY <3>2 DEF WriterInv, Form, CacheForm, CacheInStep
    <3> QED
      BY <1>3, <3>1, <3>2 DEF dfu_lte_save_open
  <2> QED
    BY <1>1, <2>1, <2>2 DEF WriterInv, Form, DfuForm
<1> QED
  BY <1>2, <1>3

\* A frame, saved or not.
LEMMA LteWriteKeeps ==
  ASSUME WriterInv, dfu_lte_save_write
  PROVE  WriterInv'
<1>0. ImageSize["LTE"] \in Nat
  BY SizeAssumption DEF Sources
<1>1. UNCHANGED <<dfu, air>>
  BY DEF dfu_lte_save_write, app
<1>2. LteForm /\ FrameUnits \in Seq(AnyUnit)
  BY FrameForm DEF WriterInv, Form
<1>3. LteForm'
  <2>1. CASE LteAt("FAILED")
    BY <1>2, <2>1 DEF LteAt, LteForm, LteSteps
  <2>2. ASSUME NEW saved \in BOOLEAN, Sent(saved) PROVE LteForm'
    BY <1>0, <1>2, <2>2, FrameForm, SizeAssumption, SMTT(30) DEF Sent, LteForm, Min
  <2> QED
    BY <2>1, <2>2 DEF dfu_lte_save_write
<1>4. CacheForm' /\ CacheInStep'
  <2>1. CASE my_ota_flash_write_block(FrameUnits)
    BY <1>2, <2>1, WriteKeeps DEF WriterInv, Form
  <2>2. CASE cache' \in CacheAfterFailure(FrameUnits)
    <3>1. CASE cache' = cache
      BY <3>1 DEF WriterInv, Form, CacheForm, CacheInStep
    <3>2. CASE HasRoom(Len(FrameUnits)) /\ cache' = Filled(FrameUnits)
      BY <1>2, <3>2, FillKeeps DEF WriterInv, Form
    <3>3. CASE /\ HasRoom(Len(FrameUnits))
               /\ cache' = [Filled(FrameUnits) EXCEPT
                              !.buf = [i \in DOMAIN @ |-> Spoilt]]
      <4> DEFINE U == FrameUnits
                 b == cache.buf \o U
      <4>1. /\ b \in Seq(AnyUnit) /\ Len(b) = Len(cache.buf) + Len(U)
            /\ Len(U) \in Nat /\ Len(cache.buf) \in Nat
        BY <1>2 DEF WriterInv, Form, CacheForm
      <4>2. /\ [i \in DOMAIN b |-> Spoilt] \in Seq(AnyUnit)
            /\ Len([i \in DOMAIN b |-> Spoilt]) = Len(b)
        BY <4>1 DEF AnyUnit
      <4>3. cache' = [buf |-> [i \in DOMAIN b |-> Spoilt], addr |-> cache.addr,
                      total |-> cache.total + Len(U), size |-> cache.size]
        BY <3>3 DEF Filled
      <4>4. CacheForm'
        BY <4>1, <4>2, <4>3 DEF WriterInv, Form, CacheForm
      <4>5. CacheInStep'
        <5>1. /\ Len(cache'.buf) = Len(cache.buf) + Len(U)
              /\ cache'.addr = cache.addr /\ cache'.size = cache.size
              /\ cache'.total = cache.total + Len(U)
          BY <4>1, <4>2, <4>3
        <5>2. Len(cache.buf) + Len(U) <= Buf /\ Buf \in Nat
          BY <3>3, SizeAssumption DEF HasRoom
        <5> HIDE DEF U
        <5> QED
          BY <4>1, <5>1, <5>2 DEF WriterInv, Form, CacheForm, CacheInStep
      <4> QED
        BY <4>4, <4>5
    <3> QED
      BY <2>2, <3>1, <3>2, <3>3 DEF CacheAfterFailure
  <2> QED
    BY <2>1, <2>2 DEF dfu_lte_save_write
<1> QED
  BY <1>1, <1>3, <1>4 DEF WriterInv, Form, DfuForm

\* The ends of a download.
LEMMA LteEndKeeps ==
  ASSUME WriterInv,
         \/ dfu_lte_save_close \/ SaveCloseAgain \/ my_dfu_lte_start
         \/ ReceiveFails
  PROVE  WriterInv'
<1>1. UNCHANGED <<dfu, air>>
  BY DEF dfu_lte_save_close, SaveCloseAgain, my_dfu_lte_start, Checked,
         ReceiveFails, app
<1>2. \E st \in LteSteps : LteAt(st)
  BY DEF dfu_lte_save_close, SaveCloseAgain, my_dfu_lte_start, Checked,
         ReceiveFails, LteSteps
<1>3. LteForm'
  BY <1>2 DEF LteAt, LteForm, WriterInv, Form
<1>4. CloseOnly \/ cache' = cache
  BY DEF dfu_lte_save_close, SaveCloseAgain, my_dfu_lte_start, Checked,
         ReceiveFails, CloseFlushing, my_ota_flash_close, session
<1>5. CacheForm' /\ CacheInStep'
  BY <1>4, CloseKeeps DEF WriterInv, Form, CacheForm, CacheInStep
<1> QED
  BY <1>1, <1>3, <1>5 DEF WriterInv, Form, DfuForm

\* The reset starts over.
LEMMA ResetKeeps ==
  ASSUME WriterInv, ota_reset_work_handler
  PROVE  WriterInv'
<1>1. CacheForm' /\ CacheInStep'
  BY BlockStarts, SizeAssumption
  DEF ota_reset_work_handler, CacheForm, CacheInStep, EmptyCache
<1>2. DfuForm'
  BY DEF ota_reset_work_handler, DfuForm
<1>3. LteForm'
  BY SizeAssumption DEF ota_reset_work_handler, LteForm, LteFrom, LteSteps, Sources
<1> QED
  BY <1>1, <1>2, <1>3 DEF WriterInv, Form

\* Every step keeps the books.
LEMMA NextKeeps == WriterInv /\ [Next]_vars => WriterInv'
<1> SUFFICES ASSUME WriterInv, [Next]_vars PROVE WriterInv'
  OBVIOUS
<1>1. CASE UNCHANGED vars
  BY <1>1 DEF vars, WriterInv, Form, CacheForm, DfuForm, LteForm, CacheInStep
<1>2. CASE Next
  BY <1>2, AppKeeps, StartKeeps, FileSizeKeeps, ImageKeeps, EndKeeps,
     WorksKeep, LteOpenKeeps, LteWriteKeeps, LteEndKeeps, ResetKeeps
  DEF Next, Dfu, Lte
<1> QED
  BY <1>1, <1>2

\* The writer's cache, block address and byte count agree in every reachable
\* state of my_ota_flash.c, with either source, both, and any failures: no
\* byte is skipped, no block is written twice, the cache never overflows.
THEOREM WriterKeepsItsBooks == Spec => []CacheInStep
<1>1. WriterInv => CacheInStep
  BY DEF WriterInv
<1> QED
  BY InitKeeps, NextKeeps, <1>1, PTL DEF Spec

-----------------------------------------------------------------------------
(* What the app is asked for.                                              *)

BleSize == ImageSize["BLE"]
LteSize == ImageSize["LTE"]
OkPackets == {p \in Packets : p.cmd = "IMAGE" => p.addr + p.len <= BleSize}
NoImage   == {p \in Packets : p.cmd # "IMAGE"}

\* Data was asked for, and may still come or be asked for again.
Downloading == air \notin Seq(NoImage) \/ timer \/ retryWork

\* The app is asked for units of its image only, an image that fits, and a
\* session that is closed has left nothing in the cache.
AskInv ==
  /\ air \in Seq(OkPackets)
  /\ Downloading => dfu.size = BleSize /\ BleSize \in 1 .. Slot
  /\ dfu.req <= BleSize
  /\ lte.st # "IDLE" => LteSize \in 1 .. Slot
  /\ ~busy => cache.buf = <<>> /\ cache.addr = 0 /\ cache.total = 0

\* The sizes are natural numbers.
LEMMA SizesNat ==
  /\ BleSize \in Nat /\ LteSize \in Nat /\ Slot \in Nat /\ Slot > 0
  /\ Buf \in Nat /\ Buf > 0 /\ Sector \in Nat /\ Sector > 0
  BY SizeAssumption DEF BleSize, LteSize, Sources

\* The packets without data.
LEMMA OtherPackets ==
  ASSUME NEW cmd \in {"START", "SIZE", "END"}
  PROVE  Packet(cmd) \in NoImage /\ Packet(cmd) \in OkPackets
  BY DEF Packet, NoImage, OkPackets, Packets

\* Taking the first packet.
LEMMA TakeOk ==
  ASSUME air \in Seq(OkPackets), air # <<>>
  PROVE  /\ Head(air) \in OkPackets /\ Tail(air) \in Seq(OkPackets)
         /\ air \in Seq(NoImage) => Head(air) \in NoImage /\ Tail(air) \in Seq(NoImage)
<1>1. Head(air) \in OkPackets /\ Tail(air) \in Seq(OkPackets)
  OBVIOUS
<1>2. ASSUME air \in Seq(NoImage) PROVE Head(air) \in NoImage /\ Tail(air) \in Seq(NoImage)
  BY <1>2
<1> QED
  BY <1>1, <1>2

\* An IMAGE packet means that data was asked for.
LEMMA ImageAsked ==
  ASSUME AskInv, Received("IMAGE")
  PROVE  /\ Downloading /\ Head(air) \in OkPackets /\ Tail(air) \in Seq(OkPackets)
         /\ Head(air).addr \in Nat /\ Head(air).len \in Nat
         /\ Head(air).addr + Head(air).len <= BleSize
<1>1. /\ air # <<>> /\ Head(air).cmd = "IMAGE" /\ air \in Seq(OkPackets)
  BY DEF Received, AskInv
<1>2. Head(air) \in OkPackets /\ Tail(air) \in Seq(OkPackets)
  BY <1>1, TakeOk
<1>3. air \notin Seq(NoImage)
  BY <1>1, TakeOk DEF NoImage
<1> QED
  BY <1>1, <1>2, <1>3 DEF Downloading, OkPackets, Packets

\* A request never reaches past the end of the image.
LEMMA RequestOk ==
  ASSUME NEW q \in Seq(OkPackets), NEW req \in Nat, req <= BleSize, NEW room \in Nat,
         Request(q, BleSize, req, room)
  PROVE  air' \in Seq(OkPackets)
<1> DEFINE remain == Remain(BleSize, req)
<1>1. remain = BleSize - req /\ remain \in Nat
  BY SizesNat DEF Remain
<1> HIDE DEF remain
<1>2. ASSUME NEW mtu \in Mtus
      PROVE  /\ calc_pkt_size(mtu, remain, room) \in Nat
             /\ calc_pkt_size(mtu, remain, room) <= remain
  BY <1>1, SizeAssumption DEF calc_pkt_size, Min
<1>3. CASE air' = q
  BY <1>3
<1>4. CASE \E mtu \in Mtus :
             air' = Append(q, [cmd |-> "IMAGE", addr |-> req,
                               len |-> calc_pkt_size(mtu, remain, room)])
  <2>1. PICK mtu \in Mtus :
             air' = Append(q, [cmd |-> "IMAGE", addr |-> req,
                               len |-> calc_pkt_size(mtu, remain, room)])
    BY <1>4
  <2> DEFINE n == calc_pkt_size(mtu, remain, room)
             p == [cmd |-> "IMAGE", addr |-> req, len |-> n]
  <2>2. n \in Nat /\ req + n <= BleSize
    <3>1. n \in Nat /\ n <= remain
      BY <1>2
    <3> HIDE DEF n
    <3> QED
      BY <1>1, <3>1, SizesNat
  <2> HIDE DEF n
  <2>3. p \in OkPackets
    BY <2>2 DEF OkPackets, Packets
  <2> QED
    BY <2>1, <2>3 DEF n
<1> QED
  BY <1>3, <1>4 DEF Request, remain

\* Closing leaves nothing in the cache.
LEMMA CloseClean ==
  ASSUME AskInv, CacheForm, CloseOnly
  PROVE  ~busy' /\ cache'.buf = <<>> /\ cache'.addr = 0 /\ cache'.total = 0
         /\ cache'.size = cache.size
<1>1. busy' = FALSE /\ cache' = IF busy THEN EmptyCache(cache.size) ELSE cache
  BY DEF CloseOnly
<1>2. CASE busy
  BY <1>1, <1>2 DEF EmptyCache
<1>3. CASE ~busy
  BY <1>1, <1>3 DEF AskInv
<1> QED
  BY <1>2, <1>3

\* Initially nothing was asked for.
LEMMA InitAsk == Init => AskInv
<1> SUFFICES ASSUME Init PROVE AskInv
  OBVIOUS
<1>1. /\ air = <<>> /\ ~timer /\ ~retryWork /\ dfu.req = 0 /\ lte.st = "IDLE"
      /\ cache.buf = <<>> /\ cache.addr = 0 /\ cache.total = 0
  BY DEF Init, EmptyCache, LteFrom
<1>2. <<>> \in Seq(OkPackets) /\ <<>> \in Seq(NoImage)
  OBVIOUS
<1> QED
  BY <1>1, <1>2, SizesNat DEF AskInv, Downloading

\* The app's packets, sent and lost, and START.
LEMMA PacketsAsk ==
  ASSUME AskInv, App \/ jimi_dfu_start
  PROVE  AskInv'
<1>1. /\ UNCHANGED <<cache, dfu, timer, retryWork, lte>> /\ (~busy' => ~busy)
  BY DEF App, AppStart, AppEnd, Lost, jimi_dfu_start, session, works
<1>2. air' \in Seq(OkPackets) /\ (air \in Seq(NoImage) => air' \in Seq(NoImage))
  <2>1. \/ air' = Append(air, Packet("START")) \/ air' = Append(air, Packet("END"))
        \/ air # <<>> /\ air' = Tail(air)
        \/ air # <<>> /\ air' = Append(Tail(air), Packet("SIZE"))
    BY DEF App, AppStart, AppEnd, Lost, jimi_dfu_start, Received
  <2>2. air \in Seq(OkPackets)
    BY DEF AskInv
  <2>3. CASE \/ air' = Append(air, Packet("START")) \/ air' = Append(air, Packet("END"))
    BY <2>2, <2>3, OtherPackets, AppendProperties
  <2>4. CASE air # <<>> /\ air' = Tail(air)
    BY <2>2, <2>4, TakeOk
  <2>5. CASE air # <<>> /\ air' = Append(Tail(air), Packet("SIZE"))
    BY <2>2, <2>5, TakeOk, OtherPackets, AppendProperties
  <2> QED
    BY <2>1, <2>3, <2>4, <2>5
<1>3. Downloading' => Downloading
  BY <1>1, <1>2 DEF Downloading
<1> QED
  BY <1>1, <1>2, <1>3 DEF AskInv

\* SIZE: the download begins, or the session is closed.
LEMMA SizeAsk ==
  ASSUME WriterInv, AskInv, jimi_dfu_rx_file_size
  PROVE  AskInv'
<1>1. /\ air # <<>> /\ air \in Seq(OkPackets) /\ lte' = lte /\ retryWork' = retryWork
  BY DEF jimi_dfu_rx_file_size, Received, AskInv, works
<1>2. Tail(air) \in Seq(OkPackets) /\ (air \in Seq(NoImage) => Tail(air) \in Seq(NoImage))
  BY <1>1, TakeOk
<1>3. CASE /\ my_ota_flash_open(BleSize)
           /\ dfu' = [req |-> 0, size |-> BleSize, rep |-> 0]
           /\ Request(Tail(air), BleSize, 0, Buf)
  <2>1. air' \in Seq(OkPackets)
    <3>1. 0 \in Nat /\ 0 <= BleSize /\ Buf \in Nat
      BY SizesNat
    <3>2. Request(Tail(air), BleSize, 0, Buf)
      BY <1>3
    <3> QED
      BY <1>2, <3>1, <3>2, RequestOk
  <2>2. BleSize \in 1 .. Slot /\ busy /\ busy' = busy
    BY <1>3, SizesNat DEF my_ota_flash_open
  <2>3. dfu'.req = 0 /\ dfu'.size = BleSize
    BY <1>3
  <2> QED
    BY <1>1, <2>1, <2>2, <2>3, SizesNat DEF AskInv
<1>4. CASE /\ CloseOnly /\ timer' = timer
           /\ dfu' = [dfu EXCEPT !.size = BleSize] /\ air' = Tail(air)
  <2>1. dfu \in [req : Nat, size : Nat, rep : Nat] /\ CacheForm
    BY DEF WriterInv, Form, DfuForm
  <2>2. dfu'.req = dfu.req /\ dfu'.size = BleSize
    BY <1>4, <2>1
  <2>3. Downloading' => Downloading
    BY <1>1, <1>2, <1>4 DEF Downloading
  <2> QED
    BY <1>1, <1>2, <1>4, <2>1, <2>2, <2>3, CloseClean DEF AskInv
<1> QED
  BY <1>3, <1>4 DEF jimi_dfu_rx_file_size, BleSize

\* IMAGE: what is asked for next follows what was asked for.
LEMMA ImageAsk ==
  ASSUME WriterInv, AskInv, jimi_dfu_write_image
  PROVE  AskInv'
<1> DEFINE p == Head(air)
           units == Units("BLE", p.addr, p.len)
<1>1. /\ Downloading /\ p \in OkPackets /\ Tail(air) \in Seq(OkPackets)
      /\ p.addr \in Nat /\ p.len \in Nat /\ p.addr + p.len <= BleSize
      /\ lte' = lte /\ retryWork' = retryWork
  BY ImageAsked DEF jimi_dfu_write_image, works
<1>2. dfu.size = BleSize /\ BleSize \in 1 .. Slot /\ CacheForm
  BY <1>1 DEF AskInv, WriterInv, Form
<1>3. CASE air' = Tail(air) /\ UNCHANGED <<session, dfu>>
  BY <1>1, <1>2, <1>3 DEF AskInv, session
<1>4. CASE CloseOnly /\ air' = Tail(air) /\ UNCHANGED dfu
  BY <1>1, <1>2, <1>4, CloseClean DEF AskInv
<1>5. CASE /\ my_ota_flash_write_block(units)
           /\ dfu' = [req |-> p.addr + p.len, size |-> dfu.size, rep |-> 0]
           /\ Request(Tail(air), dfu.size, p.addr + p.len, Buf - Len(cache'.buf))
  <2>1. CacheForm' /\ CacheInStep'
    <3>1. units \in Seq(AnyUnit)
      BY <1>1, UnitsForm
    <3> QED
      BY <1>5, <3>1, WriteKeeps DEF WriterInv, Form
  <2>2. Buf - Len(cache'.buf) \in Nat
    BY <2>1, SizeAssumption DEF CacheForm, CacheInStep
  <2>3. p.addr + p.len \in Nat
    BY <1>1
  <2>4. air' \in Seq(OkPackets)
    BY <1>1, <1>2, <1>5, <2>2, <2>3, RequestOk
  <2>5. dfu'.req = p.addr + p.len /\ dfu'.size = BleSize
    BY <1>2, <1>5
  <2>6. busy' = busy /\ busy
    BY <1>5 DEF my_ota_flash_write_block
  <2> QED
    BY <1>1, <1>2, <2>4, <2>5, <2>6 DEF AskInv
<1> QED
  BY <1>3, <1>4, <1>5 DEF jimi_dfu_write_image, WriteLast

\* END, the wait timer and the two work items.
LEMMA WorksAsk ==
  ASSUME WriterInv, AskInv, jimi_dfu_end_image \/ Works
  PROVE  AskInv'
<1>0. /\ air \in Seq(OkPackets) /\ dfu \in [req : Nat, size : Nat, rep : Nat] /\ CacheForm
  BY DEF AskInv, WriterInv, Form, DfuForm
<1>1. CASE jimi_dfu_end_image
  <2>1. /\ air # <<>> /\ air' = Tail(air) /\ UNCHANGED <<dfu, lte, retryWork>>
        /\ ~timer' /\ CloseOnly
    BY <1>1 DEF jimi_dfu_end_image, Received, works, my_ota_flash_close
  <2>2. air' \in Seq(OkPackets) /\ (air \in Seq(NoImage) => air' \in Seq(NoImage))
    BY <1>0, <2>1, TakeOk
  <2>3. Downloading' => Downloading
    BY <2>1, <2>2 DEF Downloading
  <2> QED
    BY <1>0, <2>1, <2>2, <2>3, CloseClean DEF AskInv
<1>2. CASE dfu_timer_wait_callback
  <2>1. /\ timer /\ UNCHANGED <<busy, cache, air, lte>>
    BY <1>2 DEF dfu_timer_wait_callback, Expire, session
  <2>2. dfu' = [dfu EXCEPT !.rep = @ + 1] \/ dfu' = [dfu EXCEPT !.rep = 0]
    BY <1>2 DEF dfu_timer_wait_callback, Expire
  <2>3. dfu'.req = dfu.req /\ dfu'.size = dfu.size
    BY <1>0, <2>2
  <2>4. Downloading
    BY <2>1 DEF Downloading
  <2> QED
    BY <2>1, <2>3, <2>4 DEF AskInv
<1>3. CASE dfu_retry_work_handler
  <2>1. /\ retryWork /\ UNCHANGED <<busy, cache, dfu, lte>>
        /\ Request(air, dfu.size, dfu.req, Buf - Len(cache.buf))
    BY <1>3 DEF dfu_retry_work_handler, session
  <2>2. Downloading /\ dfu.size = BleSize /\ dfu.req <= BleSize /\ dfu.req \in Nat
    BY <1>0, <2>1 DEF Downloading, AskInv
  <2>3. Buf - Len(cache.buf) \in Nat
    BY SizeAssumption DEF WriterInv, Form, CacheForm, CacheInStep
  <2>4. air' \in Seq(OkPackets)
    BY <1>0, <2>1, <2>2, <2>3, RequestOk
  <2> QED
    BY <2>1, <2>2, <2>4 DEF AskInv
<1>4. CASE dfu_timeout_work_handler
  <2>1. CloseOnly /\ UNCHANGED <<air, timer, retryWork, dfu, lte>>
    BY <1>4 DEF dfu_timeout_work_handler, my_ota_flash_close
  <2> QED
    BY <1>0, <2>1, CloseClean DEF AskInv, Downloading
<1> QED
  BY <1>1, <1>2, <1>3, <1>4 DEF Works

\* The download from the 4G module leaves the app's requests alone.
LEMMA LteAsk ==
  ASSUME WriterInv, AskInv, Lte
  PROVE  AskInv'
<1>0. CacheForm /\ LteForm
  BY DEF WriterInv, Form
<1>1. UNCHANGED <<dfu, air, timer, retryWork>>
  BY DEF Lte, my_dfu_lte_prepare, dfu_lte_save_open, dfu_lte_save_write, dfu_lte_save_close,
         SaveCloseAgain, my_dfu_lte_start, Checked, ReceiveFails, app, works
<1>2. lte'.st # "IDLE" => LteSize \in 1 .. Slot
  <2>1. CASE my_dfu_lte_prepare
    BY <2>1 DEF my_dfu_lte_prepare, LteSize
  <2>2. CASE ~my_dfu_lte_prepare
    <3>1. lte.st # "IDLE"
      BY <2>2 DEF Lte, dfu_lte_save_open, dfu_lte_save_write, dfu_lte_save_close,
                  SaveCloseAgain, my_dfu_lte_start, Checked, ReceiveFails
    <3> QED
      BY <3>1 DEF AskInv
  <2> QED
    BY <2>1, <2>2
<1>3. ~busy' => cache'.buf = <<>> /\ cache'.addr = 0 /\ cache'.total = 0
  <2>1. CASE CloseOnly
    BY <1>0, <2>1, CloseClean
  <2>2. CASE UNCHANGED <<busy, cache>>
    BY <2>2 DEF AskInv
  <2>3. CASE busy'
    BY <2>3
  <2>4. CASE dfu_lte_save_open
    BY <2>2, <2>3, <2>4 DEF dfu_lte_save_open, my_ota_flash_open
  <2>5. CASE dfu_lte_save_write
    <3>1. CASE my_ota_flash_write_block(FrameUnits)
      BY <2>3, <3>1 DEF my_ota_flash_write_block
    <3>2. CASE cache' \in CacheAfterFailure(FrameUnits) /\ busy' = busy
      <4>1. busy \/ cache' = cache
        BY <3>2 DEF CacheAfterFailure
      <4> QED
        BY <2>2, <2>3, <3>2, <4>1
    <3> QED
      BY <2>5, <3>1, <3>2 DEF dfu_lte_save_write
  <2>6. CASE my_dfu_lte_prepare
    BY <2>3, <2>6 DEF my_dfu_lte_prepare
  <2>7. CASE dfu_lte_save_close \/ SaveCloseAgain \/ my_dfu_lte_start \/ ReceiveFails
    BY <2>1, <2>2, <2>7 DEF dfu_lte_save_close, SaveCloseAgain, my_dfu_lte_start, Checked,
                            ReceiveFails, CloseFlushing, my_ota_flash_close, session
  <2> QED
    BY <2>4, <2>5, <2>6, <2>7 DEF Lte
<1> QED
  BY <1>1, <1>2, <1>3 DEF AskInv, Downloading

\* The reset drops everything.
LEMMA ResetAsk ==
  ASSUME ota_reset_work_handler
  PROVE  AskInv'
<1>1. /\ air' = <<>> /\ ~timer' /\ ~retryWork' /\ dfu'.req = 0 /\ lte'.st = "IDLE"
      /\ cache'.buf = <<>> /\ cache'.addr = 0 /\ cache'.total = 0
  BY DEF ota_reset_work_handler, EmptyCache, LteFrom
<1>2. <<>> \in Seq(OkPackets) /\ <<>> \in Seq(NoImage)
  OBVIOUS
<1> QED
  BY <1>1, <1>2, SizesNat DEF AskInv, Downloading

\* Every step keeps the requests within the image.
LEMMA NextAsk == WriterInv /\ AskInv /\ [Next]_vars => AskInv'
<1> SUFFICES ASSUME WriterInv, AskInv, [Next]_vars PROVE AskInv'
  OBVIOUS
<1>1. CASE UNCHANGED vars
  BY <1>1 DEF vars, AskInv, Downloading
<1> QED
  BY <1>1, PacketsAsk, SizeAsk, ImageAsk, WorksAsk, LteAsk, ResetAsk DEF Next, Dfu
-----------------------------------------------------------------------------
(* What the cache and the partition hold.                                  *)

\* The cache and image_1 hold units of the two images, padding, or what an
\* erase or a failed write leaves.
MediumOK == cache.buf \in Seq(UnitSet) /\ flash \in [Addrs -> UnitSet]

\* The flags, the owner and the retry counter.
FlagsOK ==
  /\ active \subseteq Sources
  /\ busy \in BOOLEAN /\ timer \in BOOLEAN /\ armed \in BOOLEAN
  /\ retryWork \in BOOLEAN /\ timeoutWork \in BOOLEAN
  /\ owner \in Sources \cup {"NONE"} /\ upgrade \in Sources \cup {"NONE"}
  /\ dfu.rep \in 0 .. MaxRepeat

\* The units that stand for no data.
LEMMA OtherUnits == Erased \in UnitSet /\ Pad \in UnitSet /\ Spoilt \in UnitSet
  BY DEF UnitSet

\* A flush, and a flush that fails, leave units.
LEMMA FlushUnits ==
  ASSUME flash \in [Addrs -> UnitSet], NEW c, c.buf \in Seq(UnitSet), c.addr \in Nat
  PROVE  /\ Flushed(c) \in [Addrs -> UnitSet] /\ SpoiltAt(c) \in [Addrs -> UnitSet]
         /\ FlushOutcomes(c) \subseteq [Addrs -> UnitSet]
<1>1. ASSUME NEW a \in Addrs, ~(a < c.addr), a - c.addr < Len(c.buf)
      PROVE  c.buf[a - c.addr + 1] \in UnitSet
  <2> DEFINE l == Len(c.buf)
             j == a - c.addr + 1
  <2>1. l \in Nat /\ a \in Nat
    BY SizesNat DEF Addrs
  <2> HIDE DEF l
  <2>2. j \in 1 .. l
    BY <1>1, <2>1 DEF l
  <2> HIDE DEF j
  <2>3. c.buf[j] \in UnitSet
    BY <2>2, ElementOfSeq DEF l
  <2> QED
    BY <2>3 DEF j
<1>2. ASSUME NEW a \in Addrs PROVE Flushed(c)[a] \in UnitSet
  BY <1>1, <1>2, OtherUnits DEF Flushed
<1>3. Flushed(c) \in [Addrs -> UnitSet]
  BY <1>2 DEF Flushed
<1>4. SpoiltAt(c) \in [Addrs -> UnitSet]
  BY OtherUnits DEF SpoiltAt
<1> QED
  BY <1>3, <1>4 DEF FlushOutcomes

\* So do the erase of an open, and one that fails.
LEMMA EraseUnits ==
  ASSUME flash \in [Addrs -> UnitSet], NEW size
  PROVE  /\ PartlyErased(size) \subseteq [Addrs -> UnitSet]
         /\ my_ota_flash_open(size) => MediumOK'
<1>1. PartlyErased(size) \subseteq [Addrs -> UnitSet]
  BY OtherUnits DEF PartlyErased
<1>2. ASSUME my_ota_flash_open(size) PROVE MediumOK'
  <2>1. cache'.buf = <<>> /\ <<>> \in Seq(UnitSet)
    BY <1>2 DEF my_ota_flash_open, EmptyCache
  <2>2. flash' \in [Addrs -> UnitSet]
    BY <1>2, OtherUnits DEF my_ota_flash_open
  <2> QED
    BY <2>1, <2>2 DEF MediumOK
<1> QED
  BY <1>1, <1>2

\* And a close.
LEMMA CloseUnits ==
  ASSUME MediumOK, CloseOnly
  PROVE  cache'.buf \in Seq(UnitSet)
  BY DEF MediumOK, CloseOnly, EmptyCache

\* A write of units, one that succeeds and one that fails.
LEMMA WriteUnits ==
  ASSUME MediumOK, CacheForm, NEW units \in Seq(UnitSet)
  PROVE  /\ my_ota_flash_write_block(units) => MediumOK'
         /\ Flushed(Filled(units)) \in [Addrs -> UnitSet]
         /\ FlushOutcomes(Filled(units)) \subseteq [Addrs -> UnitSet]
         /\ SpoiltBy(units) \subseteq [Addrs -> UnitSet]
         /\ \A c \in CacheAfterFailure(units) : c.buf \in Seq(UnitSet)
<1> DEFINE c == Filled(units)
           b == cache.buf \o units
<1>1. b \in Seq(UnitSet) /\ c.buf = b /\ c.addr = cache.addr /\ c.addr \in Nat
  BY DEF MediumOK, CacheForm, Filled
<1>2. /\ Flushed(c) \in [Addrs -> UnitSet] /\ SpoiltAt(c) \in [Addrs -> UnitSet]
      /\ FlushOutcomes(c) \subseteq [Addrs -> UnitSet]
  <2>1. c.buf \in Seq(UnitSet) /\ c.addr \in Nat /\ flash \in [Addrs -> UnitSet]
    BY <1>1 DEF MediumOK
  <2> HIDE DEF c
  <2> QED
    BY <2>1, FlushUnits
<1>3. ASSUME my_ota_flash_write_block(units) PROVE MediumOK'
  <2>1. \/ cache' = NextBlock(c) /\ flash' = Flushed(c)
        \/ cache' = c /\ flash' = flash
    BY <1>3 DEF my_ota_flash_write_block
  <2>2. NextBlock(c).buf = <<>> /\ <<>> \in Seq(UnitSet)
    BY DEF NextBlock
  <2> HIDE DEF c
  <2> QED
    BY <1>1, <1>2, <2>1, <2>2 DEF MediumOK
<1>4. [c EXCEPT !.buf = [i \in DOMAIN @ |-> Spoilt]].buf \in Seq(UnitSet)
  <2> DEFINE s == [i \in DOMAIN b |-> Spoilt]
  <2>1. DOMAIN b = 1 .. Len(b) /\ Len(b) \in Nat
    BY <1>1
  <2>2. s \in Seq(UnitSet)
    BY <2>1, OtherUnits
  <2>3. [c EXCEPT !.buf = [i \in DOMAIN @ |-> Spoilt]].buf = s
    BY DEF Filled
  <2> HIDE DEF s, c
  <2> QED
    BY <2>2, <2>3
<1>5. SpoiltBy(units) \subseteq [Addrs -> UnitSet]
  <2>1. SpoiltBy(units) \subseteq {flash, SpoiltAt(c)}
    BY DEF SpoiltBy
  <2> HIDE DEF c
  <2> QED
    BY <1>2, <2>1 DEF MediumOK
<1>6. \A d \in CacheAfterFailure(units) : d.buf \in Seq(UnitSet)
  <2>1. CacheAfterFailure(units)
          \subseteq {c, [c EXCEPT !.buf = [i \in DOMAIN @ |-> Spoilt]], cache}
    BY DEF CacheAfterFailure
  <2> HIDE DEF c
  <2> QED
    BY <1>1, <1>4, <2>1 DEF MediumOK
<1> HIDE DEF c
<1> QED
  BY <1>2, <1>3, <1>5, <1>6 DEF c

\* The units of an IMAGE packet and of a frame are in the partition.
LEMMA PacketUnits ==
  ASSUME NEW a \in Nat, NEW n \in Nat, a + n <= Slot
  PROVE  Units("BLE", a, n) \in Seq(UnitSet)
<1>1. \A i \in 1 .. n : <<"BLE", a + i - 1>> \in UnitSet
  BY SizesNat DEF UnitSet, Sources, Addrs
<1> QED
  BY <1>1 DEF Units

\* See PacketUnits.
LEMMA FrameInSlot ==
  ASSUME LteForm, LteSize <= Slot
  PROVE  FrameUnits \in Seq(UnitSet)
<1>1. SaveSize \in Nat /\ lte.next \in Nat
  BY FrameForm DEF LteForm
<1> DEFINE u(i) == IF lte.next + i <= ImageSize["LTE"] THEN <<"LTE", lte.next + i - 1>>
                   ELSE Pad
<1>2. ASSUME NEW i \in 1 .. SaveSize PROVE u(i) \in UnitSet
  <2>1. i \in Nat /\ i > 0
    BY <1>1
  <2>2. CASE lte.next + i <= ImageSize["LTE"]
    <3>1. lte.next + i - 1 \in Addrs
      BY <1>1, <2>1, <2>2, SizesNat DEF Addrs, LteSize
    <3> QED
      BY <2>2, <3>1 DEF UnitSet, Sources
  <2> QED
    BY <2>2, OtherUnits
<1>3. FrameUnits = [i \in 1 .. SaveSize |-> u(i)]
  BY DEF FrameUnits
<1> HIDE DEF u
<1> QED
  BY <1>1, <1>2, <1>3

\* Every flag keeps its type.
LEMMA NextFlags ==
  ASSUME WriterInv, FlagsOK, Next
  PROVE  FlagsOK'
<1>0. /\ dfu \in [req : Nat, size : Nat, rep : Nat] /\ MaxRepeat \in Nat
      /\ 0 \in 0 .. MaxRepeat /\ dfu.rep \in 0 .. MaxRepeat
  BY SizeAssumption DEF WriterInv, Form, DfuForm, FlagsOK
<1>1. CASE App
  BY <1>1 DEF App, AppStart, AppEnd, Lost, FlagsOK, session, works, boot
<1>2. CASE jimi_dfu_start
  BY <1>2 DEF jimi_dfu_start, FlagsOK, session, works, boot, Sources
<1>3. CASE jimi_dfu_rx_file_size
  <2>1. UNCHANGED <<active, retryWork, timeoutWork, armed>>
    BY <1>3 DEF jimi_dfu_rx_file_size, works
  <2>2. upgrade' \in {"NONE", upgrade} /\ timer' \in {TRUE, timer}
    BY <1>3 DEF jimi_dfu_rx_file_size
  <2>3. (busy' = busy /\ owner' = owner) \/ (busy' = FALSE /\ owner' = "NONE")
    BY <1>3 DEF jimi_dfu_rx_file_size, my_ota_flash_open, CloseOnly
  <2>4. dfu'.rep \in {0, dfu.rep}
    BY <1>0, <1>3 DEF jimi_dfu_rx_file_size
  <2> QED
    BY <1>0, <2>1, <2>2, <2>3, <2>4, Zenon DEF FlagsOK
<1>4. CASE jimi_dfu_write_image
  <2>1. UNCHANGED <<active, retryWork, timeoutWork>>
    BY <1>4 DEF jimi_dfu_write_image, works
  <2>2. upgrade' \in {"BLE", upgrade} /\ timer' \in {TRUE, FALSE, timer} /\ armed' \in {TRUE, armed}
    BY <1>4 DEF jimi_dfu_write_image, WriteLast, boot
  <2>3. (busy' = busy /\ owner' = owner) \/ (busy' = FALSE /\ owner' = "NONE")
    BY <1>4 DEF jimi_dfu_write_image, WriteLast, CloseOnly, session, my_ota_flash_write_block
  <2>4. dfu'.rep \in {0, dfu.rep}
    BY <1>0, <1>4 DEF jimi_dfu_write_image, WriteLast
  <2> QED
    BY <1>0, <2>1, <2>2, <2>3, <2>4, ZenonT(60) DEF FlagsOK, Sources
<1>5. CASE jimi_dfu_end_image
  BY <1>5 DEF jimi_dfu_end_image, my_ota_flash_close, CloseOnly, FlagsOK, works
<1>6. CASE Works
  <2>1. CASE dfu_timer_wait_callback
    <3>1. /\ UNCHANGED <<active, busy, owner, armed, upgrade>> /\ timer' = FALSE
          /\ retryWork' \in {TRUE, retryWork} /\ timeoutWork' \in {TRUE, timeoutWork}
      BY <2>1 DEF dfu_timer_wait_callback, Expire, session, boot
    <3>2. dfu'.rep \in 0 .. MaxRepeat
      BY <1>0, <2>1 DEF dfu_timer_wait_callback, Expire
    <3> QED
      BY <3>1, <3>2 DEF FlagsOK
  <2>2. CASE dfu_retry_work_handler
    BY <2>2 DEF dfu_retry_work_handler, FlagsOK, session, boot
  <2>3. CASE dfu_timeout_work_handler
    BY <2>3 DEF dfu_timeout_work_handler, my_ota_flash_close, CloseOnly, FlagsOK, boot
  <2> QED
    BY <1>6, <2>1, <2>2, <2>3 DEF Works
<1>7. CASE Lte
  <2>1. UNCHANGED <<active, dfu, timer, retryWork, timeoutWork>>
    BY <1>7 DEF Lte, my_dfu_lte_prepare, dfu_lte_save_open, dfu_lte_save_write,
       dfu_lte_save_close, SaveCloseAgain, my_dfu_lte_start, Checked, ReceiveFails, app, works
  <2>2. upgrade' \in {"NONE", "LTE", upgrade} /\ armed' \in {TRUE, armed}
    BY <1>7 DEF Lte, my_dfu_lte_prepare, dfu_lte_save_open, dfu_lte_save_write,
       dfu_lte_save_close, SaveCloseAgain, my_dfu_lte_start, Checked, ReceiveFails, boot
  <2>3. \/ busy' = busy /\ owner' = owner
        \/ busy' = FALSE /\ owner' = "NONE"
        \/ busy' = TRUE /\ owner' = "LTE"
    BY <1>7 DEF Lte, my_dfu_lte_prepare, dfu_lte_save_open, dfu_lte_save_write,
       dfu_lte_save_close, SaveCloseAgain, my_dfu_lte_start, Checked, ReceiveFails,
       my_ota_flash_open, my_ota_flash_write_block, CloseFlushing, CloseOnly,
       my_ota_flash_close, session
  <2> QED
    BY <2>1, <2>2, <2>3 DEF FlagsOK, Sources
<1>8. CASE ota_reset_work_handler
  <2>1. dfu'.rep = 0
    BY <1>8 DEF ota_reset_work_handler
  <2> QED
    BY <1>0, <1>8, <2>1, Zenon DEF ota_reset_work_handler, FlagsOK
<1> QED
  BY <1>1, <1>2, <1>3, <1>4, <1>5, <1>6, <1>7, <1>8 DEF Next, Dfu

\* Every step leaves units in the cache and in the partition.
LEMMA NextMedium ==
  ASSUME WriterInv, AskInv, MediumOK, Next
  PROVE  MediumOK'
<1>0. /\ CacheForm /\ LteForm /\ flash \in [Addrs -> UnitSet] /\ <<>> \in Seq(UnitSet)
      /\ cache.buf \in Seq(UnitSet) /\ cache.addr \in Nat
  BY DEF WriterInv, Form, MediumOK, CacheForm
<1>1. CASE cache' = cache /\ flash' = flash
  BY <1>1 DEF MediumOK
<1>2. ASSUME CloseOnly, flash' \in [Addrs -> UnitSet] PROVE MediumOK'
  BY <1>2, CloseUnits DEF MediumOK
<1>3. CASE jimi_dfu_rx_file_size
  <2>1. \/ my_ota_flash_open(BleSize)
        \/ CloseOnly /\ flash' \in PartlyErased(BleSize)
    BY <1>3 DEF jimi_dfu_rx_file_size, BleSize
  <2> QED
    BY <1>0, <1>2, <2>1, EraseUnits
<1>4. CASE jimi_dfu_write_image
  <2> DEFINE p == Head(air)
             units == Units("BLE", p.addr, p.len)
  <2>1. /\ p.addr \in Nat /\ p.len \in Nat /\ p.addr + p.len <= BleSize
        /\ BleSize \in 1 .. Slot
    BY <1>4, ImageAsked DEF jimi_dfu_write_image, AskInv
  <2>2. units \in Seq(UnitSet)
    <3>1. p.addr + p.len <= Slot
      BY <2>1, SizesNat
    <3> QED
      BY <2>1, <3>1, PacketUnits
  <2>3. \/ cache' = cache /\ flash' = flash
        \/ CloseOnly /\ flash' \in SpoiltBy(units)
        \/ CloseOnly /\ flash' \in {Flushed(Filled(units))} \cup FlushOutcomes(Filled(units))
        \/ my_ota_flash_write_block(units)
    BY <1>4 DEF jimi_dfu_write_image, WriteLast, session
  <2> HIDE DEF units
  <2> QED
    BY <1>0, <1>1, <1>2, <2>2, <2>3, WriteUnits
<1>5. CASE dfu_lte_save_open
  <2>1. my_ota_flash_open(LteSize) \/ (cache' = cache /\ flash' \in PartlyErased(LteSize))
    BY <1>5 DEF dfu_lte_save_open, LteSize
  <2> QED
    BY <1>0, <2>1, EraseUnits DEF MediumOK
<1>6. CASE dfu_lte_save_write
  <2>1. LteSize <= Slot
    BY <1>6, SizesNat DEF dfu_lte_save_write, AskInv
  <2>2. FrameUnits \in Seq(UnitSet)
    BY <1>0, <2>1, FrameInSlot
  <2>3. \/ my_ota_flash_write_block(FrameUnits)
        \/ flash' \in SpoiltBy(FrameUnits) /\ cache' \in CacheAfterFailure(FrameUnits)
    BY <1>6 DEF dfu_lte_save_write
  <2> QED
    BY <1>0, <2>2, <2>3, WriteUnits DEF MediumOK
<1>7. CASE dfu_lte_save_close \/ SaveCloseAgain
  <2>1. CloseOnly /\ flash' \in {flash} \cup FlushOutcomes(cache)
    BY <1>7 DEF dfu_lte_save_close, SaveCloseAgain, CloseFlushing
  <2> QED
    BY <1>0, <1>2, <2>1, FlushUnits
<1>8. CASE ota_reset_work_handler
  <2>1. cache'.buf = <<>>
    BY <1>8 DEF ota_reset_work_handler, EmptyCache
  <2>2. flash' \in [Addrs -> UnitSet]
    BY <1>0, <1>8, OtherUnits DEF ota_reset_work_handler
  <2> QED
    BY <1>0, <2>1, <2>2 DEF MediumOK
<1>9. CASE \/ App \/ jimi_dfu_start \/ jimi_dfu_end_image \/ Works
           \/ my_dfu_lte_prepare \/ my_dfu_lte_start \/ ReceiveFails
  <2>1. flash' = flash /\ (cache' = cache \/ CloseOnly)
    <3>1. CASE App \/ jimi_dfu_start
      BY <3>1 DEF App, AppStart, AppEnd, Lost, jimi_dfu_start, session
    <3>2. CASE Works
      BY <3>2 DEF Works, dfu_timer_wait_callback, Expire, dfu_retry_work_handler,
         dfu_timeout_work_handler, my_ota_flash_close, session
    <3>3. CASE \/ jimi_dfu_end_image \/ my_dfu_lte_prepare \/ my_dfu_lte_start \/ ReceiveFails
      BY <3>3 DEF jimi_dfu_end_image, my_dfu_lte_prepare, my_dfu_lte_start, Checked,
         ReceiveFails, my_ota_flash_close, session
    <3> QED
      BY <1>9, <3>1, <3>2, <3>3
  <2> QED
    BY <1>0, <1>1, <1>2, <2>1
<1> QED
  BY <1>3, <1>4, <1>5, <1>6, <1>7, <1>8, <1>9 DEF Next, Dfu, Lte

\* What every step keeps about the types.
TypeInv == WriterInv /\ AskInv /\ MediumOK /\ FlagsOK

\* The inductive step for TypeInv.
LEMMA NextTypes == TypeInv /\ [Next]_vars => TypeInv'
<1> SUFFICES ASSUME TypeInv, [Next]_vars PROVE TypeInv'
  OBVIOUS
<1>1. CASE UNCHANGED vars
  <2>1. WriterInv' /\ AskInv'
    BY <1>1, NextKeeps, NextAsk DEF TypeInv
  <2> QED
    BY <1>1, <2>1 DEF TypeInv, vars, MediumOK, FlagsOK
<1>2. CASE Next
  BY <1>2, NextKeeps, NextAsk, NextMedium, NextFlags DEF TypeInv
<1> QED
  BY <1>1, <1>2

\* Initially.
LEMMA InitTypes == Init => TypeInv
<1> SUFFICES ASSUME Init PROVE TypeInv
  OBVIOUS
<1>1. MediumOK
  BY OtherUnits DEF Init, MediumOK, EmptyCache
<1>2. FlagsOK
  <2>1. active \subseteq Sources /\ dfu.rep = 0 /\ 0 \in 0 .. MaxRepeat
    BY SizeAssumption DEF Init
  <2> QED
    BY <2>1, Zenon DEF Init, FlagsOK
<1> QED
  BY <1>1, <1>2, InitKeeps, InitAsk DEF TypeInv

\* Every variable of the update keeps its type: the cache and image_1 only ever
\* hold units that lie in the partition, whoever writes, and the retry counter
\* s_repeat_req_count stays within its limit.
THEOREM OtaTypes == Spec => []TypeOK
<1>1. TypeInv => TypeOK
  <2> SUFFICES ASSUME TypeInv PROVE TypeOK
    OBVIOUS
  <2>1. cache.addr \in Nat /\ cache.total \in Nat /\ dfu.req \in Nat
    BY DEF TypeInv, WriterInv, Form, CacheForm, DfuForm
  <2>2. lte.st \in LteSteps /\ lte.next \in Nat /\ lte.written \in Nat
    BY SizesNat DEF TypeInv, WriterInv, Form, LteForm, LteSize
  <2>3. air \in Seq([cmd : {"START", "SIZE", "IMAGE", "END"}, addr : Nat, len : Nat])
    BY DEF TypeInv, WriterInv, Form, DfuForm, Packets
  <2> QED
    BY <2>1, <2>2, <2>3 DEF TypeInv, MediumOK, FlagsOK, TypeOK
<1> QED
  BY InitTypes, NextTypes, <1>1, PTL DEF Spec

-----------------------------------------------------------------------------
(* Only complete images are marked.                                        *)

\* What was written of the image of s is in its place: in the partition up to
\* the block address, in the cache from there on.
Prefix(s) ==
  /\ \A a \in 0 .. ImageSize[s] - 1 : a < cache.addr => flash[a] = <<s, a>>
  /\ \A i \in 1 .. Len(cache.buf) : cache.buf[i] = <<s, cache.addr + i - 1>>

\* The app alone.  s_req_file_addr may be ahead of the writer, when a session
\* was broken off and taken again without a new size; then no packet that is
\* still under way can complete the count.
BleInv ==
  "LTE" \notin active =>
    /\ lte.st = "IDLE"
    /\ Downloading => cache.size = BleSize
    /\ cache.total <= dfu.req
    /\ cache.size = BleSize /\ BleSize > 0 => cache.total < BleSize
    /\ cache.total = dfu.req => Prefix("BLE")

\* The 4G module alone.
LteInv ==
  "BLE" \notin active =>
    /\ air = <<>> /\ starts = 0 /\ ends = 0 /\ lte.clean
    /\ ~timer /\ ~retryWork /\ ~timeoutWork
    /\ lte.st = "READY" => lte.next = 0 /\ lte.written = 0
    /\ lte.st = "RECEIVING" =>
         /\ busy /\ cache.size = LteSize
         /\ cache.total = lte.next /\ lte.written = lte.next
         /\ cache.total < LteSize \/ cache.buf = <<>>
         /\ Prefix("LTE")
    /\ lte.st \in {"ENDED", "CHECKING"} => ~busy /\ Holds(flash, "LTE")

\* An empty cache at address 0 claims nothing.
LEMMA EmptyPrefix ==
  ASSUME NEW s \in Sources, cache'.buf = <<>>, cache'.addr = 0
  PROVE  Prefix(s)'
<1>1. Len(<<>>) = 0 /\ ImageSize[s] \in Nat
  BY SizeAssumption
<1>2. Len(cache'.buf) = 0
  BY <1>1
<1>3. \A a \in 0 .. ImageSize[s] - 1 : ~(a < cache'.addr)
  BY <1>1
<1>4. \A i \in 1 .. Len(cache'.buf) : FALSE
  BY <1>2, SMTT(30)
<1> QED
  BY <1>3, <1>4 DEF Prefix

\* The next units of the image, written to a session that is in step and not
\* complete, are in their place: in the cache, and after a flush in the
\* partition, since a flush happens when the block is full or the image ends.
LEMMA WriteInPlace ==
  ASSUME CacheForm, CacheInStep, NEW s \in Sources, Prefix(s),
         cache.size = ImageSize[s], cache.total < cache.size, ImageSize[s] <= Slot,
         NEW n \in Nat, HasRoom(n), cache.total + n <= cache.size
  PROVE  LET units == Units(s, cache.total, n)
             c     == Filled(units)
         IN  /\ Len(units) = n
             /\ c.addr = cache.addr /\ c.total = cache.total + n /\ c.size = cache.size
             /\ \A i \in 1 .. Len(c.buf) : c.buf[i] = <<s, c.addr + i - 1>>
             /\ Flushes(units) =>
                  \A a \in 0 .. ImageSize[s] - 1 :
                     a < cache.addr + Buf => Flushed(c)[a] = <<s, a>>
<1> DEFINE units == Units(s, cache.total, n)
           c == Filled(units)
           b == cache.buf
           l == Len(b)
           A == cache.addr
           T == cache.total
           Z == ImageSize[s]
<1>0. /\ A \in Nat /\ T \in Nat /\ l \in Nat /\ Z \in Nat /\ Buf \in Nat /\ Buf > 0
      /\ Slot \in Nat /\ l + n <= Buf /\ T = A + l /\ T + n <= Z /\ Z <= Slot /\ T < Z
      /\ cache.size = Z
  BY SizeAssumption DEF CacheForm, CacheInStep, HasRoom
<1>1. /\ units \in Seq(Sources \X Nat) /\ Len(units) = n
      /\ \A i \in 1 .. n : units[i] = <<s, T + i - 1>>
  <2>1. \A i \in 1 .. n : <<s, T + i - 1>> \in Sources \X Nat
    BY <1>0, SMTT(30)
  <2> HIDE DEF T
  <2>2. Units(s, T, n) \in Seq(Sources \X Nat) /\ Len(Units(s, T, n)) = n
    BY <2>1 DEF Units
  <2>3. \A i \in 1 .. n : Units(s, T, n)[i] = <<s, T + i - 1>>
    BY DEF Units
  <2> QED
    BY <2>2, <2>3 DEF T
<1>2. b \in Seq(AnyUnit) /\ units \in Seq(AnyUnit)
  <2>1. \A x \in Sources \X Nat : x \in AnyUnit
    BY DEF AnyUnit
  <2>2. units \in Seq(AnyUnit)
    <3> HIDE DEF units
    <3> QED
      BY <1>1, <2>1, SMTT(30)
  <2> QED
    BY <2>2 DEF CacheForm
<1>3. c.buf = b \o units /\ c.addr = A /\ c.total = T + n /\ c.size = Z
  BY <1>0, <1>1 DEF Filled
<1> DEFINE d == b \o units
<1>4. /\ Len(d) = l + n
      /\ \A i \in 1 .. l + n : d[i] = IF i <= l THEN b[i] ELSE units[i - l]
  <2> HIDE DEF units, b
  <2> QED
    BY <1>1, <1>2, ConcatProperties
<1>5. \A i \in 1 .. l : b[i] = <<s, A + i - 1>>
  BY DEF Prefix
<1>6. \A a \in 0 .. Z - 1 : a < A => flash[a] = <<s, a>>
  BY DEF Prefix
<1>7. ASSUME NEW i \in 1 .. l + n PROVE d[i] = <<s, A + i - 1>>
  <2> HIDE DEF units, b, d, l, A, T, Z, c
  <2>1. CASE i <= l
    <3>1. i \in 1 .. l
      BY <1>0, <2>1
    <3> QED
      BY <1>4, <1>5, <2>1, <3>1
  <2>2. CASE ~(i <= l)
    <3>1. i - l \in 1 .. n /\ T + (i - l) - 1 = A + i - 1
      BY <1>0, <2>2
    <3>2. d[i] = units[i - l]
      BY <1>4, <2>2
    <3> QED
      BY <1>1, <3>1, <3>2
  <2> QED
    BY <2>1, <2>2
<1>8. ASSUME Flushes(units), NEW a \in 0 .. Z - 1, a < A + Buf
      PROVE  Flushed(c)[a] = <<s, a>>
  <2>1. l + n >= Buf \/ T + n >= Z
    BY <1>1, <1>3, <1>8 DEF Flushes, IsLast
  <2> HIDE DEF units, b, d, l, A, T, Z, c
  <2>2. a \in Addrs
    BY <1>0 DEF Addrs
  <2>3. CASE a < A
    <3>1. Flushed(c)[a] = flash[a]
      BY <1>3, <2>2, <2>3 DEF Flushed
    <3> QED
      BY <1>6, <2>3, <3>1
  <2>4. CASE ~(a < A)
    <3> DEFINE j == a - A + 1
    <3>1. j \in 1 .. l + n /\ ~(a >= A + Buf) /\ a - A < l + n /\ A + j - 1 = a
      BY <1>0, <1>8, <2>1, <2>4
    <3>2. Len(c.buf) = l + n /\ c.buf = d /\ c.addr = A
      BY <1>3, <1>4 DEF d
    <3>3. Flushed(c)[a] = d[a - A + 1]
      BY <2>2, <2>4, <3>1, <3>2 DEF Flushed
    <3>4. d[j] = <<s, A + j - 1>>
      <4> HIDE DEF j
      <4> QED
        BY <1>7, <3>1
    <3> QED
      BY <3>1, <3>3, <3>4
  <2> QED
    BY <2>3, <2>4
<1>9. \A i \in 1 .. Len(c.buf) : c.buf[i] = <<s, c.addr + i - 1>>
  <2> HIDE DEF units, b, l, A, T, Z, c
  <2> QED
    BY <1>3, <1>4, <1>7
<1> HIDE DEF c
<1> QED
  BY <1>0, <1>1, <1>3, <1>8, <1>9 DEF c

\* So a write of the next units keeps the image in place, and the last one
\* leaves nothing in the cache.
LEMMA WritePrefix ==
  ASSUME CacheForm, CacheInStep, NEW s \in Sources, Prefix(s),
         cache.size = ImageSize[s], cache.total < cache.size, ImageSize[s] <= Slot,
         NEW n \in Nat, cache.total + n <= cache.size,
         my_ota_flash_write_block(Units(s, cache.total, n))
  PROVE  /\ Prefix(s)' /\ cache'.total = cache.total + n /\ cache'.size = cache.size
         /\ cache'.total < cache'.size \/ cache'.buf = <<>>
         /\ busy' /\ HasRoom(n)
<1> DEFINE units == Units(s, cache.total, n)
           c == Filled(units)
<1>0. /\ cache.total \in Nat /\ cache.size \in Nat /\ cache.addr \in Nat
      /\ ImageSize[s] \in Nat /\ Buf \in Nat /\ Len(<<>>) = 0 /\ Len(cache.buf) \in Nat
  BY SizeAssumption DEF CacheForm
<1>1. Len(units) = n
  BY DEF Units
<1>2. HasRoom(n) /\ busy' = busy /\ busy
  BY <1>1 DEF my_ota_flash_write_block
<1>3. /\ c.addr = cache.addr /\ c.total = cache.total + n /\ c.size = cache.size
      /\ \A i \in 1 .. Len(c.buf) : c.buf[i] = <<s, c.addr + i - 1>>
      /\ Flushes(units) =>
           \A a \in 0 .. ImageSize[s] - 1 :
              a < cache.addr + Buf => Flushed(c)[a] = <<s, a>>
  BY <1>2, WriteInPlace
<1>4. \/ Flushes(units) /\ cache' = NextBlock(c) /\ flash' = Flushed(c)
      \/ ~Flushes(units) /\ cache' = c /\ flash' = flash
  BY DEF my_ota_flash_write_block
<1>5. ~Flushes(units) => cache.total + n < cache.size
  <2>1. CASE n = 0
    BY <1>0, <2>1
  <2>2. CASE n # 0
    <3>1. units # <<>>
      BY <1>0, <1>1, <2>2
    <3>2. ~Flushes(units) => ~(c.total >= c.size)
      BY <3>1 DEF Flushes, IsLast
    <3> QED
      BY <1>0, <1>3, <3>2
  <2> QED
    BY <2>1, <2>2
<1>6. NextBlock(c) = [buf |-> <<>>, addr |-> c.addr + Buf, total |-> c.total, size |-> c.size]
  BY DEF NextBlock
<1> HIDE DEF c, units
<1>7. CASE Flushes(units) /\ cache' = NextBlock(c) /\ flash' = Flushed(c)
  <2>1. /\ cache'.buf = <<>> /\ cache'.addr = cache.addr + Buf
        /\ cache'.total = cache.total + n /\ cache'.size = cache.size
    BY <1>3, <1>6, <1>7
  <2>2. \A i \in 1 .. Len(cache'.buf) : FALSE
    BY <1>0, <2>1
  <2>3. \A a \in 0 .. ImageSize[s] - 1 : a < cache'.addr => flash'[a] = <<s, a>>
    BY <1>3, <1>7, <2>1
  <2> QED
    BY <1>2, <2>1, <2>2, <2>3 DEF Prefix
<1>8. CASE ~Flushes(units) /\ cache' = c /\ flash' = flash
  <2>1. /\ cache'.addr = cache.addr /\ cache'.total = cache.total + n
        /\ cache'.size = cache.size
    BY <1>3, <1>8
  <2>2. cache'.total < cache'.size
    BY <1>5, <1>8, <2>1
  <2>3. Prefix(s)'
    BY <1>3, <1>8, <2>1 DEF Prefix
  <2> QED
    BY <1>2, <2>1, <2>2, <2>3
<1> QED
  BY <1>4, <1>7, <1>8

\* A session of the app that holds nothing.
LEMMA NothingWritten ==
  ASSUME cache'.buf = <<>>, cache'.addr = 0, cache'.total = 0, dfu'.req \in Nat,
         "LTE" \notin active' => lte'.st = "IDLE",
         "LTE" \notin active' => (Downloading' => cache'.size = BleSize)
  PROVE  BleInv'
<1>1. Prefix("BLE")'
  BY EmptyPrefix DEF Sources
<1>2. cache'.total <= dfu'.req /\ (BleSize > 0 => cache'.total < BleSize)
  OBVIOUS
<1> QED
  BY <1>1, <1>2 DEF BleInv

\* The app's packets, START and what the timer and the work items do.
LEMMA OthersKeepBle ==
  ASSUME TypeInv, BleInv, App \/ jimi_dfu_start \/ jimi_dfu_end_image \/ Works
  PROVE  BleInv'
<1>0. /\ air \in Seq(OkPackets) /\ dfu \in [req : Nat, size : Nat, rep : Nat]
      /\ CacheForm /\ AskInv
  BY DEF TypeInv, AskInv, WriterInv, Form, DfuForm
<1>1. CASE App \/ jimi_dfu_start
  <2>1. UNCHANGED <<active, cache, flash, dfu, timer, retryWork, lte>>
    BY <1>1 DEF App, AppStart, AppEnd, Lost, jimi_dfu_start, session, works
  <2>2. air \in Seq(NoImage) => air' \in Seq(NoImage)
    <3>1. \/ air' = Append(air, Packet("START")) \/ air' = Append(air, Packet("END"))
          \/ air # <<>> /\ air' = Tail(air)
          \/ air # <<>> /\ air' = Append(Tail(air), Packet("SIZE"))
      BY <1>1 DEF App, AppStart, AppEnd, Lost, jimi_dfu_start, Received
    <3>2. CASE \/ air' = Append(air, Packet("START")) \/ air' = Append(air, Packet("END"))
      BY <3>2, OtherPackets, AppendProperties
    <3>3. CASE air # <<>> /\ air' = Tail(air)
      BY <1>0, <3>3, TakeOk
    <3>4. CASE air # <<>> /\ air' = Append(Tail(air), Packet("SIZE"))
      BY <1>0, <3>4, TakeOk, OtherPackets, AppendProperties
    <3> QED
      BY <3>1, <3>2, <3>3, <3>4
  <2>3. Downloading' => Downloading
    BY <2>1, <2>2 DEF Downloading
  <2> QED
    BY <2>1, <2>3 DEF BleInv, Prefix
<1>2. CASE jimi_dfu_end_image
  <2>1. /\ air # <<>> /\ air' = Tail(air) /\ UNCHANGED <<active, dfu, lte, retryWork>>
        /\ ~timer' /\ CloseOnly
    BY <1>2 DEF jimi_dfu_end_image, Received, works, my_ota_flash_close
  <2>2. Downloading' => Downloading
    BY <1>0, <2>1, TakeOk DEF Downloading
  <2>3. /\ cache'.buf = <<>> /\ cache'.addr = 0 /\ cache'.total = 0 /\ cache'.size = cache.size
        /\ dfu'.req \in Nat
    BY <1>0, <2>1, CloseClean
  <2>4. "LTE" \notin active' => lte'.st = "IDLE" /\ (Downloading' => cache'.size = BleSize)
    BY <2>1, <2>2, <2>3 DEF BleInv
  <2> QED
    BY <2>3, <2>4, NothingWritten
<1>3. CASE dfu_timeout_work_handler
  <2>1. CloseOnly /\ UNCHANGED <<active, air, timer, retryWork, dfu, lte>>
    BY <1>3 DEF dfu_timeout_work_handler, my_ota_flash_close
  <2>2. /\ cache'.buf = <<>> /\ cache'.addr = 0 /\ cache'.total = 0 /\ cache'.size = cache.size
        /\ dfu'.req \in Nat
    BY <1>0, <2>1, CloseClean
  <2>3. "LTE" \notin active' => lte'.st = "IDLE" /\ (Downloading' => cache'.size = BleSize)
    BY <2>1, <2>2 DEF BleInv, Downloading
  <2> QED
    BY <2>2, <2>3, NothingWritten
<1>4. CASE dfu_timer_wait_callback \/ dfu_retry_work_handler
  <2>1. UNCHANGED <<active, cache, flash, lte>> /\ (timer \/ retryWork)
    BY <1>4 DEF dfu_timer_wait_callback, Expire, dfu_retry_work_handler, session
  <2>2. \/ dfu' = [dfu EXCEPT !.rep = @ + 1] \/ dfu' = [dfu EXCEPT !.rep = 0]
        \/ dfu' = dfu
    BY <1>4 DEF dfu_timer_wait_callback, Expire, dfu_retry_work_handler
  <2>3. dfu'.req = dfu.req
    BY <1>0, <2>2
  <2>4. Downloading
    BY <2>1 DEF Downloading
  <2> QED
    BY <2>1, <2>3, <2>4 DEF BleInv, Prefix
<1> QED
  BY <1>1, <1>2, <1>3, <1>4 DEF Works

\* SIZE opens an empty session, or closes the one there was.
LEMMA SizeKeepsBle ==
  ASSUME TypeInv, BleInv, jimi_dfu_rx_file_size
  PROVE  BleInv'
<1>0. /\ air \in Seq(OkPackets) /\ dfu \in [req : Nat, size : Nat, rep : Nat]
      /\ CacheForm /\ AskInv
  BY DEF TypeInv, AskInv, WriterInv, Form, DfuForm
<1>1. /\ air # <<>> /\ UNCHANGED <<active, lte, retryWork>>
  BY DEF jimi_dfu_rx_file_size, Received, works
<1>2. CASE my_ota_flash_open(BleSize) /\ dfu' = [req |-> 0, size |-> BleSize, rep |-> 0]
  <2>1. /\ cache'.buf = <<>> /\ cache'.addr = 0 /\ cache'.total = 0 /\ cache'.size = BleSize
        /\ dfu'.req \in Nat
    BY <1>2 DEF my_ota_flash_open, EmptyCache
  <2>2. "LTE" \notin active' => lte'.st = "IDLE"
    BY <1>1 DEF BleInv
  <2> QED
    BY <2>1, <2>2, NothingWritten
<1>3. CASE /\ CloseOnly /\ timer' = timer
           /\ dfu' = [dfu EXCEPT !.size = BleSize] /\ air' = Tail(air)
  <2>1. /\ cache'.buf = <<>> /\ cache'.addr = 0 /\ cache'.total = 0 /\ cache'.size = cache.size
        /\ dfu'.req \in Nat
    BY <1>0, <1>3, CloseClean
  <2>2. Downloading' => Downloading
    BY <1>0, <1>1, <1>3, TakeOk DEF Downloading
  <2>3. "LTE" \notin active' => lte'.st = "IDLE" /\ (Downloading' => cache'.size = BleSize)
    BY <1>1, <2>1, <2>2 DEF BleInv
  <2> QED
    BY <2>1, <2>3, NothingWritten
<1> QED
  BY <1>2, <1>3 DEF jimi_dfu_rx_file_size, BleSize

\* A packet that is wanted: the writer is not ahead of the requests, the packet
\* does not reach past the image.
LEMMA WantedPacket ==
  ASSUME TypeInv, BleInv, "LTE" \notin active, Received("IMAGE"), Wanted(Head(air))
  PROVE  /\ Downloading /\ BleSize \in 1 .. Slot /\ cache.size = BleSize
         /\ Head(air).addr = dfu.req /\ Head(air).len \in Nat /\ dfu.req \in Nat
         /\ dfu.req + Head(air).len <= BleSize
         /\ cache.total \in Nat /\ cache.total <= dfu.req /\ cache.total < BleSize
         /\ cache.total = dfu.req => Prefix("BLE")
<1>1. /\ Downloading /\ Head(air).addr \in Nat /\ Head(air).len \in Nat
      /\ Head(air).addr + Head(air).len <= BleSize
  BY ImageAsked DEF TypeInv
<1>2. Head(air).addr = dfu.req
  BY DEF Wanted
<1>3. BleSize \in 1 .. Slot /\ cache.total \in Nat
  BY <1>1 DEF TypeInv, AskInv, WriterInv, Form, CacheForm
<1>4. BleSize > 0
  BY <1>3, SizesNat
<1> QED
  BY <1>1, <1>2, <1>3, <1>4 DEF BleInv

\* IMAGE: the packet joins what was written, or the session is closed.
LEMMA ImageKeepsBle ==
  ASSUME TypeInv, BleInv, jimi_dfu_write_image
  PROVE  BleInv'
<1> DEFINE p == Head(air)
           units == Units("BLE", p.addr, p.len)
<1>0. /\ dfu \in [req : Nat, size : Nat, rep : Nat] /\ dfu.req \in Nat
      /\ CacheForm /\ AskInv /\ CacheInStep
  BY DEF TypeInv, AskInv, WriterInv, Form, DfuForm
<1>1. /\ Downloading /\ lte' = lte /\ active' = active
  BY <1>0, ImageAsked DEF jimi_dfu_write_image
<1>2. "LTE" \notin active => cache.size = BleSize /\ lte.st = "IDLE"
  BY <1>1 DEF BleInv
<1>3. CASE UNCHANGED <<session, dfu>>
  BY <1>1, <1>2, <1>3 DEF BleInv, Prefix, session
<1>4. CASE CloseOnly /\ UNCHANGED dfu
  <2>1. /\ cache'.buf = <<>> /\ cache'.addr = 0 /\ cache'.total = 0 /\ cache'.size = cache.size
        /\ dfu'.req \in Nat
    BY <1>0, <1>4, CloseClean
  <2> QED
    BY <1>1, <1>2, <2>1, NothingWritten
<1>5. CASE /\ Wanted(p) /\ ~IsLast(Filled(units))
           /\ my_ota_flash_write_block(units)
           /\ dfu' = [req |-> p.addr + p.len, size |-> dfu.size, rep |-> 0]
  <2> SUFFICES ASSUME "LTE" \notin active PROVE BleInv'
    BY <1>1 DEF BleInv
  <2>0. Received("IMAGE")
    BY DEF jimi_dfu_write_image
  <2> DEFINE T == cache.total
             n == p.len
  <2>1. /\ BleSize \in 1 .. Slot /\ cache.size = BleSize /\ p.addr = dfu.req
        /\ n \in Nat /\ dfu.req \in Nat /\ dfu.req + n <= BleSize
        /\ T \in Nat /\ T <= dfu.req /\ T < BleSize
        /\ T = dfu.req => Prefix("BLE")
    BY <1>5, <2>0, WantedPacket
  <2>2. dfu'.req = dfu.req + n
    BY <1>5, <2>1
  <2>3. Len(units) = n
    BY <2>1 DEF Units
  <2>4. cache'.total = T + n /\ cache'.size = BleSize
    <3>1. cache' \in {Filled(units), NextBlock(Filled(units))}
      BY <1>5 DEF my_ota_flash_write_block
    <3>2. Filled(units).total = T + Len(units) /\ Filled(units).size = BleSize
      BY <2>1 DEF Filled
    <3>3. /\ NextBlock(Filled(units)).total = Filled(units).total
          /\ NextBlock(Filled(units)).size = Filled(units).size
      BY DEF NextBlock
    <3> QED
      BY <2>3, <3>1, <3>2, <3>3
  <2>5. T + n < BleSize
    <3>1. Filled(units).total = T + Len(units) /\ Filled(units).size = BleSize
      BY <2>1 DEF Filled
    <3> HIDE DEF units, T, n
    <3> QED
      BY <1>5, <2>1, <2>3, <3>1, SizesNat DEF IsLast
  <2>6. ASSUME T + n = dfu.req + n PROVE Prefix("BLE")'
    <3>1. T = dfu.req
      BY <2>1, <2>6
    <3>2. Prefix("BLE") /\ cache.total + n <= cache.size /\ cache.total < cache.size
      BY <2>1, <3>1
    <3>3. my_ota_flash_write_block(Units("BLE", cache.total, n))
      BY <1>5, <2>1, <3>1
    <3>4. cache.size = ImageSize["BLE"] /\ ImageSize["BLE"] <= Slot /\ "BLE" \in Sources
      BY <2>1, SizesNat DEF BleSize, Sources
    <3> QED
      BY <1>0, <2>1, <3>2, <3>3, <3>4, WritePrefix
  <2>7. cache'.total <= dfu'.req
    BY <2>1, <2>2, <2>4
  <2> HIDE DEF T, n
  <2> QED
    BY <1>1, <1>2, <2>2, <2>4, <2>5, <2>6, <2>7 DEF BleInv
<1> QED
  BY <1>3, <1>4, <1>5 DEF jimi_dfu_write_image, WriteLast

\* The app's side of every step.
LEMMA NextKeepsBle ==
  ASSUME TypeInv, BleInv, [Next]_vars
  PROVE  BleInv'
<1>1. CASE UNCHANGED vars
  BY <1>1 DEF vars, BleInv, Downloading, Prefix
<1>2. CASE Lte
  <2>1. active' = active
    BY <1>2 DEF Lte, my_dfu_lte_prepare, dfu_lte_save_open, dfu_lte_save_write,
       dfu_lte_save_close, SaveCloseAgain, my_dfu_lte_start, Checked, ReceiveFails
  <2>2. "LTE" \in active \/ lte.st # "IDLE"
    BY <1>2 DEF Lte, my_dfu_lte_prepare, dfu_lte_save_open, dfu_lte_save_write,
       dfu_lte_save_close, SaveCloseAgain, my_dfu_lte_start, Checked, ReceiveFails
  <2> QED
    BY <2>1, <2>2 DEF BleInv
<1>3. CASE ota_reset_work_handler
  <2>1. /\ air' = <<>> /\ ~timer' /\ ~retryWork' /\ dfu'.req = 0 /\ lte'.st = "IDLE"
        /\ cache'.buf = <<>> /\ cache'.addr = 0 /\ cache'.total = 0
    BY <1>3 DEF ota_reset_work_handler, EmptyCache, LteFrom
  <2>2. ~Downloading' /\ dfu'.req \in Nat
    BY <2>1 DEF Downloading
  <2> QED
    BY <2>1, <2>2, NothingWritten
<1> QED
  BY <1>1, <1>2, <1>3, OthersKeepBle, SizeKeepsBle, ImageKeepsBle DEF Next, Dfu

\* What the 4G module's side needs to know of a step that is not its own.
LEMMA LteQuiet ==
  ASSUME TypeInv, LteInv, "BLE" \notin active, App \/ Dfu \/ Works
  PROVE  FALSE
  BY DEF LteInv, App, AppStart, AppEnd, Lost, Dfu, jimi_dfu_start, jimi_dfu_rx_file_size,
         jimi_dfu_write_image, jimi_dfu_end_image, Received, Works,
         dfu_timer_wait_callback, Expire, dfu_retry_work_handler, dfu_timeout_work_handler

\* A frame carries the next units of the image.
LEMMA FrameIsNext ==
  ASSUME LteForm, lte.written = lte.next
  PROVE  /\ SaveSize \in Nat /\ lte.next \in Nat /\ lte.next + SaveSize <= LteSize
         /\ FrameUnits = Units("LTE", lte.next, SaveSize)
         /\ SaveSize = Min(Buf, LteSize - lte.next)
<1>1. /\ SaveSize \in Nat /\ SaveSize <= LteSize - lte.written
      /\ lte.next \in Nat /\ LteSize \in Nat
  BY FrameForm, SizesNat DEF LteForm, LteSize
<1>2. \A i \in 1 .. SaveSize : lte.next + i <= ImageSize["LTE"]
  BY <1>1 DEF LteSize
<1>3. FrameUnits = Units("LTE", lte.next, SaveSize)
  BY <1>2 DEF FrameUnits, Units
<1> QED
  BY <1>1, <1>3 DEF SaveSize, LteSize

\* A frame that was saved joins what was written; the transfer ends after one
\* that was not, the CAN having reached the sender.
LEMMA FrameKeepsLte ==
  ASSUME ~CanLost, TypeInv, LteInv, "BLE" \notin active, dfu_lte_save_write
  PROVE  LteInv'
<1>0. /\ CacheForm /\ LteForm /\ CacheInStep /\ AskInv
  BY DEF TypeInv, WriterInv, Form
<1>1. /\ lte.st = "RECEIVING" /\ lte.next < LteSize
      /\ UNCHANGED <<active, air, timer, retryWork, timeoutWork, starts, ends>>
  BY DEF dfu_lte_save_write, app, works, bounds, LteSize
<1>2. /\ busy /\ cache.size = LteSize /\ cache.total = lte.next /\ lte.written = lte.next
      /\ Prefix("LTE") /\ lte.clean
      /\ air = <<>> /\ starts = 0 /\ ends = 0 /\ ~timer /\ ~retryWork /\ ~timeoutWork
  BY <1>1 DEF LteInv
<1> DEFINE n == SaveSize
<1>3. /\ n \in Nat /\ lte.next \in Nat /\ lte.next + n <= LteSize
      /\ FrameUnits = Units("LTE", cache.total, n) /\ n = Min(Buf, LteSize - lte.next)
  BY <1>0, <1>2, FrameIsNext
<1>4. CASE my_ota_flash_write_block(FrameUnits) /\ Sent(TRUE)
  <2>1. /\ cache.size = ImageSize["LTE"] /\ ImageSize["LTE"] <= Slot /\ "LTE" \in Sources
        /\ cache.total < cache.size /\ cache.total + n <= cache.size
    BY <1>0, <1>1, <1>2, <1>3, SizesNat DEF AskInv, LteSize, Sources
  <2>2. /\ Prefix("LTE")' /\ cache'.total = cache.total + n /\ cache'.size = cache.size
        /\ cache'.total < cache'.size \/ cache'.buf = <<>>
        /\ busy'
    BY <1>0, <1>2, <1>3, <1>4, <2>1, WritePrefix
  <2>3. lte' = [st |-> lte.st, next |-> lte.next + n, written |-> lte.written + n,
                clean |-> TRUE]
    BY <1>2, <1>3, <1>4 DEF Sent, LteSize
  <2>4. /\ lte'.st = "RECEIVING" /\ lte'.next = lte.next + n
        /\ lte'.written = lte.next + n /\ lte'.clean
    BY <1>1, <1>2, <2>3
  <2> HIDE DEF n
  <2> QED
    BY <1>1, <1>2, <2>2, <2>4 DEF LteInv
<1>5. CASE LteAt("FAILED")
  <2>1. lte'.st = "FAILED" /\ lte'.clean = lte.clean
    BY <1>0, <1>5 DEF LteAt, LteForm
  <2> QED
    BY <1>1, <1>2, <2>1 DEF LteInv
<1> QED
  BY <1>4, <1>5 DEF dfu_lte_save_write

\* The end frame finds the whole image in the partition.
LEMMA EndKeepsLte ==
  ASSUME TypeInv, LteInv, "BLE" \notin active, dfu_lte_save_close
  PROVE  LteInv'
<1>0. /\ CacheForm /\ LteForm /\ CacheInStep /\ AskInv /\ LteSize \in Nat
  BY SizesNat DEF TypeInv, WriterInv, Form
<1>1. /\ lte.st = "RECEIVING" /\ lte.next = LteSize /\ CloseFlushing /\ LteAt("ENDED")
      /\ UNCHANGED <<active, air, timer, retryWork, timeoutWork, starts, ends>>
  BY DEF dfu_lte_save_close, app, works, bounds, LteSize
<1>2. /\ busy /\ cache.size = LteSize /\ cache.total = LteSize /\ Prefix("LTE") /\ lte.clean
      /\ cache.total < LteSize \/ cache.buf = <<>>
      /\ air = <<>> /\ starts = 0 /\ ends = 0 /\ ~timer /\ ~retryWork /\ ~timeoutWork
  BY <1>1 DEF LteInv
<1>3. cache.buf = <<>> /\ LteSize <= cache.addr
  <2>1. cache.buf = <<>> /\ Len(<<>>) = 0
    BY <1>0, <1>2
  <2>2. cache.total <= cache.addr + Len(cache.buf) /\ Len(cache.buf) = 0 /\ cache.addr \in Nat
    BY <1>0, <2>1 DEF CacheInStep, CacheForm
  <2> QED
    BY <1>2, <2>1, <2>2
<1>4. flash' = flash /\ ~busy'
  BY <1>1, <1>3 DEF CloseFlushing, CloseOnly, FlushOutcomes
<1>5. Holds(flash, "LTE")
  <2>1. \A a \in 0 .. ImageSize["LTE"] - 1 : a < cache.addr => flash[a] = <<"LTE", a>>
    BY <1>2 DEF Prefix
  <2>2. \A a \in 0 .. ImageSize["LTE"] - 1 : a < cache.addr
    BY <1>0, <1>3 DEF LteSize, CacheForm
  <2> QED
    BY <2>1, <2>2 DEF Holds
<1>6. lte'.st = "ENDED" /\ lte'.clean = lte.clean
  BY <1>0, <1>1 DEF LteAt, LteForm
<1> QED
  BY <1>1, <1>2, <1>4, <1>5, <1>6 DEF LteInv

\* The other steps of the download.
LEMMA RestKeepsLte ==
  ASSUME TypeInv, LteInv, "BLE" \notin active,
         \/ my_dfu_lte_prepare \/ dfu_lte_save_open \/ SaveCloseAgain
         \/ my_dfu_lte_start \/ ReceiveFails
  PROVE  LteInv'
<1>0. /\ LteForm /\ AskInv
  BY DEF TypeInv, WriterInv, Form
<1>1. /\ UNCHANGED <<active, air, timer, retryWork, timeoutWork, starts, ends>>
      /\ air = <<>> /\ starts = 0 /\ ends = 0 /\ ~timer /\ ~retryWork /\ ~timeoutWork
      /\ lte.clean
  BY DEF my_dfu_lte_prepare, dfu_lte_save_open, SaveCloseAgain, my_dfu_lte_start, Checked,
         ReceiveFails, app, works, bounds, LteInv
<1>2. CASE my_dfu_lte_prepare
  <2>1. lte'.st = "READY" /\ lte'.clean /\ lte'.next = 0 /\ lte'.written = 0
    BY <1>2 DEF my_dfu_lte_prepare, LteFrom
  <2> QED
    BY <1>1, <2>1 DEF LteInv
<1>3. CASE dfu_lte_save_open
  <2>1. CASE my_ota_flash_open(LteSize) /\ LteAt("RECEIVING")
    <3>1. lte'.st = "RECEIVING" /\ lte'.next = lte.next /\ lte'.written = lte.written /\ lte'.clean
      BY <1>0, <1>1, <2>1 DEF LteAt, LteForm
    <3>2. /\ cache'.buf = <<>> /\ cache'.addr = 0 /\ cache'.total = 0 /\ cache'.size = LteSize
          /\ busy'
      BY <2>1 DEF my_ota_flash_open, EmptyCache
    <3>3. Prefix("LTE")'
      BY <3>2, EmptyPrefix DEF Sources
    <3>4. lte.next = 0 /\ lte.written = 0
      BY <1>3 DEF dfu_lte_save_open, LteInv
    <3> QED
      BY <1>1, <3>1, <3>2, <3>3, <3>4 DEF LteInv
  <2>2. CASE LteAt("FAILED")
    <3>1. lte'.st = "FAILED" /\ lte'.clean
      BY <1>0, <1>1, <2>2 DEF LteAt, LteForm
    <3> QED
      BY <1>1, <3>1 DEF LteInv
  <2> QED
    BY <1>3, <2>1, <2>2 DEF dfu_lte_save_open, LteSize
<1>4. CASE SaveCloseAgain
  <2>1. lte'.st = "CHECKING" /\ lte'.clean /\ lte.st = "ENDED"
    BY <1>0, <1>1, <1>4 DEF SaveCloseAgain, LteAt, LteForm
  <2>2. ~busy /\ Holds(flash, "LTE")
    BY <2>1 DEF LteInv
  <2>3. flash' = flash /\ ~busy'
    BY <1>4, <2>2 DEF SaveCloseAgain, CloseFlushing, CloseOnly
  <2> QED
    BY <1>1, <2>1, <2>2, <2>3 DEF LteInv
<1>5. CASE my_dfu_lte_start \/ ReceiveFails
  <2>1. lte'.st = "IDLE" /\ lte'.clean
    BY <1>0, <1>1, <1>5 DEF my_dfu_lte_start, Checked, ReceiveFails, LteAt, LteForm
  <2> QED
    BY <1>1, <2>1 DEF LteInv
<1> QED
  BY <1>2, <1>3, <1>4, <1>5

\* The sources at work do not change.
LEMMA StaysActive == Next => active' = active
<1>1. App => active' = active
  BY DEF App, AppStart, AppEnd, Lost
<1>2. Dfu => active' = active
  BY DEF Dfu, jimi_dfu_start, jimi_dfu_rx_file_size, jimi_dfu_write_image, jimi_dfu_end_image
<1>3. Works => active' = active
  BY DEF Works, dfu_timer_wait_callback, Expire, dfu_retry_work_handler,
         dfu_timeout_work_handler
<1>4. Lte => active' = active
  BY DEF Lte, my_dfu_lte_prepare, dfu_lte_save_open, dfu_lte_save_write, dfu_lte_save_close,
         SaveCloseAgain, my_dfu_lte_start, Checked, ReceiveFails
<1> QED
  BY <1>1, <1>2, <1>3, <1>4 DEF Next, ota_reset_work_handler

\* The 4G module's side of every step.
LEMMA NextKeepsLte ==
  ASSUME ~CanLost, TypeInv, LteInv, [Next]_vars
  PROVE  LteInv'
<1>1. CASE UNCHANGED vars
  BY <1>1 DEF vars, LteInv, Prefix, Holds
<1>2. CASE ota_reset_work_handler
  <2>1. /\ air' = <<>> /\ ~timer' /\ ~retryWork' /\ ~timeoutWork'
        /\ lte'.st = "IDLE" /\ lte'.clean /\ UNCHANGED <<active, starts, ends>>
    BY <1>2 DEF ota_reset_work_handler, LteFrom, bounds
  <2> QED
    BY <2>1 DEF LteInv
<1>3. CASE Next /\ ~ota_reset_work_handler
  <2>1. active' = active
    BY <1>3, StaysActive
  <2> SUFFICES ASSUME "BLE" \notin active PROVE LteInv'
    BY <2>1 DEF LteInv
  <2>2. Lte
    BY <1>3, LteQuiet DEF Next
  <2> QED
    BY <2>2, FrameKeepsLte, EndKeepsLte, RestKeepsLte DEF Lte
<1> QED
  BY <1>1, <1>2, <1>3

\* A step marks only an image that is complete.
LEMMA MarksComplete ==
  ASSUME TypeInv, BleInv, LteInv, active # Sources, Next,
         NEW s \in Sources, upgrade' = s, upgrade # s
  PROVE  Holds(flash', s)
<1>0. "BLE" \notin active \/ "LTE" \notin active
  BY DEF TypeInv, FlagsOK, Sources
<1>1. \/ /\ s = "BLE" /\ jimi_dfu_write_image /\ upgrade' # upgrade
      \/ /\ s = "LTE" /\ my_dfu_lte_start /\ upgrade' # upgrade
  <2>1. CASE App \/ jimi_dfu_start \/ jimi_dfu_end_image \/ Works
    BY <2>1 DEF App, AppStart, AppEnd, Lost, jimi_dfu_start, jimi_dfu_end_image, Works,
       dfu_timer_wait_callback, Expire, dfu_retry_work_handler, dfu_timeout_work_handler, boot
  <2>2. CASE jimi_dfu_rx_file_size
    BY <2>2 DEF jimi_dfu_rx_file_size, Sources
  <2>3. CASE jimi_dfu_write_image
    BY <2>3 DEF jimi_dfu_write_image, WriteLast, boot
  <2>4. CASE Lte
    BY <2>4 DEF Lte, my_dfu_lte_prepare, dfu_lte_save_open, dfu_lte_save_write,
       dfu_lte_save_close, SaveCloseAgain, my_dfu_lte_start, Checked, ReceiveFails, boot, Sources
  <2>5. CASE ota_reset_work_handler
    BY <2>5 DEF ota_reset_work_handler, Sources
  <2> QED
    BY <2>1, <2>2, <2>3, <2>4, <2>5 DEF Next, Dfu
<1>2. CASE s = "LTE" /\ my_dfu_lte_start
  <2>1. lte.st = "CHECKING" /\ flash' = flash
    BY <1>2 DEF my_dfu_lte_start, Checked, session, my_ota_flash_close
  <2>2. "BLE" \notin active
    BY <1>0, <2>1 DEF BleInv
  <2> QED
    BY <1>2, <2>1, <2>2 DEF LteInv
<1>3. CASE s = "BLE" /\ jimi_dfu_write_image
  <2> DEFINE p == Head(air)
             n == p.len
             T == cache.total
             units == Units("BLE", p.addr, n)
             c == Filled(units)
  <2>1. /\ Received("IMAGE") /\ Wanted(p) /\ busy /\ HasRoom(n) /\ IsLast(c)
        /\ flash' \in IF n > 0 THEN {Flushed(c)} ELSE FlushOutcomes(c)
    BY <1>3 DEF jimi_dfu_write_image, boot
  <2>2. "LTE" \notin active
    BY <1>0, <2>1 DEF LteInv, Received
  <2>3. /\ BleSize \in 1 .. Slot /\ cache.size = BleSize /\ p.addr = dfu.req
        /\ n \in Nat /\ dfu.req \in Nat /\ dfu.req + n <= BleSize
        /\ T \in Nat /\ T <= dfu.req /\ T < BleSize
        /\ T = dfu.req => Prefix("BLE")
    BY <2>1, <2>2, WantedPacket
  <2>4. c.total = T + n /\ c.size = BleSize
    <3>1. Len(units) = n
      BY <2>3 DEF Units
    <3> QED
      BY <2>3, <3>1 DEF Filled
  <2>5. T = dfu.req /\ T + n = BleSize /\ n > 0
    <3>1. T + n >= BleSize
      BY <2>1, <2>4 DEF IsLast
    <3> HIDE DEF n, T
    <3> QED
      BY <2>3, <3>1, SizesNat
  <2>6. flash' = Flushed(c) /\ Prefix("BLE") /\ units = Units("BLE", cache.total, n)
    BY <2>1, <2>3, <2>5
  <2>7. /\ CacheForm /\ CacheInStep /\ "BLE" \in Sources /\ ImageSize["BLE"] <= Slot
        /\ cache.size = ImageSize["BLE"] /\ cache.total < cache.size
        /\ cache.total + n <= cache.size
    BY <2>3, <2>5, SizesNat DEF TypeInv, WriterInv, Form, BleSize, Sources
  <2>8. /\ Len(units) = n
        /\ Flushes(units) =>
             \A a \in 0 .. BleSize - 1 : a < cache.addr + Buf => Flushed(c)[a] = <<"BLE", a>>
    BY <2>1, <2>3, <2>6, <2>7, WriteInPlace DEF BleSize
  <2>9. Flushes(units)
    <3>1. units # <<>>
      <4>1. Len(<<>>) = 0
        OBVIOUS
      <4> QED
        BY <2>5, <2>8, <4>1
    <3> QED
      BY <2>1, <3>1 DEF Flushes
  <2>10. \A a \in 0 .. BleSize - 1 : a < cache.addr + Buf
    <3> DEFINE l == Len(cache.buf)
    <3>1. T = cache.addr + l /\ l + n <= Buf /\ l \in Nat /\ cache.addr \in Nat /\ Buf \in Nat
      BY <2>1, <2>7, SizesNat DEF HasRoom, CacheInStep, CacheForm
    <3> HIDE DEF l, n, T
    <3> QED
      BY <2>3, <2>5, <3>1, SizesNat
  <2> HIDE DEF c, units
  <2> QED
    BY <1>3, <2>6, <2>8, <2>9, <2>10 DEF Holds, BleSize
<1> QED
  BY <1>1, <1>2, <1>3

\* An image is marked for the bootloader only when every unit of it is in the
\* partition: whatever packets are lost, late or repeated, whatever writes fail
\* and sessions are broken off, for every size of image, cache and packet.  The
\* sources are at work one at a time, and a CAN reaches the 4G module: TLC shows
\* that the property fails when it does not.
THEOREM OnlyCompleteImagesAreMarked ==
  ASSUME ~CanLost, \A S \in SourceSets : S # Sources
  PROVE  Spec => UpgradeOnlyComplete
<1> DEFINE Inv == TypeInv /\ BleInv /\ LteInv /\ active # Sources
<1>1. Init => Inv
  <2> SUFFICES ASSUME Init PROVE Inv
    OBVIOUS
  <2>1. TypeInv
    BY InitTypes
  <2>2. /\ cache.buf = <<>> /\ cache.addr = 0 /\ cache.total = 0 /\ dfu.req = 0
        /\ air = <<>> /\ ~timer /\ ~retryWork /\ ~timeoutWork /\ starts = 0 /\ ends = 0
        /\ lte.st = "IDLE" /\ lte.clean /\ active \in SourceSets
    BY DEF Init, EmptyCache, LteFrom
  <2>3. Prefix("BLE")
    <3>1. Len(<<>>) = 0 /\ ImageSize["BLE"] \in Nat
      BY SizeAssumption DEF Sources
    <3> QED
      BY <2>2, <3>1 DEF Prefix
  <2>4. ~Downloading
    BY <2>2 DEF Downloading
  <2>5. BleInv /\ LteInv
    BY <2>2, <2>3, <2>4 DEF BleInv, LteInv
  <2> QED
    BY <2>1, <2>2, <2>5
<1>2. Inv /\ [Next]_vars => Inv'
  <2> SUFFICES ASSUME Inv, [Next]_vars PROVE Inv'
    OBVIOUS
  <2>1. active' = active
    BY StaysActive DEF vars
  <2>2. TypeInv' /\ BleInv' /\ LteInv'
    BY NextTypes, NextKeepsBle, NextKeepsLte
  <2> QED
    BY <2>1, <2>2
<1>3. Inv /\ [Next]_vars
        => [\A s \in Sources : upgrade' = s /\ upgrade # s => Holds(flash', s)]_vars
  BY MarksComplete
<1> HIDE DEF Inv
<1> QED
  BY <1>1, <1>2, <1>3, PTL DEF Spec, UpgradeOnlyComplete
=============================================================================
