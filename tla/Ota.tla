-------------------------------- MODULE Ota --------------------------------
(***************************************************************************)
(* Firmware update: the shared writer of the image_1 partition             *)
(* (my_ota_flash.c) and its two users, the DFU protocol of the phone app   *)
(* over BLE (my_dfu_jimi.c) and the YModem download from the 4G module     *)
(* (my_dfu_lte.c).                                                         *)
(*                                                                         *)
(* The BLE thread runs the app's handlers, the LTE thread the download,    *)
(* the OTA work queue the retries and timeouts; a handler is one step.     *)
(* Sizes and addresses count units of 128 bytes, the smallest packet; the  *)
(* unit at position i of the image of source s is <<s, i>>.  Packets from  *)
(* the app arrive in order and may be lost (a busy receive buffer drops    *)
(* them).  YModem delivers the file in order or fails; a save that fails is *)
(* answered with CAN, which may not reach the sender.                      *)
(***************************************************************************)
EXTENDS Integers, Sequences

CONSTANTS
  Buf,          \* MY_OTA_BUFFER_SIZE
  Sector,       \* FLASH_SECTOR_SIZE
  Slot,         \* the size of image_1
  ImageSize,    \* the size of the image of each source
  Mtus,         \* packet sizes the MTUs allow: 128, 256 and 384 bytes
  MaxRepeat,    \* retries before a timeout, 10
  SourceSets,   \* the sets of sources that may be at work
  MaxStarts,    \* bound on START packets of the app
  MaxEnds,      \* bound on END packets of the app
  MaxAir,       \* bound on packets under way
  MaxCalls,     \* bound on LTE+MCUOTA=START commands
  Faults,       \* flash operations and checks may fail
  CanLost       \* a CAN to the 4G module may be lost

Sources == {"BLE", "LTE"}

ASSUME SizeAssumption ==
  /\ Buf \in Nat \ {0} /\ Sector \in Nat \ {0} /\ Slot \in Nat \ {0}
  /\ Slot % Sector = 0 /\ Sector % Buf = 0
  /\ ImageSize \in [Sources -> Nat]
  /\ Mtus \subseteq Nat \ {0} /\ MaxRepeat \in Nat
  /\ SourceSets \subseteq SUBSET Sources
  /\ MaxStarts \in Nat /\ MaxEnds \in Nat /\ MaxAir \in Nat /\ MaxCalls \in Nat
  /\ Faults \in BOOLEAN /\ CanLost \in BOOLEAN

VARIABLES
  active,    \* the sources at work
  busy,      \* s_ota_busy
  owner,     \* history: the source that occupied the session
  cache,     \* s_ota_buf, _block_addr, _total_written, _file_size
  flash,     \* image_1
  dfu,       \* s_req_file_addr, s_dfu_image.fw_copy_size, s_repeat_req_count
  timer,     \* s_file_trans_wait_timer runs
  retryWork, timeoutWork,  \* submitted and not yet run
  air,       \* packets from the app
  lte,       \* where my_dfu_lte_start stands: units the sender sent, units
             \* saved (written), the checksum is still that of the image
  upgrade,   \* the source whose image boot_request_upgrade marked
  armed,     \* s_ota_reset_timer runs
  starts, ends, calls

vars == <<active, busy, owner, cache, flash, dfu, timer, retryWork,
          timeoutWork, air, lte, upgrade, armed, starts, ends, calls>>

session == <<busy, owner, cache, flash>>
works   == <<retryWork, timeoutWork>>
boot    == <<upgrade, armed>>
bounds  == <<starts, ends, calls>>

Erased == <<"ERASED", 0>>
Pad    == <<"PAD", 0>>
Spoilt == <<"SPOILT", 0>>
Addrs  == 0 .. Slot - 1
Units(s, a, n) == [i \in 1 .. n |-> <<s, a + i - 1>>]
MayFail == IF Faults THEN {TRUE, FALSE} ELSE {TRUE}
Huge == Slot + Buf     \* a remainder that went below zero

-----------------------------------------------------------------------------
(* my_ota_flash.c                                                          *)
EmptyCache(size) == [buf |-> <<>>, addr |-> 0, total |-> 0, size |-> size]

\* my_ota_flash_close releases the session; a no-op without one.
CloseOnly ==
  /\ busy' = FALSE /\ owner' = "NONE"
  /\ cache' = IF busy THEN EmptyCache(cache.size) ELSE cache
my_ota_flash_close == CloseOnly /\ UNCHANGED flash   \* result_ok = false

\* The sectors below `size` are erased.
ErasedSectors(size) == ((size + Sector - 1) \div Sector) * Sector

my_ota_flash_open(size) ==
  /\ busy /\ size > 0 /\ size <= Slot
  /\ flash' = [a \in Addrs |-> IF a < ErasedSectors(size) THEN Erased ELSE flash[a]]
  /\ cache' = EmptyCache(size)
  /\ UNCHANGED <<busy, owner>>

OpenFails(size) == ~busy \/ size = 0 \/ size > Slot \/ Faults
\* A failing erase may have erased some sectors, in ascending order.
PartlyErased(size) ==
  IF busy /\ size <= Slot
  THEN {[a \in Addrs |-> IF a < n THEN Erased ELSE flash[a]] :
          n \in {m \in 0 .. ErasedSectors(size) - 1 : m % Sector = 0} \cup {0}}
  ELSE {flash}

HasRoom(n) == Len(cache.buf) + n <= Buf
Filled(units) ==
  [buf |-> cache.buf \o units, addr |-> cache.addr,
   total |-> cache.total + Len(units), size |-> cache.size]
IsLast(c) == c.total >= c.size
\* A block of length zero is not written.
Flushes(units) ==
  units # <<>> /\ (Len(cache.buf) + Len(units) >= Buf \/ IsLast(Filled(units)))

\* A flush writes the whole cache, padded; one that fails may spoil the block.
Flushed(c) ==
  [a \in Addrs |-> IF a < c.addr \/ a >= c.addr + Buf THEN flash[a]
                   ELSE IF a - c.addr < Len(c.buf) THEN c.buf[a - c.addr + 1]
                   ELSE Pad]
SpoiltAt(c) ==
  [a \in Addrs |-> IF a < c.addr \/ a >= c.addr + Buf THEN flash[a] ELSE Spoilt]

\* What the flush of a close leaves, its result being ignored.
FlushOutcomes(c) ==
  IF c.buf = <<>> THEN {flash}
  ELSE {Flushed(c)} \cup (IF Faults THEN {flash, SpoiltAt(c)} ELSE {})

SameBlock(c) == [c EXCEPT !.buf = <<>>]
\* The block address moves on, the cache is empty again.
NextBlock(c) ==
  [buf |-> <<>>, addr |-> c.addr + Buf, total |-> c.total, size |-> c.size]

my_ota_flash_write_block(units) ==
  /\ busy /\ HasRoom(Len(units))
  /\ LET c == Filled(units)
     IN  IF Flushes(units)
         THEN cache' = NextBlock(c) /\ flash' = Flushed(c)
         ELSE cache' = c /\ UNCHANGED flash
  /\ UNCHANGED <<busy, owner>>

WriteFails(units) == ~busy \/ ~HasRoom(Len(units)) \/ (Faults /\ Flushes(units))
\* What a failing write leaves in flash.
SpoiltBy(units) ==
  IF busy /\ HasRoom(Len(units)) THEN {flash, SpoiltAt(Filled(units))} ELSE {flash}
\* ... and in the cache: the read-back may have replaced its content.
CacheAfterFailure(units) ==
  IF busy /\ HasRoom(Len(units))
  THEN LET c == Filled(units)
       IN  {c, [c EXCEPT !.buf = [i \in DOMAIN @ |-> Spoilt]]}
  ELSE {cache}

\* my_ota_flash_close(true) writes what is left in the cache.
CloseFlushing ==
  /\ CloseOnly
  /\ flash' \in IF busy THEN FlushOutcomes(cache) ELSE {flash}

-----------------------------------------------------------------------------
(* my_dfu_jimi.c                                                           *)
Min(a, b) == IF a < b THEN a ELSE b

\* jimi_dfu_calc_pkt_size: at least one unit, whatever is left in the cache.
calc_pkt_size(mtu, remain, room) ==
  Min(IF mtu <= room THEN mtu ELSE IF room = 0 THEN 1 ELSE room, remain)

Remain(size, req) == IF size >= req THEN size - req ELSE Huge

\* jimi_dfu_image_down_req, and the app's answer, if it comes: n units at req.
Request(q, size, req, room) ==
  \/ air' = q
  \/ \E mtu \in Mtus :
       /\ Len(q) < MaxAir
       /\ air' = Append(q, [cmd |-> "IMAGE", addr |-> req,
                            len |-> calc_pkt_size(mtu, Remain(size, req), room)])

Received(cmd) == air # <<>> /\ Head(air).cmd = cmd
Packet(cmd) == [cmd |-> cmd, addr |-> 0, len |-> 0]

\* The app asks for an update, or ends one.
AppStart ==
  /\ "BLE" \in active /\ starts < MaxStarts /\ Len(air) < MaxAir
  /\ starts' = starts + 1
  /\ air' = Append(air, Packet("START"))
  /\ UNCHANGED <<active, session, dfu, timer, works, lte, boot, ends, calls>>

AppEnd ==
  /\ ends < MaxEnds /\ ends < starts /\ Len(air) < MaxAir
  /\ ends' = ends + 1
  /\ air' = Append(air, Packet("END"))
  /\ UNCHANGED <<active, session, dfu, timer, works, lte, boot, starts, calls>>

\* BLE_DataInputBuffer drops a packet, or the link breaks.
Lost ==
  /\ air # <<>>
  /\ air' = Tail(air)
  /\ UNCHANGED <<active, session, dfu, timer, works, lte, boot, bounds>>

\* A START is answered when the session is free; the app then sends the size.
jimi_dfu_start ==
  /\ Received("START")
  /\ IF busy
     THEN UNCHANGED session /\ air' = Tail(air)
     ELSE /\ busy' = TRUE /\ owner' = "BLE"
          /\ UNCHANGED <<cache, flash>>
          /\ \/ air' = Tail(air)
             \/ air' = Append(Tail(air), Packet("SIZE"))
  /\ UNCHANGED <<active, dfu, timer, works, lte, boot, bounds>>

\* boot_request_upgrade wrote its mark into the last sector.
MarkErased(size) == ErasedSectors(size) = Slot

jimi_dfu_rx_file_size ==
  /\ Received("SIZE")
  /\ LET size == ImageSize["BLE"]
     IN  \/ /\ my_ota_flash_open(size)
            /\ dfu' = [req |-> 0, size |-> size, rep |-> 0]
            /\ Request(Tail(air), size, 0, Buf)
            /\ timer' = TRUE
            /\ upgrade' = IF MarkErased(size) THEN "NONE" ELSE upgrade
         \/ /\ OpenFails(size)
            /\ CloseOnly /\ flash' \in PartlyErased(size)
            /\ dfu' = [dfu EXCEPT !.size = size]
            /\ air' = Tail(air)
            /\ UNCHANGED <<timer, upgrade>>
  /\ UNCHANGED <<active, works, lte, armed, bounds>>

AnyAddr(p) == TRUE
\* Packets of other addresses, late answers to repeated requests, are ignored.
Wanted(p) == p.addr = dfu.req

WriteLast ==
  /\ CloseOnly
  /\ timer' = FALSE
  /\ air' = Tail(air)
  /\ upgrade' = "BLE" /\ armed' = TRUE
  /\ UNCHANGED dfu

jimi_dfu_write_image ==
  /\ Received("IMAGE")
  /\ LET p     == Head(air)
         units == Units("BLE", p.addr, p.len)
         c     == Filled(units)
     IN  \/ /\ ~Wanted(p)
            /\ air' = Tail(air)
            /\ UNCHANGED <<session, dfu, timer, boot>>
         \/ \* the write, or the flush it led to, failed
            /\ Wanted(p) /\ WriteFails(units)
            /\ CloseOnly /\ flash' \in SpoiltBy(units)
            /\ timer' = FALSE
            /\ air' = Tail(air)
            /\ UNCHANGED <<dfu, boot>>
         \/ \* the last packet: close, mark the image, reset in 6.5 s
            /\ Wanted(p) /\ busy /\ HasRoom(p.len) /\ IsLast(c)
            /\ flash' \in IF p.len > 0 THEN {Flushed(c)} ELSE FlushOutcomes(c)
            /\ WriteLast
         \/ /\ Wanted(p) /\ ~IsLast(c)
            /\ my_ota_flash_write_block(units)
            /\ dfu' = [req |-> p.addr + p.len, size |-> dfu.size, rep |-> 0]
            /\ Request(Tail(air), dfu.size, p.addr + p.len,
                       Buf - Len(cache'.buf))
            /\ timer' = TRUE
            /\ UNCHANGED boot
  /\ UNCHANGED <<active, works, lte, bounds>>

\* END: the session is closed and the device resets in 1 s.
jimi_dfu_end_image ==
  /\ Received("END")
  /\ my_ota_flash_close
  /\ timer' = FALSE /\ armed' = TRUE
  /\ air' = Tail(air)
  /\ UNCHANGED <<active, dfu, works, lte, upgrade, bounds>>

Expire(limit) ==
  /\ timer /\ timer' = FALSE
  /\ IF dfu.rep + 1 <= limit
     THEN /\ dfu' = [dfu EXCEPT !.rep = @ + 1]
          /\ retryWork' = TRUE /\ UNCHANGED timeoutWork
     ELSE /\ dfu' = [dfu EXCEPT !.rep = 0]
          /\ timeoutWork' = TRUE /\ UNCHANGED retryWork
  /\ UNCHANGED <<active, session, air, lte, boot, bounds>>
OneRetryMore == Expire(MaxRepeat + 1)
\* The wait timer expires: another request, or the end.
dfu_timer_wait_callback == Expire(MaxRepeat)

RetryWithoutTimer ==
  /\ retryWork /\ retryWork' = FALSE
  /\ Request(air, dfu.size, dfu.req, Buf - Len(cache.buf))
  /\ UNCHANGED <<active, session, dfu, timer, timeoutWork, lte, boot, bounds>>
dfu_retry_work_handler ==
  /\ retryWork /\ retryWork' = FALSE
  /\ Request(air, dfu.size, dfu.req, Buf - Len(cache.buf))
  /\ timer' = TRUE
  /\ UNCHANGED <<active, session, dfu, timeoutWork, lte, boot, bounds>>

dfu_timeout_work_handler ==
  /\ timeoutWork /\ timeoutWork' = FALSE
  /\ my_ota_flash_close
  /\ UNCHANGED <<active, dfu, timer, retryWork, air, lte, boot, bounds>>

-----------------------------------------------------------------------------
(* my_dfu_lte.c                                                            *)
LteSteps == {"IDLE", "READY", "RECEIVING", "FAILED", "ENDED", "CHECKING"}
app     == <<dfu, timer, works, air>>
LteAt(st) == lte' = [lte EXCEPT !.st = st]

LteFrom(st) == [st |-> st, next |-> 0, written |-> 0, clean |-> TRUE]

\* LTE+MCUOTA=START, when the session is free.
my_dfu_lte_prepare ==
  /\ "LTE" \in active /\ lte.st = "IDLE" /\ calls < MaxCalls
  /\ calls' = calls + 1
  /\ ~busy /\ ImageSize["LTE"] \in 1 .. Slot
  /\ busy' = TRUE /\ owner' = "LTE"
  /\ lte' = LteFrom("READY")
  /\ UNCHANGED <<active, cache, flash, app, boot, starts, ends>>

\* The first frame carries the file's size.
dfu_lte_save_open ==
  /\ lte.st = "READY"
  /\ LET size == ImageSize["LTE"]
     IN  \/ /\ my_ota_flash_open(size)
            /\ LteAt("RECEIVING")
            /\ upgrade' = IF MarkErased(size) THEN "NONE" ELSE upgrade
         \/ /\ OpenFails(size)
            /\ LteAt("FAILED")
            /\ flash' \in PartlyErased(size)
            /\ UNCHANGED <<busy, owner, cache, upgrade>>
  /\ UNCHANGED <<active, app, armed, bounds>>

\* The part of a frame that is saved: what `written` says the file still lacks,
\* padding of the sender included once an earlier frame was not counted.
SaveSize == Min(Buf, ImageSize["LTE"] - lte.written)
FrameUnits ==
  [i \in 1 .. SaveSize |-> IF lte.next + i <= ImageSize["LTE"]
                           THEN <<"LTE", lte.next + i - 1>> ELSE Pad]
Sent(saved) ==
  LET n == Min(Buf, ImageSize["LTE"] - lte.next)
  IN  lte' = [st |-> lte.st, next |-> lte.next + n,
              written |-> lte.written + (IF saved THEN SaveSize ELSE 0),
              clean |-> lte.clean /\ SaveSize = n]

\* A frame fills the cache, the last one carries the rest of the file.  A save
\* that fails is not fatal: the sequence number has moved on, so if the sender
\* misses the CAN and repeats the frame it is acknowledged as a duplicate.
dfu_lte_save_write ==
  /\ lte.st = "RECEIVING" /\ lte.next < ImageSize["LTE"]
  /\ \/ my_ota_flash_write_block(FrameUnits) /\ Sent(TRUE)
     \/ /\ WriteFails(FrameUnits)
        /\ flash' \in SpoiltBy(FrameUnits)
        /\ cache' \in CacheAfterFailure(FrameUnits)
        /\ LteAt("FAILED") \/ (CanLost /\ Sent(FALSE))
        /\ UNCHANGED <<busy, owner>>
  /\ UNCHANGED <<active, app, boot, bounds>>

\* The end frame: receiver_process_frame calls save_close(1) ...
dfu_lte_save_close ==
  /\ lte.st = "RECEIVING" /\ lte.next = ImageSize["LTE"]
  /\ CloseFlushing
  /\ LteAt("ENDED")
  /\ UNCHANGED <<active, app, boot, bounds>>
\* ... and receiver_run calls it again.
SaveCloseAgain ==
  /\ lte.st = "ENDED"
  /\ CloseFlushing
  /\ LteAt("CHECKING")
  /\ UNCHANGED <<active, app, boot, bounds>>

\* The checksum of what was received, not of what was saved, decides.
Checked(ok) ==
  /\ lte.st = "CHECKING"
  /\ LteAt("IDLE")
  /\ IF ok
     THEN /\ upgrade' = "LTE" /\ armed' = TRUE
          /\ UNCHANGED session
     ELSE my_ota_flash_close /\ UNCHANGED boot
  /\ UNCHANGED <<active, app, bounds>>
my_dfu_lte_start == \E ok \in IF lte.clean THEN MayFail ELSE {FALSE} : Checked(ok)

\* my_ymodem_receive fails, at any point, or after a callback failed.
ReceiveFails ==
  /\ lte.st \in {"READY", "RECEIVING", "FAILED"}
  /\ my_ota_flash_close
  /\ LteAt("IDLE")
  /\ UNCHANGED <<active, app, boot, bounds>>

-----------------------------------------------------------------------------
\* ota_reset_work_handler: MCUboot installs a marked image, RAM is cleared.
ota_reset_work_handler ==
  /\ armed
  /\ busy' = FALSE /\ owner' = "NONE"
  /\ cache' = EmptyCache(0)
  /\ flash' = IF upgrade = "NONE" THEN flash ELSE [a \in Addrs |-> Pad]
  /\ dfu' = [req |-> 0, size |-> 0, rep |-> 0]
  /\ timer' = FALSE /\ retryWork' = FALSE /\ timeoutWork' = FALSE
  /\ air' = <<>>
  /\ lte' = LteFrom("IDLE")
  /\ upgrade' = "NONE" /\ armed' = FALSE
  /\ UNCHANGED <<active, bounds>>

Init ==
  /\ active \in SourceSets
  /\ busy = FALSE /\ owner = "NONE"
  /\ cache = EmptyCache(0)
  /\ flash = [a \in Addrs |-> Erased]
  /\ dfu = [req |-> 0, size |-> 0, rep |-> 0]
  /\ timer = FALSE /\ retryWork = FALSE /\ timeoutWork = FALSE
  /\ air = <<>>
  /\ lte = LteFrom("IDLE")
  /\ upgrade = "NONE" /\ armed = FALSE
  /\ starts = 0 /\ ends = 0 /\ calls = 0

App == AppStart \/ AppEnd \/ Lost
Dfu == \/ jimi_dfu_start \/ jimi_dfu_rx_file_size \/ jimi_dfu_write_image
       \/ jimi_dfu_end_image
Works == \/ dfu_timer_wait_callback
         \/ dfu_retry_work_handler \/ dfu_timeout_work_handler
Lte == \/ my_dfu_lte_prepare \/ dfu_lte_save_open \/ dfu_lte_save_write
       \/ dfu_lte_save_close \/ SaveCloseAgain \/ my_dfu_lte_start
       \/ ReceiveFails

Next == App \/ Dfu \/ Works \/ Lte \/ ota_reset_work_handler

Spec == Init /\ [][Next]_vars

\* Timers expire, the work queue and the threads run; a YModem transfer ends
\* by itself, its waits being bounded.  The app and the 4G module may go away.
Fairness ==
  /\ WF_vars(Dfu \/ Lost)
  /\ WF_vars(dfu_timer_wait_callback)
  /\ WF_vars(dfu_retry_work_handler) /\ WF_vars(dfu_timeout_work_handler)
  /\ WF_vars(Lte /\ calls' = calls)
  /\ WF_vars(ota_reset_work_handler)

FairSpec == Spec /\ Fairness

-----------------------------------------------------------------------------
(* Properties.                                                             *)

UnitSet == (Sources \X Addrs) \cup {Erased, Pad, Spoilt}

\* Every variable has its type.
TypeOK ==
  /\ active \subseteq Sources
  /\ busy \in BOOLEAN /\ timer \in BOOLEAN /\ armed \in BOOLEAN
  /\ retryWork \in BOOLEAN /\ timeoutWork \in BOOLEAN
  /\ owner \in Sources \cup {"NONE"} /\ upgrade \in Sources \cup {"NONE"}
  /\ cache.buf \in Seq(UnitSet) /\ cache.addr \in Nat /\ cache.total \in Nat
  /\ flash \in [Addrs -> UnitSet]
  /\ dfu.req \in Nat /\ dfu.rep \in 0 .. MaxRepeat
  /\ lte.st \in LteSteps /\ lte.next \in Nat /\ lte.written \in Nat
  /\ air \in Seq([cmd : {"START", "SIZE", "IMAGE", "END"}, addr : Nat, len : Nat])

BlockStart(a) == \E k \in 0 .. a : a = k * Buf

\* The cache and the block address account for every byte written: no holes,
\* no overlap, whatever the packet sizes, failures and users of the session.
CacheInStep ==
  /\ Len(cache.buf) <= Buf
  /\ BlockStart(cache.addr)
  /\ cache.total <= cache.addr + Len(cache.buf)
  /\ cache.total < cache.size => cache.total = cache.addr + Len(cache.buf)

Holds(f, s) == \A i \in 0 .. ImageSize[s] - 1 : f[i] = <<s, i>>

\* my_dfu_lte.c:340: an image enters an upgrade only when it was verified.  So
\* an upgrade is requested only for a complete image: repeated requests, late
\* and lost packets, failing writes and earlier, broken off sessions leave no
\* gap and no stale unit in it.
UpgradeOnlyComplete ==
  [][\A s \in Sources : upgrade' = s /\ upgrade # s => Holds(flash', s)]_vars

\* The device asks for nothing although units are missing: a START occupied a
\* new session whose SIZE never came, and a late packet or a late retry of the
\* session before went on with it from the old address to the end of the file.
AsksForNothing == /\ busy /\ cache.total < cache.size
                  /\ dfu.size > 0 /\ dfu.req = dfu.size

\* A download of the app that has begun ends, whether or not the app answers,
\* ends it or starts another: by its last packet, a failing write or the wait
\* timer.  The one exception is a session that asks for nothing for ever, every
\* empty answer being taken for progress that resets the retries.
DownloadEnds ==
  [](busy /\ timer => <>(~busy \/ []AsksForNothing))
=============================================================================
