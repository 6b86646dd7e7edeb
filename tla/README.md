# LL320D-EM01 BLE firmware: TLA+ models, checks and proofs

The LL320D-EM01 is a battery-powered tracker built around an nRF54L15. Its
firmware (`src/nrf/applications/LL320D_EM01_BLE/src`, about 30 000 lines of C
on Zephyr) scans for Bluetooth tags and MAC addresses, collects sensor samples,
keeps them in flash while the 4G module sleeps, uploads them over a serial line,
and updates itself from a phone or through the 4G module. Everything else in the
repository is the vendored nRF Connect SDK with its samples, tests and external
libraries, more than a million lines that the firmware is built on or does not
use; none of it is modelled, so that the share of the repository that the models
cover is small although they cover the core of the application.

This directory models the parts of the firmware in which a fault would be hard
to find by testing: state that outlives a power loss, state machines that share
a link whose acknowledgements carry no sequence number, two firmware-update
protocols that share one flash writer, a transfer protocol in which both ends
time out, a UART that threads, interrupts and timers share, work modes that
messages in three queues change, and responses to a phone whose connection may
end in the middle of a handler.

File names below are relative to `src/nrf/applications/LL320D_EM01_BLE/src`.

## 1. Inventory

Threads: main, BLE, LTE, control, g-sensor, magnetic UART, shell, and the OTA
work queue. Each thread has a Zephyr message queue (`my_send_msg`, never
waiting, result ignored) and runs one handler at a time. Timers and UART
callbacks run in interrupt context and post messages.

| Component | State | Operations | Hard behaviour | What makes it correct |
|---|---|---|---|---|
| Flash record store (`my_flash_store.c`) | per region: ring of sectors, staging buffer, session cursors, meta record in ZMS | init, push, upload_begin, read_next, rewind, commit, clear | power loss between two writes; full ring; pushes during a session; failing flash and ZMS | pointers agree; a session delivers exactly what it announced; a commit removes exactly what was read |
| Scan and upload (`my_ble_scan.c`) | scan state, result tables, round state, sensor upload state | advertisements, scan timers, samples, acknowledgements, wake-up, reconfiguration | two upload state machines share one link; anonymous acknowledgements; reconfiguration and power cycles in the middle | uploads do not overlap; nothing is deleted unconfirmed; nothing gets stuck |
| Image writer (`my_ota_flash.c`) | session flag, 1 KB cache, block address, byte count, reset timer | occupy, open, write_block, close, schedule_reset | two users in different threads; failing flush; reset delay | one owner; no hole, no overlap; only complete images are marked |
| App DFU (`my_dfu_jimi.c`) | requested address, repeat count, wait timer, two work items | START, SIZE, IMAGE, END, timer, retry, timeout | lost and late packets; work items that run late | the session always ends; duplicates do not shift the image |
| 4G download (`my_dfu_lte.c`, `my_ymodem.c`) | YModem receiver, running CRC32 | prepare, save_open/write/close, final check | failing saves, retransmissions, lost CAN | what was checked is what is in flash |
| 4G link (`my_lte.c`) | power and ready flags, TX semaphore, pending queue, UART idle timer, receive ring, line assembler | send, power on/off, TX done, idle, receive, wake-up | timeouts against late completions; bounded queues | commands in order and once, no two transfers at once, the UART sleeps again |
| Main thread (`main.c`), with the motion states of `my_gsensor.c` and the percentage of `my_battery.c` | work mode, low-power flags, wake-up timer, shutdown request | mode switch, battery check, enter and leave low-power running, motion policy, shutdown | dropped messages; checks and switches under way at the same time | modes, timers, sensor and scanning agree; the user's choice stands |
| BLE responses (`my_ble_app.c`, `my_ble_core.c`) | transfer under way, waiting response, receive slot, packet timer, notification buffer | receive, send, acknowledge, time out, connect, disconnect | clean-up in another thread; late answers; left-over bytes | what the app takes for a response is one; every transfer ends |
| Ring buffer (`my_ring_buf.c`) | head, tail | write (interrupt), read, clear | clear against an interrupt | bytes in order, none twice |
| Power management (`my_pm.c`) | device states, bus reference count | resume, suspend | failing callbacks and roll-back | state says what the device is |
| Persistent parameters (`my_zms_param.c`), commands (`my_cmd_setting.c`), shell, control, magnetic UART, log, tools, watchdog | configuration, filters, pins | parsing, sampling, driving pins | mostly sequential | see the component notes in `PROJECT.json` |

Interactions. Scan and upload calls the store (one region per record type) and
`lte_send_command`; the LTE thread turns acknowledgement lines into messages
`MY_MSG_UPLOAD_TAG_AND_MAC` and `MY_MSG_BLE_SENSOR_LTE_ACK` for the BLE thread.
The 4G module's power-on leads to an upload wake-up. App DFU runs in the BLE
thread and in the OTA work queue, the 4G download in the LTE thread; both call
the image writer, whose busy flag also keeps the LTE UART and the module on. The
main thread steers the BLE and g-sensor threads by messages and the module's
power through the LTE thread; responses for the phone come from the BLE thread's
own commands and, as messages, from the LTE thread.

The hazards that follow from this are listed in `PROJECT.json`, each at its line
and with the properties that would notice it.

## 2. Modules

| Module | Models | Notes |
|---|---|---|
| `RecordQueue` | what a region promises: a FIFO queue read in sessions | abstract specification |
| `FlashStore` | `my_flash_store.c`, one region | implements `RecordQueue` |
| `FlashStoreProofs`, `FlashSessionProofs` | proofs about `FlashStore`: its ring, its records | |
| `ScanUpload` | `my_ble_scan.c`, with the store as four record queues and the 4G module as its environment | uses the promise `FlashStore` is shown to keep |
| `ScanUploadProofs` | proofs about `ScanUpload` | |
| `Ota` | `my_ota_flash.c`, `my_dfu_jimi.c`, `my_dfu_lte.c` and the save path of `my_ymodem.c` | both users and the writer in one module: the faults are between them |
| `OtaProofs` | proofs about `Ota` | |
| `Ymodem` | `my_ymodem.c`: the receiver against the sender of the same file | what the save callbacks do is in `Ota` |
| `YmodemProofs` | proofs about `Ymodem` | |
| `LteLink` | `my_lte.c`: queues, semaphore, UART, power, update handshake | what the lines mean is in `ScanUpload` and `Ota` |
| `LteLinkProofs` | proofs about `LteLink` | |
| `WorkMode` | `main.c`: work modes, low-power running, shutdown; the motion check of `my_gsensor.c`; the settings of `my_cmd_setting.c` that change them | how commands reach the module is in `LteLink` |
| `WorkModeProofs` | proofs about `WorkMode` | |
| `BlePacket` | response transport of `my_ble_app.c`, notifications and connection of `my_ble_core.c` | |
| `BlePacketProofs` | proofs about `BlePacket` | |
| `MCFlashStore`, `MCScanUpload`, `MCOta`, `MCYmodem`, `MCLteLink`, `MCWorkMode`, `MCBlePacket` | small instances | constants only |

### FlashStore

State: the fields of `fs_region_t` under their own names, the sectors, the meta
record, and five history variables (records pushed, handed out in the session,
promised at its start, confirmed, and doubled, see below). A record is its arrival
number. Actions: one per function; `fs_region_push` is split by its outcome (dropped
during an upload with a full buffer, staged, flushed, flushed in vain), `read_next`
by where the record comes from. Failing flash reads and ZMS calls are alternatives
of the actions that make the calls. A sector write may fail after any number of its
records (`PushFailed`), or lose power there (`PowerLossInFlush`); `PowerLoss` clears
RAM. In a full ring the sector being written is the oldest pending one: a write that
fails halfway leaves records both in the pending window and in the staging buffer.
`doubled` collects them, whether the window is the one in use or the saved one. The sector header and
`seq_counter` are written and never read by the code and are left out.

### ScanUpload

One action per message handler of the BLE thread, one for the radio, one for
each side of the link. A record is its capture number, which serves as its time
stamp: the clock is taken not to be set back, which the 4G module could do
(`my_lte.c:2379`, `2740`). `wire` and `acks` are the commands and acknowledgements
under way; `Lossy` lets them disappear, `Faults` lets radio, memory and flash calls
fail. With `Faults` a command may also not be handed over: the queue of the LTE
thread is full, which `my_send_msg_data` tells nobody, or the allocation of
`lte_send_command` fails, whose result a round does not look at (`Send`). `unsent`, a
history variable, says that this happened to the last command. A wake-up
is posted with every report of the module, repeated ones too, and by alarms and mode
switches (`my_scan_upload_on_lte_wakeup`). `my_scan_set_config` is one action at any
moment. Timer periods are abstracted: a timer that runs may expire.

### Ota

Sizes are in units of 128 bytes, the granularity of the protocol's packets: an image
is a whole number of units, so the last packet needs no rounding up to 16 bytes for
the cipher (`my_dfu_jimi.c:122`), and the 4G module sends frames as large as the cache,
not the short ones of 128 bytes that the receiver takes too (`my_ymodem.c:876`). The
unit at position `i` of the image of source `s` is `<<s, i>>`, so that content
can be compared. One action per handler of the app protocol, for the wait
timer, the two work items, the YModem callbacks, the final check and the reset.
The app is external: it answers a request or not, starts at most `MaxStarts`
updates and sends at most `MaxEnds` ENDs. A work item that has been submitted
runs even if the timer has been stopped since, as in Zephyr. A flash write that
fails may leave the block spoilt, and its read-back may leave the cache spoilt.
`CanLost` lets the CAN byte of a failed save be missed by the 4G module. Low
battery, which makes `jimi_dfu_start` ignore a START, is the same as a lost
packet. `owner` is a history variable: the code does not record who holds the
session.

### Ymodem

The line carries frames (their head byte and their body, so that a receiver that
reads at the wrong place reads something else) one way and single bytes the
other; it may lose or corrupt any of them. A body knows its number, data and
whether its check (CRC16 or checksum) is intact under the one that the reader
expects. Receiver and sender are one step per wait: the handshake with its
fallback to the checksum, the first frame, data frames with numbers modulo
`SeqCount`, the end-of-transfer bytes, the batch branch. A wait ends with what
arrived or, when its own input is empty, with a timeout: both ends use the same three
seconds. The sender is compiled out of the firmware (`MY_YMODEM_ENABLE_SEND 0`)
and stands for the 4G module.

Two histories help to say what is right. An atom carries the file `f` and the
number `k` of its frame, which neither end reads. `apart` records that a number
on the line no longer tells which frame it is, in which case the code does save
wrong blocks and only the CRC32 over the image notices: the sender, led on by
acknowledgements of repeated frames, is more than `SeqCount` blocks ahead of what
the receiver holds, sends data of a file that the receiver has not opened, or
ends a file before the receiver saw its end (`RunsAhead`); or the head of a frame
was lost and its number is 4, which the receiver reads as EOT
(`NumberTakenForEot`). With 256 numbers the first takes 256 blocks that are all
acknowledged by stale answers; the last, one lost byte in front of block 4, 260
and so on.

### LteLink

`pc` is the place of the LTE thread: it blocks inside its handlers (for the
semaphore, for the wake-up bytes, in the delays of a power-off), and between any
two of its steps the UART completes, receives, a timer expires, the wake-up pin
is pulsed or another thread posts. Commands are their number in posting order,
received lines their kind. `lte_send_command` is atomic (both its messages, in
the posting thread), one YModem transmission stands for all of an update, and
long time spans pass only when the thread is quiet. The module repeats its
report of being up until it is heard. Factory mode and the retransmission queue
(`RETRANSMIT_CHECK_ENABLED 0`) are left out. `forced` is a history variable: the
semaphore was given by a path that did not wait for the completion.

### WorkMode

Three bounded queues: main, BLE (only entering and leaving low-power running)
and g-sensor. The battery is its place relative to the threshold and the exit
margin, smart mode's parameters are the constant `Policy`: what the wake-up timer
does in each motion state. One action per message of the main thread and of the
two others, per command that changes a mode, and per timer; handlers are atomic,
since only the main thread writes the mode and low-power state apart from the
commands modelled. Initialising the sensor succeeds. Short key presses and the
messages of firmware updates are left out; the upload that follows a wake-up is
in `ScanUpload`. BT_UPDATA is in two steps, its look at the low-power flag and the
configuration of the scan. The module goes down in two: `my_lte_handle_power_off`
answers its request, tests `g_shutdown_request` and posts the power-off to the LTE
thread; until `my_lte_pwroff_handle` clears `g_bLteReady` the module is "leaving",
or "cycling" if a power-on is queued behind. A PWROFF sent in between is behind the
power-off in the LTE thread's queue and waits, in the pending queue, for the next
start (`pwroff`); one that `lte_send_command` drops is forgotten. The power-off does
nothing while an update or the factory test is under way. `OnLongPress` stands for
the three callers of `go_to_shutdown`; the other two (`my_cmd_setting.c:1688`,
`my_lte.c:1873`) run it in the thread of a command, without the key's command. What
a thread switch inside it can lead to, a request made on a stale `g_bLteReady`, is
that of a request made while the module is leaving.
History variables: `barred` (the user left low-power running by hand and nothing
has lifted that since), `lost`, and `scanBy`, what decided last whether to scan: the
mode, a switch by hand out of low-power running, which tells the BLE thread nothing,
or a BT_UPDATA.

### BlePacket

A response is a number and a size in units; the MTU of the moment decides how
many units fit into a part. Below an MTU of 39 (the default is 23, `my_ble_app.c:70`)
the room of a packet wraps: the whole response goes out as one part, or is refused
and the transfer stays busy (`BeginNarrow`). A packet is `PacketCells`
cells of the notification buffer and a notification carries up to `NotifyCells`
of them, so that left-over cells shift what follows as they do in
`ble_server_send_notification`. A handler of the BLE thread that sends is in steps
(`job` holds what is still to be done): the decision with the clearing of
`s_packet_trans_data` (`StartTransfer`), the copying of the response with
`is_busy = true` and the choice of the packet (`Begin`), and the notification with
the start of the timer (`Transmit`). The Bluetooth thread disconnects and cleans up
between any two of them, and in the middle of the copying: the data, or the data and
the length, are then zero although the transfer is busy (`Torn`). A new connection
takes longer than the rest of a handler. The
app, external, puts parts together by their numbers and answers late, twice or
never. Other senders of notifications (log, update) are one more actor. `tainted`
is a history variable: a transfer began while an answer or a packet of an
earlier one was still under way, or with zeroed data, or with an MTU below 39; the
answer that is being handled does not count, so a response that waited and goes out
on the confirmation of the one before is no exception. `narrow` is the last case
alone. `PartsAssumption` bounds the parts of a response by 256: the code's
longest response (1024 bytes) has about a hundred, and with more the number of a
part would run into the one that marks the last.

## 3. Runs

Runs that pass:

| Run | Instance | Shows |
|---|---|---|
| `flash_store` | two sectors of two records, seven records, all faults | type, ring and cursors consistent; no unmarked slot in the window; a session is frozen; a commit is exact; what was confirmed never returns, across power losses, except records a failed write doubled |
| `flash_store_queue` | three sectors of two, nine records, no ZMS failures, sector writes that fail halfway only in a free sector | the region implements `RecordQueue` |
| `scan_upload` | tables of two and one, rounds over table and store, losses, one power cycle of the 4G module | time order in flash, lock step of commands and acknowledgements, rounds send what they announced, only received records are deleted |
| `scan_upload_live` | one reconfiguration, faults, reliable link | uploads never overlap, sessions never leak, scanning pauses only for a round, and every upload ends unless its last command was never handed over |
| `ota` | cache of two units, partition of eight, one source at a time, two sessions each, faults | the writer's books agree; only complete images are marked |
| `ota_live` | app, 4G module or both at once, faults, lost CAN; the app may fall silent at any point, two STARTs, images of three units and one | a download that has begun ends, or asks for zero bytes from some point on |
| `ymodem` | YModem and XModem, two files of five units in blocks of one and two, numbers modulo three, two faults | blocks are saved in order and once as long as the ends are not apart; without a fault, success means the whole file although both ends may time out early; both ends return |
| `lte_link` | message queue of two, one pending command, one line in the ring, two commands, two wake-up pulses, one update, one failing call | the semaphore is taken exactly while a transfer is under way, commands leave in order and once, the UART goes back to sleep after lost messages |
| `work_mode` | boot in smart mode, long-life mode by command, queues of two, two inputs of any kind, the module goes down once by itself | a choice by hand is not undone; settled, mode, timer, sensor and module agree, and the device scans exactly outside low-power running, but for two stated exceptions; a low battery enters and a charged one leaves low-power running; a shutdown whose PWROFF was handed over completes unless the module stays off |
| `ble_packet` | responses of one and three units, one repetition, queue of two, buffer of two packets, two connections, one fault | no transfer is stuck; the app never takes anything but a whole response; completed transfers were received; every transfer ends; each with its stated exceptions |

Runs that find what the code does against its own comments (`findings`):

| Run | Result |
|---|---|
| `flash_store_room` | a push after a rewind can write one record past the staging buffer |
| `ota_can` | a failed flash write and a missed CAN end in an upgrade request for an incomplete image |

Behaviour that no property rules out:

* Store: a sector written before a power loss is lost if its meta save did not
  happen, because the sector headers are never read back. In a full ring a sector
  write that fails halfway has replaced pending records by staged ones (`FlushFails`,
  `my_flash_store.c:316`): those are uploaded twice, the replaced ones never, and a
  record confirmed from one copy can be offered again from the other. It is the
  exception of `ConfirmedStaysConfirmed` (`doubled`); TLC reaches it in ten steps.
* Uploads: results heard during a round are erased with the table at its end
  (`my_ble_scan.c:1687`); after a reconfiguration a late acknowledgement is taken
  for the next round's; a power cycle of the module during a round leaves the
  round waiting (2122); in mode 1 a scan upload put off by a sensor upload waits
  for the next power-on (1605); a lost acknowledgement is not made up for (1376). A
  command that is not handed over, which a round never notices (979, 1053, 1634,
  1657, 1694, 1723, 1756), leaves its upload waiting just as long, with a module that
  is up and answers: the exception of `UploadsEnd`, which TLC reaches.
* Updates: a late app packet goes into the cache of a 4G session
  (`my_dfu_jimi.c:381`); a START without SIZE occupies the session until a reset
  (248), unless a late packet or repetition of the session before it goes on with the
  old size: its request address can then be at the end of the file before the image
  is complete, and requests for zero bytes are repeated as long as the app answers
  them (`AsksForNothing`, the exception of `DownloadEnds`, which TLC reaches); in the 6.5 s between an upgrade request and the reset another session can
  replace the marked image (401); a repeated first YModem frame is read shifted
  by one and refused (`my_ymodem.c:1044`).
* 4G link: `wakeup_pending` stays set if its message is dropped or purged
  (`my_lte.c:520`); a command posted just before a power-off waits for the next
  power-on, for which nothing asks (`my_cmd_setting.c:174`); a full pending queue
  drops its oldest command (`my_lte.c:1046`); a second sensor acknowledgement
  overwrites the first before it is read (2752).
* Work modes: a switch by hand during low-power running does not resume scanning
  (`main.c:375`), and a BT_UPDATA accepted just before low-power running begins starts
  the scan in it (`my_cmd_setting.c:2188`): the exceptions of `SettledAgrees`, both
  reached by TLC. A shutdown requested while the module is being switched off waits
  until the module is started for another reason, and one whose PWROFF is dropped
  until the module switches itself off (`main.c:721`): what `ShutdownCompletes`
  excepts, and TLC reaches both. A motion check queued before a switch to long-life mode stops
  the wake-up timer that the switch started (`my_gsensor.c:404`); the smart-mode
  timer is set only when the motion state changes (`main.c:515`), and several
  messages start it again during low-power running (807); two racing MODESETs
  leave a stored mode that is not the one in force (`my_cmd_setting.c:3297`).
* Responses: a late or second answer of an earlier transfer, or bytes of it left in
  the notification buffer, can be taken for one of the present transfer. A clean-up
  that falls between lines 1188 and 1191 of `my_ble_app.c` does not end the transfer,
  because `is_busy` is set behind it: after a new connection within the 2 s of the
  timer the repetition sends zeros, which the app takes for a response, and with a
  cleared length a single packet is refused (822) and the transfer stays busy, without
  a timer, until the next disconnect. With an MTU below 39 the length of the first part
  wraps (1209). A message dropped by a full queue leaves a transfer busy until the
  disconnect. These are the exceptions of the properties (`tainted`; `narrow`, `lost`
  and `cur.resp.size = 0`); TLC reaches each, and without one of them the property
  fails. A response stored right after the clean-up of a disconnect goes to the next
  connection (1181).

Bounds. Two sectors are the least ring in which the oldest sector is overwritten
while another survives, and two records per sector the least in which a sector
is partly confirmed; seven records fill the ring and the staging buffer and
start over. Tables of one or two entries are full after one or two captures,
and three TAG captures make a full table, a stored record and a newcomer during
a round; `MaxAll` lets the MAC record or the sample come on top of them, or both with
two TAG captures. A cache of two units with packets of one or three units meets a packet
that is limited by the MTU, by the room in the cache and by the rest of the
file; images of seven and three units end in a padded block, the larger one in
the last sector, which holds MCUboot's mark; `ota_live`, where a second START has to
meet what the first left behind, has images of three units and one. `MaxRepeat` is 1 instead of 10: the
code only compares the counter with its limit. In `Ymodem` numbers wrap inside one
file, and two faults are needed for a stale acknowledgement to meet a lost block;
limits of two repetitions are reached. Numbers below three never read as EOT: that
case is left to the proof. Queues of two messages overflow with one
message of each of two senders in them, which is where drops begin; in `LteLink`
one pending command makes the second one push it out. `WorkMode` starts with a
low battery and in smart mode, so that two inputs suffice for entering low-power
running, leaving it by hand, and a check, a motion or a command that meets the
switch. In `BlePacket` three
units make three parts (first, middle, last), lengths wrap at four, and a
notification of one and a half packets carries a left-over and the start of the next
packet; parts of several sizes are left to the proof.

Deadlock is not checked in `ScanUpload`, `Ota`, `Ymodem`, `WorkMode` and
`BlePacket`, where a device with nothing to do and an exhausted bound may rest.
In `LteLink` it is, because the device's own 60-second pulse timer always expires
again, and in `FlashStore`, which can always lose its power.

Fairness. `ScanUpload`: the BLE thread handles its messages, the LTE thread
forwards, and the 4G module comes up when a command waits and answers; the
scanner and the samples are free to stop. `Ota`: timers expire, the work queue
and the threads run, a YModem transfer ends by itself (each of its waits is
bounded); the app and the 4G module may go away at any time. `scan_upload_live`
excludes losses on the line: retransmission is compiled out (`inc/my_lte.h:85`), so a
lost command or acknowledgement leaves an upload waiting. A power cycle of the 4G
module does not end the wait, since a wake-up passes over a round that waits (2122)
and a sensor upload that is busy (1310); a reconfiguration does, which entering and
leaving low-power running are too, as does an acknowledgement left from before, or a
restart of the device.
`Ymodem`: both ends run and their waits time out. `LteLink`: the thread runs,
started transfers complete, timers expire, and a module that is starting reports
once it is heard; commands, lines and pulses on the wake-up pin may stop. `WorkMode`: the main thread
and the LTE thread run, the module starts when powered, and one that has PWROFF asks
to be switched off; nothing makes the module hear a command that was dropped or that
waits for its next start. The measurement of the battery has strong fairness: it happens at moments of its own
and its message is dropped only if the queue is full then, so if there is room
again and again, one gets in. `BlePacket`: the BLE thread runs and its timer
expires; nothing is assumed of the app or the connection.

## 4. Proofs

All are for arbitrary values of the constants, under the assumptions named in
the modules (sizes are positive, bounds are natural numbers; in `Ota`, sectors
are multiples of the cache and the partition of sectors; in `BlePacket`, a response
has at most 256 parts and its length is below the width of its type).

* `FlashStoreProofs`: `TypeCorrect`, `RingStaysConsistent`,
  `CursorsStayInBounds`. The inductive invariant `IInv` is the conjunction of
  the three. None is inductive alone: a commit keeps the ring consistent only
  because the cursors have not passed the valid sectors, and the cursors stay in
  bounds only because no flush moves the ring during a session. The arithmetic
  of the ring (division and remainder by the sector size) is in five lemmas.
* `FlashSessionProofs`, about the records: `WindowStaysMarked`,
  `SessionStaysFrozen`, `CommitsAreExact`, `ConfirmedNeverReturns` and the
  refinement `StoreImplementsQueue`. On top of `IInv`: `MarkInv` (every slot of the
  window in RAM and of the window that was saved holds a record; both are needed,
  since a restart goes back to the saved one), `SessInv` (what a session handed
  out, what it will hand out and what it promised agree record by record),
  `Distinct` (record numbers are stored once) and `ConfInv` (no confirmed record is
  in either window or in staging); the last two except the records in `doubled`, and
  speak of the sectors of the two windows only (`Held`), because a failed write leaves
  remains in a free sector until the next flush overwrites them. The refinement is
  proved step by step for `Faults = FALSE`, where ZMS calls succeed and a write that
  stops halfway hits no sector of a window: initial states map to the empty queue, and each operation
  to one of the queue's or to none; `SavedInv` says that the saved pointers are the
  ones in use, so that a restart loses the staging buffer only. Most lemmas are
  about the ring: how a window reads after a flush, a discarded sector or a commit.
* `ScanUploadProofs`: `UploadsNeverOverlap`, `SessionsNeverLeak`,
  `ScanningPausesOnlyForRounds`. The inductive invariant `UploadInv` is again
  their conjunction, with the form of the control state: a round opens its
  sessions only because no sensor upload is under way, and the resets close the
  right session only because sessions and states correspond. Then, each step being
  sorted into one of a few cases (`StepCases`) by what it does to the regions, the
  tables and the link: `ScanResultsStayInTimeOrder` (`DataInv`: what is stored was
  captured before what is in the table, and the table before what is still to
  come), `ScanUploadTypes`, `LinkInLockStep` (`LockInv` adds that nothing is under
  way when no upload is), `OnlyReceivedCommitted` (`GotInv`: what was handed out has
  been received, or is in the one packet under way, and it has been received once
  an acknowledgement is) and, without failing calls, `RoundsSendWhatTheyAnnounce`
  (`SendInv`). `StoredInTimeOrder` needs that every table has an order by time:
  the library's induction theorems cannot be used here, but its theorem that a set
  of natural numbers has a least member can, so the proof takes the shortest table
  without one (`LeastNat`).
* `OtaProofs`: `WriterKeepsItsBooks`, that is `CacheInStep`, and `OtaTypes`, with
  both users active, any failures and a missed CAN. `WriterInv` adds that packets,
  request addresses and the receiver's counters are natural numbers; `AskInv` that
  the app is only asked for units of its own image, and only if that fits, so that
  no unit outside the partition is ever written. `OnlyCompleteImagesAreMarked`
  (`UpgradeOnlyComplete`) assumes that the sources are at work one at a time and
  that no CAN is lost, as the run does; `ota_can` shows that the second
  assumption cannot be dropped. For the app (`BleInv`), the request address may be
  ahead of the writer, after a session that was broken off and taken again without
  a new size; the packets under way end within the image, so the writer, being
  behind, cannot complete its count with them. Where the two agree, the image is in
  its place up to the writer's position (`Prefix`), in the partition below the
  block address and in the cache above. For the 4G module (`LteInv`) the units
  sent, saved and counted agree, and a complete image leaves nothing in the cache
  for the last flush.
* `LteLinkProofs`: `TypeCorrect`, `SemaphoreCorrect`, `InOrder`. `SemInv` adds to
  `SemGuardsTransfer` that the owner about to transmit finds the line free.
  `OrderInv` says where the numbers of commands can be: those in the message queue
  ascend and exceed those pending, which exceed the last one sent, and a module
  that is ready, outside the step that drains, has nothing pending, so that a
  command sent at once overtakes none.
* `WorkModeProofs`: `TypeCorrect`, `HandRespected`, `SettledCorrect`. `HoldInv`: a
  barred device has its hold-off set and its battery low, and the check that clears
  the hold-off needs the battery not to be low. `SettledInv` states of each thing
  that has to agree that it agrees already or that the last message of its queue
  will make it so (a mode that is not in force has its switch in the queue; the
  last message of the g-sensor queue leads where the mode wants it, that of the BLE
  queue where `scanBy` says: `ScanTarget`; a module from its report to the cut of its
  power was told of low-power running or a SYNC is queued); with empty queues that is
  `SettledAgrees`.
* `BlePacketProofs`: `TypeCorrect`, `NeverStuckCorrect`, `NeverMixedCorrect`,
  `CompletedReceivedCorrect`. `NeverStuck` is inductive
  with the types, with the fact that a busy transport has a response (its size
  decides whether a part is the last one), and with the fact that a repetition
  finds a packet to repeat unless the connection has ended, so that it starts the
  timer. A timeout that finds nothing to wait for is harmless only because
  `NeverStuck` holds before it: no handler is running, so no transfer is busy.
  `NeverMixed` and `CompletedReceived` follow from `Mix`, an invariant until `tainted`
  holds. It relates four things that never change together: the notification buffer,
  the app, its answers and the transport. `LineOK`: the packets in the buffer are
  parts of one response in their order, each perhaps repeated, and each is one that
  the app has, expects or ignores. `UnderWay`, of the packet recorded last: the app
  has it or expects it, and in front of it is at most the part before it, as long as
  the app does not have it. `Answered`: an answer to that packet, in the receive
  buffer or on its way, means that the app has it, and no answer to a later part is
  behind it; the second half is what makes the next part start unanswered.
  `Sending` is the same between a handler's decision and its notification, and
  `Aside` says that a handler met by a disconnect sends nothing. The core is what one
  packet does to the app (`TakeEffect`), from which `DeliverKeeps` and `NotifyKeeps`
  follow for whole notifications, shifted or not. `Mix` was checked with TLC on the
  instance of the run, and with responses of one and four units in part, before it
  was proved.
* `YmodemProofs`: `YmodemTypes` (`Form`: the loops of both ends are strictly below
  their limits while they go on, and what is on the line names files and numbers
  that exist) and `BlocksStayInOrder`, that is `SavedInOrder`. `LineInv` orders
  everything on the line by file and number and puts nothing beyond the sender; it
  holds whatever goes wrong, since reads, losses and corruption only thin the line
  (`Thinned`). `SaveInv` adds, while no save fails and the ends are not apart: before
  the file is open no answer is an ACK, so that the sender cannot have left its
  first frame (`PreInv`); afterwards the receiver holds exactly the first `e` blocks,
  expects number `e + 1` modulo `SeqCount`, and all that is on the line lies between
  `e` and `e + SeqCount` in its file, or behind the file's end once the receiver has
  seen it (`FrameInv`). In that window the number determines the block
  (`NextBlock`), which is why `SavedInOrder` alone is not inductive. For the sender
  it is shown that only an ACK takes it to another number (`Way`). No assumption
  relates the size of the file to `SeqCount`.
  `OkMeansComplete`, that is `OkComplete`, holds whether or not the ends are apart,
  so `SaveInv` does not help: its window excludes a sender that stale answers carry
  ahead. `WholeInv` says instead, as long as the line and the saves are intact, that
  the frames on the line are a chain in which each is a repetition or the successor
  of the one before it (`Chain`), that the last one is the one the sender is at
  (`LastSent`), and that the next one to be read repeats or succeeds the receiver's
  position (`NextIs`): the sender can be far ahead, but what it sent on the way is
  still on the line. An EOT is therefore read only behind the last block, and what
  ends a session behind its EOT.

Only model-checked: liveness (`UploadsEnd`, `DownloadEnds`, `BothReturn`,
`UartSleeps`, `LowBatteryEnters`, `ChargedExits`, `ShutdownCompletes`,
`TransferEnds`), which is out of the prover's reach. Every invariant and every action
property of the passing runs is stated by a theorem.

## 5. Plan

In this order:

1. `RingBuf` (`my_ring_buf.c`): interrupt producer, thread consumer and clear;
   implements a bounded byte queue, with a proof.
2. `PmDevice` (`my_pm.c` 425-761): device states, bus reference count, failing
   callbacks and the roll-back whose result hides the failure (653).
3. `ScanTable` (`my_ble_scan.c` 100-722, 1840-2249): ADV cache, filters, list of
   MACs to pass through, whose table keeps entries of removed addresses (1863).
4. UART sleep of `my_magnetic_uart.c`, key and alarm latching of `my_ctrl.c`,
   parameter storage of `my_zms_param.c`, preemption of the BLE thread by the shell
   (`my_shell.c:941`).

Not modelled and not planned: the SDK, formatting and parsing of command text,
cryptography and checksums (content is compared instead), floating-point
arithmetic of the IMU, logging, and the watchdog, whose feeding timer has no
state.
