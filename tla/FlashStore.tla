----------------------------- MODULE FlashStore -----------------------------
(***************************************************************************)
(* One region of the circular flash store of my_flash_store.c.             *)
(*                                                                         *)
(* Records are collected in a RAM staging buffer; a full buffer is written *)
(* to flash as one sector of a ring of RegionSectors sectors.  Upload      *)
(* sessions read records without consuming them; a commit advances the     *)
(* read pointer and saves the ring pointers (the "meta" record) in ZMS.    *)
(* All operations run in the BLE thread, one at a time; what interrupts    *)
(* them is a power loss, which keeps flash and ZMS and clears RAM.         *)
(*                                                                         *)
(* A record is its arrival number.  seq_counter and the sector header are  *)
(* written but never read by the code and are left out.                    *)
(***************************************************************************)
EXTENDS Integers, Sequences

CONSTANTS
  RecPerSector,    \* rec_per_sector
  RegionSectors,   \* region_sectors
  MaxRec,          \* bound on the number of records ever pushed
  Faults           \* ZMS calls may fail, and a sector write that stops halfway
                   \* may be cut by a power loss or hit pending records

ASSUME SizeAssumption == /\ RecPerSector \in Nat \ {0}
                         /\ RegionSectors \in Nat \ {0}
                         /\ MaxRec \in Nat
                         /\ Faults \in BOOLEAN

VARIABLES
  s_inited,            \* my_flash_store_init has succeeded since power-on
  wr_sector,           \* next sector to write
  rd_sector,           \* oldest sector with unconfirmed records
  valid_sectors,       \* number of sectors that hold data
  rd_rec_idx,          \* confirmed records at the start of rd_sector
  read_offset,         \* flash records read in this session
  staging_read_idx,    \* staged records read in this session
  upload_staging_snap, \* staged records that belong to this session
  upload_active,       \* an upload session is open
  staging,             \* staging_buf[0 .. staging_count-1]
  flash,               \* sector -> slot -> record
  meta,                \* the meta record in ZMS, or NoMeta
  pushed,              \* history: number of records pushed so far
  session,             \* history: records handed out in this session
  promised,            \* history: what was pending when the session opened
  confirmed,           \* history: records whose commit reached ZMS
  doubled              \* history: records a failed write left both staged and
                       \* in a sector of the pending window

ptrs   == <<wr_sector, rd_sector, valid_sectors, rd_rec_idx>>
sessv  == <<read_offset, staging_read_idx, upload_staging_snap, upload_active>>
hist   == <<session, promised, confirmed>>
vars   == <<s_inited, ptrs, sessv, staging, flash, meta, pushed, hist, doubled>>

Sector == 0 .. RegionSectors - 1
Slot   == 0 .. RecPerSector - 1
Rec    == 1 .. MaxRec
NoRec  == 0     \* a slot without the FS_REC_MAGIC mark
NoMeta == [wr |-> 0, rd |-> 0, valid |-> 0, idx |-> 0, ok |-> FALSE]
Meta   == [wr : Sector, rd : Sector, valid : 0 .. RegionSectors,
           idx : 0 .. RecPerSector, ok : BOOLEAN]

-----------------------------------------------------------------------------
(* What is pending: the flash window from the confirmed position, then the *)
(* staged records.                                                         *)

FlashTotal == IF valid_sectors * RecPerSector >= rd_rec_idx
              THEN valid_sectors * RecPerSector - rd_rec_idx
              ELSE 0

\* my_flash_store_pending_count
PendingCount == FlashTotal + Len(staging)

\* The slot read_next computes for the record `off` places after the
\* confirmed position.
FlashRec(off) ==
  LET abs_rec == rd_rec_idx + off
  IN  flash[(rd_sector + abs_rec \div RecPerSector) % RegionSectors]
           [abs_rec % RecPerSector]

Pending == [i \in 1 .. FlashTotal |-> FlashRec(i - 1)] \o staging

\* The flash records the saved meta record makes pending after a boot.
DurablePending ==
  [i \in 1 .. meta.valid * RecPerSector - meta.idx |->
     LET abs_rec == meta.idx + i - 1
     IN  flash[(meta.rd + abs_rec \div RecPerSector) % RegionSectors]
              [abs_rec % RecPerSector]]

\* The sectors of the window in use and of the window a boot would load.
WindowSectors(rd, n) == {(rd + j) % RegionSectors : j \in 0 .. n - 1}
Held == WindowSectors(rd_sector, valid_sectors) \cup WindowSectors(meta.rd, meta.valid)

-----------------------------------------------------------------------------
ResetForgetsStaging == /\ read_offset' = 0
                       /\ upload_staging_snap' = 0
                       /\ upload_active' = FALSE
                       /\ UNCHANGED staging_read_idx
ResetSession == /\ read_offset' = 0
                /\ staging_read_idx' = 0
                /\ upload_staging_snap' = 0
                /\ upload_active' = FALSE

CloseHistory == session' = <<>> /\ promised' = <<>>

\* fs_meta_save of the pointers the step leaves behind.
MetaSave(ok) ==
  meta' = IF ok
          THEN [wr |-> wr_sector', rd |-> rd_sector', valid |-> valid_sectors',
                idx |-> rd_rec_idx', ok |-> TRUE]
          ELSE meta

\* fs_region_reset
RegionReset == /\ wr_sector' = 0
               /\ rd_sector' = 0
               /\ valid_sectors' = 0
               /\ rd_rec_idx' = 0
               /\ ResetSession
               /\ staging' = <<>>

\* The meta record passes the magic, crc and range checks of fs_region_load.
MetaUsable == /\ meta.ok
              /\ meta.wr < RegionSectors
              /\ meta.rd < RegionSectors
              /\ meta.valid <= RegionSectors
              /\ meta.idx <= RecPerSector

\* fs_region_load on a zeroed region; `readable` is the outcome of the ZMS read.
RegionLoad(readable) ==
  IF readable /\ MetaUsable
  THEN /\ wr_sector' = meta.wr
       /\ rd_sector' = meta.rd
       /\ valid_sectors' = meta.valid
       /\ rd_rec_idx' = meta.idx
       /\ ResetSession
       /\ staging' = <<>>
  ELSE RegionReset

\* my_flash_store_init: opening the partition may fail, and then the store
\* stays unusable until the next boot.
my_flash_store_init(readable) ==
  /\ ~s_inited
  /\ s_inited' = TRUE
  /\ RegionLoad(readable)
  /\ UNCHANGED <<flash, meta, pushed, hist, doubled>>

-----------------------------------------------------------------------------
(* fs_region_push                                                          *)

\* The slots of a sector written from the staging buffer.
SectorShort(recs) == [i \in Slot |-> IF i + 1 < Len(recs) THEN recs[i + 1] ELSE NoRec]
SectorOf(recs) == [i \in Slot |-> recs[i + 1]]

NextSectorUnwrapped(s) == s + 1
NextSector(s) == (s + 1) % RegionSectors

\* The sector at the write pointer after the first k slots were written.
SectorTorn(recs, k) ==
  [i \in Slot |-> IF i < k THEN SectorOf(recs)[i] ELSE flash[wr_sector][i]]

\* fs_flush_staging: the flash write fails after k slots.  The newest record
\* is given up and the pointers stay; in a full ring the sector that was
\* partly overwritten is the oldest one of the pending window.
FlushLosesAll(recs, k) == /\ staging' = <<>>
                          /\ flash' = [flash EXCEPT ![wr_sector] = SectorTorn(recs, k)]
                          /\ UNCHANGED <<ptrs, meta>>
FlushFails(recs, k) ==
  /\ staging' = SubSeq(recs, 1, Len(recs) - 1)
  /\ flash' = [flash EXCEPT ![wr_sector] = SectorTorn(recs, k)]
  /\ UNCHANGED <<ptrs, meta>>

\* One more valid sector, or, in a full ring, the oldest one given up.
AdvanceRingKeepsRead ==
  /\ valid_sectors' = IF valid_sectors < RegionSectors THEN valid_sectors + 1
                                                      ELSE valid_sectors
  /\ UNCHANGED <<rd_sector, rd_rec_idx>>
AdvanceRing ==
  IF valid_sectors < RegionSectors
  THEN /\ valid_sectors' = valid_sectors + 1
       /\ UNCHANGED <<rd_sector, rd_rec_idx>>
  ELSE /\ rd_sector' = NextSector(rd_sector)
       /\ rd_rec_idx' = 0
       /\ UNCHANGED valid_sectors

\* fs_flush_staging: the sector is written, the ring pointers move and the
\* meta record is saved.
FlushStaging(recs, metaOk) ==
  /\ flash' = [flash EXCEPT ![wr_sector] = SectorOf(recs)]
  /\ AdvanceRing
  /\ wr_sector' = NextSector(wr_sector)
  /\ staging' = <<>>
  /\ MetaSave(metaOk)

\* A new record meets a full buffer during an upload, and is dropped (-EBUSY).
DropsRecord == upload_active /\ Len(staging) >= RecPerSector

\* The new record fills the buffer, and no upload forbids the flush.
FlushesAnyway == Len(staging) + 1 >= RecPerSector
FlushesNow == Len(staging) + 1 >= RecPerSector /\ ~upload_active

NewRec == pushed + 1

PushStep == /\ s_inited
            /\ pushed < MaxRec
            /\ pushed' = pushed + 1
            /\ UNCHANGED <<s_inited, sessv, hist>>

PushDropped == /\ DropsRecord
               /\ PushStep
               /\ UNCHANGED <<ptrs, staging, flash, meta, doubled>>

PushStaged == /\ ~DropsRecord /\ ~FlushesNow
              /\ PushStep
              /\ staging' = Append(staging, NewRec)
              /\ UNCHANGED <<ptrs, flash, meta, doubled>>

PushFlushed(metaOk) ==
  /\ ~DropsRecord /\ FlushesNow
  /\ PushStep
  /\ FlushStaging(Append(staging, NewRec), metaOk)
  /\ UNCHANGED doubled

\* Without Faults a write that stops halfway has hit a sector nobody needs.
PushFailed(k) ==
  /\ ~DropsRecord /\ FlushesNow
  /\ Faults \/ k = 0 \/ wr_sector \notin Held
  /\ PushStep
  /\ FlushFails(Append(staging, NewRec), k)
  /\ doubled' = IF wr_sector \in Held
                THEN doubled \cup {Append(staging, NewRec)[i] : i \in 1 .. k}
                ELSE doubled

-----------------------------------------------------------------------------
(* Upload sessions                                                         *)

\* my_flash_store_upload_begin
my_flash_store_upload_begin ==
  /\ s_inited
  /\ read_offset' = 0
  /\ staging_read_idx' = 0
  /\ upload_active' = TRUE
  /\ upload_staging_snap' = Len(staging)
  /\ session' = <<>>
  /\ promised' = Pending
  /\ UNCHANGED <<s_inited, ptrs, staging, flash, meta, pushed, confirmed, doubled>>

\* The first read of a session that nobody opened opens it.
OpensSession ==
  /\ upload_active' = TRUE
  /\ upload_staging_snap' = IF upload_active THEN upload_staging_snap
                                             ELSE Len(staging)
  /\ promised' = IF upload_active THEN promised ELSE Pending

ReadFrame ==
  UNCHANGED <<s_inited, ptrs, staging, flash, meta, pushed, confirmed, doubled>>

\* Every flash record from read_offset up to offset k is without its mark.
SkippedUpTo(k) == \A j \in read_offset .. k - 1 : FlashRec(j) = NoRec

\* my_flash_store_read_next finds a marked record in flash.
ReadFlash ==
  /\ s_inited
  /\ \E k \in read_offset .. FlashTotal - 1 :
       /\ SkippedUpTo(k)
       /\ FlashRec(k) # NoRec
       /\ read_offset' = k + 1
       /\ session' = Append(session, FlashRec(k))
  /\ OpensSession
  /\ UNCHANGED staging_read_idx
  /\ ReadFrame

\* my_flash_store_read_next: flash_area_read reports an error.
ReadError ==
  /\ s_inited
  /\ \E k \in read_offset .. FlashTotal - 1 :
       /\ SkippedUpTo(k)
       /\ read_offset' = k
  /\ OpensSession
  /\ UNCHANGED <<staging_read_idx, session>>
  /\ ReadFrame

\* my_flash_store_read_next once flash is exhausted: the next staged record
\* of this session, or nothing.
ReadStaging ==
  /\ s_inited
  /\ read_offset <= FlashTotal
  /\ SkippedUpTo(FlashTotal)
  /\ read_offset' = FlashTotal
  /\ OpensSession
  /\ IF staging_read_idx < upload_staging_snap'
     THEN /\ staging_read_idx' = staging_read_idx + 1
          /\ session' = Append(session, staging[staging_read_idx + 1])
     ELSE UNCHANGED <<staging_read_idx, session>>
  /\ ReadFrame

\* my_flash_store_rewind
my_flash_store_rewind ==
  /\ s_inited
  /\ ResetSession
  /\ CloseHistory
  /\ UNCHANGED <<s_inited, ptrs, staging, flash, meta, pushed, confirmed, doubled>>

\* Whole sectors that a commit frees.
ConsumedIgnoresRest == read_offset \div RecPerSector
ConsumedSectors == (rd_rec_idx + read_offset) \div RecPerSector

\* Staged records that a commit leaves, moved to the front of the buffer.
StagingUncompacted == staging
StagingRemain ==
  IF Len(staging) >= staging_read_idx
  THEN SubSeq(staging, staging_read_idx + 1, Len(staging))
  ELSE <<>>

\* my_flash_store_commit: the records read in this session leave the store.
my_flash_store_commit(metaOk) ==
  /\ s_inited
  /\ rd_sector' = (rd_sector + ConsumedSectors) % RegionSectors
  /\ valid_sectors' = IF valid_sectors >= ConsumedSectors
                      THEN valid_sectors - ConsumedSectors ELSE 0
  /\ rd_rec_idx' = (rd_rec_idx + read_offset) % RecPerSector
  /\ staging' = StagingRemain
  /\ ResetSession
  /\ UNCHANGED wr_sector
  /\ MetaSave(metaOk)
  /\ confirmed' = IF metaOk
                  THEN confirmed \cup {session[i] : i \in 1 .. Len(session)}
                  ELSE confirmed
  /\ CloseHistory
  /\ UNCHANGED <<s_inited, flash, pushed, doubled>>

\* my_flash_store_clear
my_flash_store_clear(metaOk) ==
  /\ s_inited
  /\ RegionReset
  /\ MetaSave(metaOk)
  /\ CloseHistory
  /\ UNCHANGED <<s_inited, flash, pushed, confirmed, doubled>>

-----------------------------------------------------------------------------
(* Power loss (external): RAM is gone, flash and ZMS stay.                 *)

RamLost == /\ s_inited' = FALSE
           /\ RegionReset
           /\ CloseHistory
           /\ UNCHANGED <<meta, confirmed, doubled>>

PowerLoss == /\ s_inited
             /\ RamLost
             /\ UNCHANGED <<flash, pushed>>

\* Power fails inside fs_flush_staging, after the first k slots of the sector
\* were written and before the meta record was saved.
PowerLossInFlush(k) ==
  /\ Faults
  /\ s_inited
  /\ ~DropsRecord /\ FlushesNow
  /\ pushed < MaxRec
  /\ pushed' = pushed + 1
  /\ flash' = [flash EXCEPT ![wr_sector] = SectorTorn(Append(staging, NewRec), k)]
  /\ RamLost

-----------------------------------------------------------------------------
\* Possible outcomes of a ZMS call.
ZmsOutcome == IF Faults THEN BOOLEAN ELSE {TRUE}

Init == /\ s_inited = FALSE
        /\ wr_sector = 0 /\ rd_sector = 0 /\ valid_sectors = 0 /\ rd_rec_idx = 0
        /\ read_offset = 0 /\ staging_read_idx = 0
        /\ upload_staging_snap = 0 /\ upload_active = FALSE
        /\ staging = <<>>
        /\ flash = [s \in Sector |-> [i \in Slot |-> NoRec]]
        /\ meta = NoMeta
        /\ pushed = 0
        /\ session = <<>> /\ promised = <<>> /\ confirmed = {} /\ doubled = {}

Next == \/ \E ok \in ZmsOutcome : my_flash_store_init(ok)
        \/ PushDropped
        \/ PushStaged
        \/ \E m \in ZmsOutcome : PushFlushed(m)
        \/ \E k \in 0 .. RecPerSector : PushFailed(k)
        \/ my_flash_store_upload_begin
        \/ ReadFlash \/ ReadError \/ ReadStaging
        \/ my_flash_store_rewind
        \/ \E m \in ZmsOutcome : my_flash_store_commit(m)
        \/ \E m \in ZmsOutcome : my_flash_store_clear(m)
        \/ PowerLoss
        \/ \E k \in 0 .. RecPerSector : PowerLossInFlush(k)

Spec == Init /\ [][Next]_vars

-----------------------------------------------------------------------------
(* Properties                                                              *)

\* Every variable has the range the C types and the code's moduli give it.
TypeOK ==
  /\ s_inited \in BOOLEAN
  /\ wr_sector \in Sector /\ rd_sector \in Sector
  /\ valid_sectors \in 0 .. RegionSectors
  /\ rd_rec_idx \in Slot
  /\ read_offset \in Nat /\ staging_read_idx \in Nat
  /\ upload_staging_snap \in Nat /\ upload_active \in BOOLEAN
  /\ staging \in Seq(Rec)
  /\ flash \in [Sector -> [Slot -> Rec \cup {NoRec}]]
  /\ meta \in Meta
  /\ pushed \in 0 .. MaxRec

\* The write pointer is always the read pointer plus the number of valid
\* sectors, in RAM and in the saved meta record: fs_region_load checks only
\* the ranges of the three, so nothing repairs them once they disagree.
RingConsistent ==
  /\ wr_sector = (rd_sector + valid_sectors) % RegionSectors
  /\ valid_sectors = 0 => rd_rec_idx = 0
  /\ meta.wr = (meta.rd + meta.valid) % RegionSectors
  /\ meta.idx < RecPerSector
  /\ meta.valid = 0 => meta.idx = 0

\* The read cursors of a session never pass the data they index, so the
\* unsigned subtractions of pending_count, read_next and commit cannot
\* underflow and their clamps are never taken.
CursorsInBounds ==
  /\ rd_rec_idx + read_offset <= valid_sectors * RecPerSector
  /\ staging_read_idx <= upload_staging_snap
  /\ upload_staging_snap <= Len(staging)
  /\ Len(staging) <= RecPerSector
  /\ ~upload_active => read_offset = 0 /\ upload_staging_snap = 0

\* No slot between the confirmed position and the write pointer is without
\* its mark, whatever power losses and failed saves came before ("only full
\* sectors are written", read_next): no record is skipped in an upload.
WindowMarked == \A i \in 0 .. FlashTotal - 1 : FlashRec(i) # NoRec

\* What a session has handed out and what it still will hand out is exactly
\* what was pending when it opened (the count START announces), whatever is
\* pushed meanwhile.
SessionFrozen ==
  upload_active =>
    /\ upload_staging_snap <= Len(staging)
    /\ session \o [i \in 1 .. FlashTotal - read_offset |-> FlashRec(read_offset + i - 1)]
               \o SubSeq(staging, staging_read_idx + 1, upload_staging_snap) = promised

\* A commit removes from the front of the pending records exactly the ones
\* this session handed out, and nothing else.
CommitExact ==
  [][\A m \in BOOLEAN : my_flash_store_commit(m) =>
       Pending' = SubSeq(Pending, Len(session) + 1, Len(Pending))]_vars

\* A record whose commit was saved is never offered again, not even after
\* power losses, torn sector writes and failed saves that follow.  The only
\* exception: a failed sector write that stopped halfway inside the pending
\* window leaves the records it wrote there while they are still staged
\* (fs_flush_staging returns without a word about flash), and such a record
\* can be confirmed from one copy and offered again from the other.
ConfirmedStaysConfirmed ==
  \A i \in 1 .. Len(Pending) : Pending[i] \notin confirmed \ doubled

\* The staging buffers hold "the records one sector takes": whenever a push
\* is accepted there is a slot for it inside the buffer.
StagingHasRoom ==
  s_inited /\ ~DropsRecord => Len(staging) < RecPerSector

-----------------------------------------------------------------------------
\* The store implements the record queue (with Faults = FALSE: a ZMS call
\* that fails, a power loss inside a flush, or a flash write that stops
\* halfway in a sector of the pending window, breaks the FIFO order).
Q == INSTANCE RecordQueue WITH
       Records <- Rec,
       Burst   <- RecPerSector,
       ready   <- s_inited,
       queue   <- IF s_inited THEN Pending ELSE DurablePending,
       ram     <- Len(staging),
       open    <- upload_active,
       handed  <- session,
       limit   <- Len(promised)

\* Every operation of the region is an operation of the record queue; a flash
\* write that fails, partly done or not, in a ring with room loses the newest
\* record and nothing else.
ImplementsQueue == Q!Spec
=============================================================================
