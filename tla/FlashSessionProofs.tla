------------------------- MODULE FlashSessionProofs -------------------------
(***************************************************************************)
(* What the flash store does with the records themselves, proved for every *)
(* region size on top of the pointer invariant IInv of FlashStoreProofs.   *)
(*                                                                         *)
(*   MarkInv    every slot of the RAM window and of the saved window holds *)
(*              a record, whatever was torn or left unsaved;               *)
(*   SessInv    a session's cursors, what it handed out and what it        *)
(*              promised agree, record by record;                          *)
(*   Distinct   no record number is stored twice, but for the records that *)
(*              a failed write doubled;                                    *)
(*   ConfInv    no other confirmed record is in a window or in staging;    *)
(*   SavedInv   without faults the window saved for the next restart is    *)
(*              the one in use.                                            *)
(*                                                                         *)
(* From the first four follow WindowMarked, SessionFrozen, CommitExact and *)
(* ConfirmedStaysConfirmed; with SavedInv, step by step, that a store      *)
(* without faults implements the abstract queue RecordQueue.               *)
(***************************************************************************)
EXTENDS FlashStoreProofs, SequenceTheorems

\* Every live slot of a window, `n` sectors from `rd` on without the first
\* `idx` slots, holds a member of S.
SlotsIn(f, S, rd, n, idx) ==
  \A j \in 0 .. n - 1, i \in Slot :
    (j > 0 \/ i >= idx) => f[(rd + j) % RegionSectors][i] \in S

\* The same of the window in RAM and of the window a boot would load.
Live(S) == /\ SlotsIn(flash, S, rd_sector, valid_sectors, rd_rec_idx)
           /\ SlotsIn(flash, S, meta.rd, meta.valid, meta.idx)

MarkInv == Live(Rec)

-----------------------------------------------------------------------------
(* Windows of the ring.                                                    *)

\* Moving along the ring in two parts is moving along it once.
LEMMA RingAdd ==
  ASSUME NEW n \in Nat \ {0}, NEW a \in 0 .. n - 1,
         NEW b \in Nat, NEW c \in Nat, b + c <= n
  PROVE  /\ (((a + b) % n) + c) % n = (a + (b + c)) % n
         /\ (a + b) % n \in 0 .. n - 1
  <1>0. b \in 0 .. n /\ c \in 0 .. n
    OBVIOUS
  <1>1. (a + b) % n = IF a + b < n THEN a + b ELSE a + b - n
    BY <1>0, ModWrap
  <1>2. (a + b) % n \in 0 .. n - 1
    BY <1>1
  <1>3. (((a + b) % n) + c) % n
          = IF ((a + b) % n) + c < n THEN ((a + b) % n) + c ELSE ((a + b) % n) + c - n
    BY <1>0, <1>2, ModWrap
  <1>4. (a + (b + c)) % n = IF a + (b + c) < n THEN a + (b + c) ELSE a + (b + c) - n
    <2>1. b + c \in 0 .. n
      OBVIOUS
    <2> DEFINE d == b + c
    <2>2. (a + d) % n = IF a + d < n THEN a + d ELSE a + d - n
      <3> HIDE DEF d
      <3>1. d \in 0 .. n
        BY <2>1 DEF d
      <3> QED BY <3>1, ModWrap
    <2> QED BY <2>2
  <1> DEFINE q == (a + b) % n
  <1>5. q = IF a + b < n THEN a + b ELSE a + b - n
    BY <1>1
  <1>6. (q + c) % n = IF q + c < n THEN q + c ELSE q + c - n
    BY <1>3
  <1> HIDE DEF q
  <1>7. (q + c) % n = (a + (b + c)) % n
    BY <1>4, <1>5, <1>6
  <1> QED BY <1>2, <1>7 DEF q

\* Two places of a window are the same sector only if they are the same place.
LEMMA RingInjective ==
  ASSUME NEW n \in Nat \ {0}, NEW a \in 0 .. n - 1,
         NEW b \in 0 .. n - 1, NEW c \in 0 .. n - 1, (a + b) % n = (a + c) % n
  PROVE  b = c
  <1>0. b \in 0 .. n /\ c \in 0 .. n
    OBVIOUS
  <1>1. (a + b) % n = IF a + b < n THEN a + b ELSE a + b - n
    BY <1>0, ModWrap
  <1>2. (a + c) % n = IF a + c < n THEN a + c ELSE a + c - n
    BY <1>0, ModWrap
  <1> QED BY <1>1, <1>2

\* Every place along the ring is a sector of it.
LEMMA RingSector ==
  ASSUME NEW a \in Nat, NEW b \in Nat
  PROVE  (a + b) % RegionSectors \in Sector
  <1>1. a + b \in Nat
    OBVIOUS
  <1> QED BY <1>1, SizeAssumption DEF Sector

\* Sectors whose members of S are only replaced by members of S.
LEMMA SlotsMonotone ==
  ASSUME NEW f, NEW g, NEW S, NEW rd \in Sector, NEW n \in 0 .. RegionSectors, NEW idx,
         SlotsIn(f, S, rd, n, idx),
         \A s \in Sector, i \in Slot : f[s][i] \in S => g[s][i] \in S
  PROVE  SlotsIn(g, S, rd, n, idx)
  <1> SUFFICES ASSUME NEW j \in 0 .. n - 1, NEW i \in Slot, j > 0 \/ i >= idx
               PROVE  g[(rd + j) % RegionSectors][i] \in S
    BY DEF SlotsIn
  <1>1. (rd + j) % RegionSectors \in Sector
    BY RingAdd, SizeAssumption DEF Sector
  <1> QED BY <1>1 DEF SlotsIn

\* A commit drops places from the front of a window.
LEMMA SlotsDrop ==
  ASSUME NEW f, NEW S, NEW rd \in Sector, NEW n \in 0 .. RegionSectors, NEW idx \in Slot,
         NEW c \in 0 .. n, NEW m \in Slot, c = 0 => idx <= m,
         SlotsIn(f, S, rd, n, idx)
  PROVE  SlotsIn(f, S, (rd + c) % RegionSectors, n - c, m)
  <1> SUFFICES ASSUME NEW j \in 0 .. (n - c) - 1, NEW i \in Slot, j > 0 \/ i >= m
               PROVE  f[(((rd + c) % RegionSectors) + j) % RegionSectors][i] \in S
    BY DEF SlotsIn
  <1>1. (((rd + c) % RegionSectors) + j) % RegionSectors = (rd + (c + j)) % RegionSectors
    BY RingAdd, SizeAssumption DEF Sector
  <1>2. c + j \in 0 .. n - 1 /\ (c + j > 0 \/ i >= idx)
    BY SizeAssumption DEF Slot
  <1>3. f[(rd + (c + j)) % RegionSectors][i] \in S
    BY <1>2 DEF SlotsIn
  <1> QED BY <1>1, <1>3

\* A flush into a ring with room adds one place.
LEMMA SlotsGrow ==
  ASSUME NEW f, NEW S, NEW rd \in Sector, NEW n \in 0 .. RegionSectors - 1, NEW idx \in Slot,
         SlotsIn(f, S, rd, n, idx),
         \A i \in Slot : f[(rd + n) % RegionSectors][i] \in S
  PROVE  SlotsIn(f, S, rd, n + 1, idx)
  BY SizeAssumption DEF SlotsIn

\* A flush into a full ring replaces the oldest place by a newest one.
LEMMA SlotsRoll ==
  ASSUME NEW f, NEW S, NEW rd \in Sector, NEW idx \in Slot,
         SlotsIn(f, S, rd, RegionSectors, idx),
         \A i \in Slot : f[rd][i] \in S
  PROVE  SlotsIn(f, S, (rd + 1) % RegionSectors, RegionSectors, 0)
  <1> SUFFICES ASSUME NEW j \in 0 .. RegionSectors - 1, NEW i \in Slot
               PROVE  f[(((rd + 1) % RegionSectors) + j) % RegionSectors][i] \in S
    BY DEF SlotsIn
  <1>1. (((rd + 1) % RegionSectors) + j) % RegionSectors = (rd + (1 + j)) % RegionSectors
    BY RingAdd, SizeAssumption DEF Sector
  <1>2. CASE j < RegionSectors - 1
    <2>1. 1 + j \in 0 .. RegionSectors - 1 /\ 1 + j > 0
      BY <1>2, SizeAssumption
    <2> QED BY <1>1, <2>1 DEF SlotsIn
  <1>3. CASE j = RegionSectors - 1
    <2>1. 1 + j = RegionSectors
      BY <1>3, SizeAssumption
    <2>2. (rd + RegionSectors) % RegionSectors = rd
      <3>1. rd \in 0 .. RegionSectors - 1 /\ RegionSectors \in 0 .. RegionSectors
        BY SizeAssumption DEF Sector
      <3>2. (rd + RegionSectors) % RegionSectors
              = IF rd + RegionSectors < RegionSectors THEN rd + RegionSectors
                ELSE rd + RegionSectors - RegionSectors
        BY <3>1, ModWrap, SizeAssumption
      <3> QED BY <3>1, <3>2, SizeAssumption
    <2> QED BY <1>1, <2>1, <2>2
  <1> QED BY <1>2, <1>3, SizeAssumption

\* The place and the slot of the k-th record of a window.
LEMMA SlotOf ==
  ASSUME NEW n \in Nat, NEW idx \in Slot, NEW k \in Nat, idx + k < n * RecPerSector
  PROVE  /\ (idx + k) \div RecPerSector \in 0 .. n - 1
         /\ (idx + k) % RecPerSector \in Slot
         /\ (idx + k) \div RecPerSector > 0 \/ (idx + k) % RecPerSector >= idx
         /\ idx + k = (((idx + k) \div RecPerSector) * RecPerSector) + ((idx + k) % RecPerSector)
  <1> DEFINE a == idx + k
             c == a \div RecPerSector
             m == a % RecPerSector
  <1>0. idx \in Nat /\ a \in Nat /\ a >= idx /\ a < n * RecPerSector
    BY SizeAssumption DEF Slot
  <1> HIDE DEF a
  <1>1. c \in Nat /\ m \in 0 .. RecPerSector - 1 /\ a = (c * RecPerSector) + m
    BY <1>0, DivModSplit, SizeAssumption
  <1> HIDE DEF c, m
  <1>2. c < n
    <2> SUFFICES ASSUME c >= n PROVE FALSE
      BY <1>1
    <2>1. n * RecPerSector <= c * RecPerSector
      BY <1>1, SizeAssumption
    <2> QED BY <1>0, <1>1, <2>1, SizeAssumption
  <1>3. c > 0 \/ m >= idx
    <2>1. CASE c = 0
      <3>1. c * RecPerSector = 0
        BY <2>1, SizeAssumption
      <3> QED BY <1>0, <1>1, <3>1
    <2> QED BY <2>1, <1>1
  <1> QED BY <1>1, <1>2, <1>3 DEF a, c, m, Slot

\* The k-th record of a window is in one of its live slots.
LEMMA SlotAt ==
  ASSUME NEW f, NEW S, NEW rd, NEW n \in Nat, NEW idx \in Slot,
         SlotsIn(f, S, rd, n, idx), NEW k \in Nat, idx + k < n * RecPerSector
  PROVE  f[(rd + ((idx + k) \div RecPerSector)) % RegionSectors][(idx + k) % RecPerSector] \in S
  BY SlotOf DEF SlotsIn

-----------------------------------------------------------------------------
(* Steps that move the windows.                                            *)

\* The saved window after a save that succeeds or fails.
LEMMA SavedSlots ==
  ASSUME NEW S, NEW m \in BOOLEAN, MetaSave(m),
         SlotsIn(flash', S, rd_sector', valid_sectors', rd_rec_idx'),
         SlotsIn(flash', S, meta.rd, meta.valid, meta.idx)
  PROVE  SlotsIn(flash', S, meta'.rd, meta'.valid, meta'.idx)
  <1>1. CASE m
    <2>1. meta'.rd = rd_sector' /\ meta'.valid = valid_sectors' /\ meta'.idx = rd_rec_idx'
      BY <1>1 DEF MetaSave
    <2> QED BY <2>1
  <1>2. CASE ~m
    BY <1>2 DEF MetaSave
  <1> QED BY <1>1, <1>2

\* An empty window has no slots.
LEMMA EmptyWindow ==
  ASSUME NEW f, NEW S, NEW rd, NEW idx
  PROVE  SlotsIn(f, S, rd, 0, idx)
  BY DEF SlotsIn

\* A flush writes the staged records over one sector and moves the windows.
LEMMA FlushLive ==
  ASSUME IInv, NEW S, Live(S), NEW recs, \A i \in 1 .. RecPerSector : recs[i] \in S,
         NEW m \in BOOLEAN, FlushStaging(recs, m)
  PROVE  /\ SlotsIn(flash', S, rd_sector', valid_sectors', rd_rec_idx')
         /\ SlotsIn(flash', S, meta'.rd, meta'.valid, meta'.idx)
  <1> USE SizeAssumption
  <1>0. /\ wr_sector \in Sector /\ rd_sector \in Sector /\ rd_rec_idx \in Slot
        /\ valid_sectors \in 0 .. RegionSectors
        /\ meta.rd \in Sector /\ meta.valid \in 0 .. RegionSectors
        /\ flash \in [Sector -> [Slot -> Rec \cup {NoRec}]]
        /\ wr_sector = (rd_sector + valid_sectors) % RegionSectors
    BY DEF IInv, TypeOK, RingConsistent, Meta
  <1>1. flash' = [flash EXCEPT ![wr_sector] = SectorOf(recs)] /\ AdvanceRing /\ MetaSave(m)
    BY DEF FlushStaging
  <1>2. \A i \in Slot : flash'[wr_sector][i] \in S
    <2> TAKE i \in Slot
    <2>1. flash'[wr_sector] = SectorOf(recs)
      BY <1>0, <1>1
    <2>2. SectorOf(recs)[i] = recs[i + 1] /\ i + 1 \in 1 .. RecPerSector
      BY DEF SectorOf, Slot
    <2> QED BY <2>1, <2>2
  <1>3. \A s \in Sector, i \in Slot : flash[s][i] \in S => flash'[s][i] \in S
    <2> TAKE s \in Sector, i \in Slot
    <2>1. CASE s = wr_sector
      BY <2>1, <1>2
    <2>2. CASE s # wr_sector
      BY <2>2, <1>0, <1>1
    <2> QED BY <2>1, <2>2
  <1>4. /\ SlotsIn(flash', S, rd_sector, valid_sectors, rd_rec_idx)
        /\ SlotsIn(flash', S, meta.rd, meta.valid, meta.idx)
    BY <1>0, <1>3, SlotsMonotone DEF Live
  <1>5. SlotsIn(flash', S, rd_sector', valid_sectors', rd_rec_idx')
    <2>1. CASE valid_sectors < RegionSectors
      <3>1. valid_sectors' = valid_sectors + 1 /\ rd_sector' = rd_sector /\ rd_rec_idx' = rd_rec_idx
        BY <1>1, <2>1 DEF AdvanceRing
      <3>2. valid_sectors \in 0 .. RegionSectors - 1
        BY <1>0, <2>1
      <3>3. SlotsIn(flash', S, rd_sector, valid_sectors + 1, rd_rec_idx)
        BY <1>0, <1>2, <1>4, <3>2, SlotsGrow
      <3> QED BY <3>1, <3>3
    <2>2. CASE ~(valid_sectors < RegionSectors)
      <3>1. /\ valid_sectors' = valid_sectors /\ rd_rec_idx' = 0
            /\ rd_sector' = (rd_sector + 1) % RegionSectors
        BY <1>1, <2>2 DEF AdvanceRing, NextSector
      <3>2. valid_sectors = RegionSectors
        BY <1>0, <2>2
      <3>3. wr_sector = rd_sector
        <4>1. rd_sector \in 0 .. RegionSectors - 1 /\ RegionSectors \in 0 .. RegionSectors
          BY <1>0 DEF Sector
        <4>2. (rd_sector + RegionSectors) % RegionSectors
                = IF rd_sector + RegionSectors < RegionSectors THEN rd_sector + RegionSectors
                  ELSE rd_sector + RegionSectors - RegionSectors
          BY <4>1, ModWrap
        <4> QED BY <1>0, <3>2, <4>1, <4>2
      <3>4. SlotsIn(flash', S, (rd_sector + 1) % RegionSectors, RegionSectors, 0)
        BY <1>0, <1>2, <1>4, <3>2, <3>3, SlotsRoll
      <3> QED BY <3>1, <3>2, <3>4
    <2> QED BY <2>1, <2>2
  <1> QED BY <1>1, <1>4, <1>5, SavedSlots

\* A write that stops after k slots: each slot of that sector has its new
\* record or its old contents.
LEMMA TornSlots ==
  ASSUME IInv, NEW k \in 0 .. RecPerSector,
         flash' = [flash EXCEPT ![wr_sector] = SectorTorn(Append(staging, NewRec), k)]
  PROVE  \A s \in Sector, i \in Slot :
            \/ flash'[s][i] = flash[s][i]
            \/ /\ s = wr_sector /\ i < k
               /\ flash'[s][i] = Append(staging, NewRec)[i + 1]
  <1> DEFINE recs == Append(staging, NewRec)
             part == SectorTorn(recs, k)
  <1>0. wr_sector \in Sector /\ flash \in [Sector -> [Slot -> Rec \cup {NoRec}]]
    BY DEF IInv, TypeOK
  <1>1. \A i \in Slot : part[i] = flash[wr_sector][i] \/ (i < k /\ part[i] = recs[i + 1])
    <2> HIDE DEF recs
    <2> QED BY DEF SectorTorn, SectorOf
  <1>2. flash' = [flash EXCEPT ![wr_sector] = part]
    OBVIOUS
  <1> HIDE DEF part
  <1> TAKE s \in Sector, i \in Slot
  <1>3. CASE s = wr_sector
    BY <1>0, <1>1, <1>2, <1>3
  <1>4. CASE s # wr_sector
    BY <1>0, <1>2, <1>4
  <1> QED BY <1>3, <1>4

\* Whatever it wrote, slots in S stay in S when the records written are in S.
LEMMA TornStay ==
  ASSUME IInv, NEW k \in 0 .. RecPerSector, NEW S,
         flash' = [flash EXCEPT ![wr_sector] = SectorTorn(Append(staging, NewRec), k)],
         \A i \in 1 .. RecPerSector : Append(staging, NewRec)[i] \in S
  PROVE  \A s \in Sector, i \in Slot : flash[s][i] \in S => flash'[s][i] \in S
  <1> TAKE s \in Sector, i \in Slot
  <1>1. i + 1 \in 1 .. RecPerSector
    BY SizeAssumption DEF Slot
  <1> QED BY <1>1, TornSlots

\* A torn flush writes the first staged records over one sector.
LEMMA TornLive ==
  ASSUME IInv, NEW S, Live(S), NEW k \in 0 .. RecPerSector,
         \A i \in 1 .. RecPerSector : Append(staging, NewRec)[i] \in S,
         PowerLossInFlush(k)
  PROVE  /\ SlotsIn(flash', S, rd_sector', valid_sectors', rd_rec_idx')
         /\ SlotsIn(flash', S, meta'.rd, meta'.valid, meta'.idx)
  <1>0. meta.rd \in Sector /\ meta.valid \in 0 .. RegionSectors
    BY DEF IInv, TypeOK, Meta
  <1>1. /\ flash' = [flash EXCEPT ![wr_sector] = SectorTorn(Append(staging, NewRec), k)]
        /\ valid_sectors' = 0 /\ meta' = meta
    BY DEF PowerLossInFlush, RamLost, RegionReset
  <1>2. \A s \in Sector, i \in Slot : flash[s][i] \in S => flash'[s][i] \in S
    BY <1>1, TornStay
  <1>3. SlotsIn(flash', S, meta.rd, meta.valid, meta.idx)
    BY <1>0, <1>2, SlotsMonotone DEF Live
  <1> QED BY <1>1, <1>3, EmptyWindow

\* The same when the write fails and the store goes on: both windows stay
\* where they are.
LEMMA FailedLive ==
  ASSUME IInv, NEW S, Live(S), NEW k \in 0 .. RecPerSector,
         \A i \in 1 .. RecPerSector : Append(staging, NewRec)[i] \in S,
         PushFailed(k)
  PROVE  /\ SlotsIn(flash', S, rd_sector', valid_sectors', rd_rec_idx')
         /\ SlotsIn(flash', S, meta'.rd, meta'.valid, meta'.idx)
  <1>0. /\ meta.rd \in Sector /\ meta.valid \in 0 .. RegionSectors
        /\ rd_sector \in Sector /\ valid_sectors \in 0 .. RegionSectors
    BY DEF IInv, TypeOK, Meta
  <1>1. /\ flash' = [flash EXCEPT ![wr_sector] = SectorTorn(Append(staging, NewRec), k)]
        /\ UNCHANGED <<rd_sector, valid_sectors, rd_rec_idx, meta>>
    BY DEF PushFailed, FlushFails, ptrs
  <1>2. \A s \in Sector, i \in Slot : flash[s][i] \in S => flash'[s][i] \in S
    BY <1>1, TornStay
  <1>3. SlotsIn(flash', S, meta.rd, meta.valid, meta.idx)
    BY <1>0, <1>2, SlotsMonotone DEF Live
  <1>4. SlotsIn(flash', S, rd_sector, valid_sectors, rd_rec_idx)
    BY <1>0, <1>2, SlotsMonotone DEF Live
  <1> QED BY <1>1, <1>3, <1>4

\* A boot loads the saved window, or none.
LEMMA LoadLive ==
  ASSUME NEW S, Live(S), NEW ok \in BOOLEAN, my_flash_store_init(ok)
  PROVE  /\ SlotsIn(flash', S, rd_sector', valid_sectors', rd_rec_idx')
         /\ SlotsIn(flash', S, meta'.rd, meta'.valid, meta'.idx)
  <1>0. flash' = flash /\ meta' = meta
    BY DEF my_flash_store_init
  <1>1. CASE ok /\ MetaUsable
    BY <1>0, <1>1 DEF my_flash_store_init, RegionLoad, Live
  <1>2. CASE ~(ok /\ MetaUsable)
    <2>1. valid_sectors' = 0
      BY <1>2 DEF my_flash_store_init, RegionLoad, RegionReset
    <2> QED BY <1>0, <2>1, EmptyWindow DEF Live
  <1> QED BY <1>1, <1>2

\* Clearing the region leaves an empty window in RAM, and in ZMS if it is saved.
LEMMA ClearLive ==
  ASSUME NEW S, Live(S), NEW m \in BOOLEAN, my_flash_store_clear(m)
  PROVE  /\ SlotsIn(flash', S, rd_sector', valid_sectors', rd_rec_idx')
         /\ SlotsIn(flash', S, meta'.rd, meta'.valid, meta'.idx)
  <1>1. flash' = flash /\ valid_sectors' = 0 /\ MetaSave(m)
    BY DEF my_flash_store_clear, RegionReset
  <1>2. SlotsIn(flash', S, rd_sector', valid_sectors', rd_rec_idx')
    BY <1>1, EmptyWindow
  <1> QED BY <1>1, <1>2, SavedSlots DEF Live

\* A power loss between two calls empties the window in RAM.
LEMMA PowerLossLive ==
  ASSUME NEW S, Live(S), PowerLoss
  PROVE  /\ SlotsIn(flash', S, rd_sector', valid_sectors', rd_rec_idx')
         /\ SlotsIn(flash', S, meta'.rd, meta'.valid, meta'.idx)
  <1>1. flash' = flash /\ valid_sectors' = 0 /\ meta' = meta
    BY DEF PowerLoss, RamLost, RegionReset
  <1> QED BY <1>1, EmptyWindow DEF Live

\* What a commit does to the pointers, with the clamp resolved.
LEMMA CommitPointers ==
  ASSUME IInv, NEW m \in BOOLEAN, my_flash_store_commit(m)
  PROVE  /\ ConsumedSectors \in 0 .. valid_sectors
         /\ rd_rec_idx' = (rd_rec_idx + read_offset) % RecPerSector
         /\ rd_rec_idx' \in Slot
         /\ rd_sector' = (rd_sector + ConsumedSectors) % RegionSectors
         /\ valid_sectors' = valid_sectors - ConsumedSectors
         /\ rd_rec_idx + read_offset = (ConsumedSectors * RecPerSector) + rd_rec_idx'
  <1> DEFINE a == rd_rec_idx + read_offset
  <1> USE SizeAssumption
  <1>0. /\ valid_sectors \in Nat
        /\ a \in Nat /\ a <= valid_sectors * RecPerSector
    BY DEF IInv, TypeOK, CursorsInBounds, Sector, Slot
  <1>1. /\ rd_sector' = (rd_sector + ConsumedSectors) % RegionSectors
        /\ valid_sectors' = IF valid_sectors >= ConsumedSectors
                            THEN valid_sectors - ConsumedSectors ELSE 0
        /\ rd_rec_idx' = a % RecPerSector
    BY DEF my_flash_store_commit
  <1>2. ConsumedSectors = a \div RecPerSector
    BY DEF ConsumedSectors
  <1> HIDE DEF a
  <1>3. a \div RecPerSector \in 0 .. valid_sectors /\ a % RecPerSector \in Slot
    BY <1>0, CommitArith DEF Slot
  <1>4. a = ((a \div RecPerSector) * RecPerSector) + (a % RecPerSector)
    BY <1>0, DivModSplit
  <1>5. valid_sectors' = valid_sectors - ConsumedSectors
    BY <1>0, <1>1, <1>2, <1>3
  <1> QED BY <1>1, <1>2, <1>3, <1>4, <1>5 DEF a

\* A commit drops the front of the window in RAM and saves it, or fails to.
LEMMA CommitLive ==
  ASSUME IInv, NEW S, Live(S), NEW m \in BOOLEAN, my_flash_store_commit(m)
  PROVE  /\ SlotsIn(flash', S, rd_sector', valid_sectors', rd_rec_idx')
         /\ SlotsIn(flash', S, meta'.rd, meta'.valid, meta'.idx)
  <1>1. flash' = flash /\ MetaSave(m)
    BY DEF my_flash_store_commit
  <1>2. /\ rd_sector \in Sector /\ rd_rec_idx \in Slot /\ valid_sectors \in 0 .. RegionSectors
        /\ read_offset \in Nat
    BY DEF IInv, TypeOK
  <1>3. ConsumedSectors = 0 => rd_rec_idx <= rd_rec_idx'
    <2> SUFFICES ASSUME ConsumedSectors = 0 PROVE rd_rec_idx <= rd_rec_idx'
      OBVIOUS
    <2>1. ConsumedSectors * RecPerSector = 0
      BY SizeAssumption
    <2>2. rd_rec_idx + read_offset = 0 + rd_rec_idx'
      BY <2>1, CommitPointers
    <2> QED BY <1>2, <2>2, CommitPointers, SizeAssumption DEF Slot
  <1>4. SlotsIn(flash, S, (rd_sector + ConsumedSectors) % RegionSectors,
                valid_sectors - ConsumedSectors, rd_rec_idx')
    BY <1>2, <1>3, CommitPointers, SlotsDrop DEF Live
  <1>5. SlotsIn(flash', S, rd_sector', valid_sectors', rd_rec_idx')
    BY <1>1, <1>4, CommitPointers
  <1> QED BY <1>1, <1>5, SavedSlots DEF Live

-----------------------------------------------------------------------------
(* Every live slot is marked.                                              *)

\* No flash contents and no pointers change.
LEMMA QuietLive ==
  ASSUME NEW S, Live(S), UNCHANGED <<flash, ptrs, meta>>
  PROVE  /\ SlotsIn(flash', S, rd_sector', valid_sectors', rd_rec_idx')
         /\ SlotsIn(flash', S, meta'.rd, meta'.valid, meta'.idx)
  BY DEF Live, ptrs

\* The records of a flush: the staged ones and the new one.
LEMMA FlushedRecs ==
  ASSUME IInv, pushed < MaxRec, Len(staging) + 1 >= RecPerSector
  PROVE  \A i \in 1 .. RecPerSector :
           /\ Append(staging, NewRec)[i] \in Rec
           /\ Append(staging, NewRec)[i] =
                IF i <= Len(staging) THEN staging[i] ELSE NewRec
           /\ i <= Len(staging) => i \in 1 .. Len(staging)
  <1>1. /\ NewRec \in Rec /\ staging \in Seq(Rec) /\ Len(staging) \in Nat
    BY AppendedOK DEF IInv, TypeOK
  <1> TAKE i \in 1 .. RecPerSector
  <1> QED BY <1>1, SizeAssumption

\* A push that flushes leaves every live slot in S when the staged records
\* and the new one are in S.
LEMMA PushFlushedLive ==
  ASSUME IInv, NEW S, Live(S), NEW m \in BOOLEAN, PushFlushed(m),
         \A i \in 1 .. RecPerSector : Append(staging, NewRec)[i] \in S
  PROVE  /\ SlotsIn(flash', S, rd_sector', valid_sectors', rd_rec_idx')
         /\ SlotsIn(flash', S, meta'.rd, meta'.valid, meta'.idx)
  BY FlushLive DEF PushFlushed

\* Every step keeps the live slots marked: a torn or unsaved flush overwrites
\* marked slots by records only.
LEMMA NextMark == IInv /\ MarkInv /\ [Next]_vars => MarkInv'
  <1> SUFFICES ASSUME IInv, MarkInv, [Next]_vars PROVE MarkInv'
    OBVIOUS
  <1> DEFINE Goal == /\ SlotsIn(flash', Rec, rd_sector', valid_sectors', rd_rec_idx')
                     /\ SlotsIn(flash', Rec, meta'.rd, meta'.valid, meta'.idx)
  <1> SUFFICES Goal
    BY DEF MarkInv, Live
  <1>0. Live(Rec)
    BY DEF MarkInv
  <1> USE DEF ZmsOutcome
  <1>1. ASSUME NEW ok \in ZmsOutcome, my_flash_store_init(ok) PROVE Goal
    BY <1>0, <1>1, LoadLive
  <1>2. CASE PushDropped
    BY <1>0, <1>2, QuietLive DEF PushDropped
  <1>3. CASE PushStaged
    BY <1>0, <1>3, QuietLive DEF PushStaged
  <1>4. ASSUME NEW m \in ZmsOutcome, PushFlushed(m) PROVE Goal
    <2>1. pushed < MaxRec /\ Len(staging) + 1 >= RecPerSector
      BY <1>4 DEF PushFlushed, PushStep, FlushesNow
    <2> QED BY <1>0, <1>4, <2>1, FlushedRecs, PushFlushedLive
  <1>5. CASE my_flash_store_upload_begin
    BY <1>0, <1>5, QuietLive DEF my_flash_store_upload_begin
  <1>6. CASE ReadFlash
    BY <1>0, <1>6, QuietLive DEF ReadFlash, ReadFrame
  <1>7. CASE ReadError
    BY <1>0, <1>7, QuietLive DEF ReadError, ReadFrame
  <1>8. CASE ReadStaging
    BY <1>0, <1>8, QuietLive DEF ReadStaging, ReadFrame
  <1>9. CASE my_flash_store_rewind
    BY <1>0, <1>9, QuietLive DEF my_flash_store_rewind
  <1>10. ASSUME NEW m \in ZmsOutcome, my_flash_store_commit(m) PROVE Goal
    BY <1>0, <1>10, CommitLive
  <1>11. ASSUME NEW m \in ZmsOutcome, my_flash_store_clear(m) PROVE Goal
    BY <1>0, <1>11, ClearLive
  <1>12. CASE PowerLoss
    BY <1>0, <1>12, PowerLossLive
  <1>13. ASSUME NEW k \in 0 .. RecPerSector, PowerLossInFlush(k) PROVE Goal
    <2>1. pushed < MaxRec /\ Len(staging) + 1 >= RecPerSector
      BY <1>13 DEF PowerLossInFlush, FlushesNow
    <2> QED BY <1>0, <1>13, <2>1, FlushedRecs, TornLive
  <1>14. ASSUME NEW k \in 0 .. RecPerSector, PushFailed(k) PROVE Goal
    <2>1. pushed < MaxRec /\ Len(staging) + 1 >= RecPerSector
      BY <1>14 DEF PushFailed, PushStep, FlushesNow
    <2> QED BY <1>0, <1>14, <2>1, FlushedRecs, FailedLive
  <1>15. CASE UNCHANGED vars
    BY <1>0, <1>15, QuietLive DEF vars, ptrs
  <1> QED
    BY <1>1, <1>2, <1>3, <1>4, <1>5, <1>6, <1>7, <1>8, <1>9, <1>10, <1>11,
       <1>12, <1>13, <1>14, <1>15 DEF Next

\* The region starts with two empty windows.
LEMMA InitMark == Init => MarkInv
  BY EmptyWindow DEF Init, MarkInv, Live, NoMeta

\* A pending flash record is a record, never an unmarked slot.
LEMMA FlashRecIn ==
  ASSUME IInv, NEW S, Live(S), NEW k \in 0 .. FlashTotal - 1
  PROVE  FlashRec(k) \in S
  <1>1. /\ FlashTotal \in Nat /\ rd_rec_idx + FlashTotal = valid_sectors * RecPerSector
        /\ valid_sectors \in Nat /\ rd_rec_idx \in Slot /\ rd_rec_idx \in Nat
    BY FlashTotalIs, SizeAssumption DEF IInv, TypeOK, Slot
  <1>2. k \in Nat /\ rd_rec_idx + k < valid_sectors * RecPerSector
    <2> HIDE DEF FlashTotal
    <2> QED BY <1>1
  <1> QED BY <1>1, <1>2, SlotAt DEF Live, FlashRec

\* No record is skipped in an upload: every slot between the confirmed
\* position and the write pointer carries its mark (read_next's skip loop is
\* never needed), for every region size and any number of power losses, torn
\* sector writes and failed saves.
THEOREM WindowStaysMarked == Spec => []WindowMarked
  <1>1. IInv /\ MarkInv => WindowMarked
    <2> SUFFICES ASSUME IInv, MarkInv, NEW i \in 0 .. FlashTotal - 1 PROVE FlashRec(i) # NoRec
      BY DEF WindowMarked
    <2>1. FlashRec(i) \in Rec
      BY FlashRecIn DEF MarkInv
    <2> QED BY <2>1, SizeAssumption DEF Rec, NoRec
  <1> QED BY <1>1, InitIInv, NextIInv, InitMark, NextMark, PTL DEF Spec

-----------------------------------------------------------------------------
(* Sessions.                                                               *)

\* The cursors count what was handed out, flash before staging; a closed
\* session has no history, and there is no session before the store is ready.
SessForm ==
  /\ session \in Seq(Rec) /\ promised \in Seq(Rec)
  /\ Len(session) = read_offset + staging_read_idx
  /\ staging_read_idx > 0 => read_offset = FlashTotal
  /\ ~upload_active => promised = <<>>
  /\ ~s_inited => ~upload_active

\* What was promised is still where it was, and what was handed out is its
\* beginning.
SessKept ==
  /\ Len(promised) = FlashTotal + upload_staging_snap
  /\ \A i \in 1 .. Len(session) : session[i] = promised[i]
  /\ \A i \in 1 .. FlashTotal : promised[i] = FlashRec(i - 1)
  /\ \A i \in 1 .. upload_staging_snap : promised[FlashTotal + i] = staging[i]

SessInv == SessForm /\ (upload_active => SessKept)

\* A function on 1..n is a sequence of length n.
LEMMA FunIsSeq ==
  ASSUME NEW S, NEW n \in Nat, NEW F \in [1 .. n -> S]
  PROVE  F \in Seq(S) /\ Len(F) = n
  <1>1. F \in Seq(S)
    BY SeqDef
  <1>2. DOMAIN F = 1 .. n /\ DOMAIN F = 1 .. Len(F) /\ Len(F) \in Nat
    BY <1>1, LenProperties
  <1> QED BY <1>1, <1>2

\* The pending records one by one.
LEMMA PendingIs ==
  ASSUME IInv, MarkInv
  PROVE  /\ Pending \in Seq(Rec)
         /\ Len(Pending) = FlashTotal + Len(staging)
         /\ FlashTotal \in Nat /\ Len(staging) \in Nat
         /\ \A i \in 1 .. FlashTotal : Pending[i] = FlashRec(i - 1)
         /\ \A i \in 1 .. Len(staging) : Pending[FlashTotal + i] = staging[i]
  <1> DEFINE F == [i \in 1 .. FlashTotal |-> FlashRec(i - 1)]
             n == FlashTotal
  <1>1. n \in Nat
    BY FlashTotalIs
  <1>2. \A i \in 1 .. n : FlashRec(i - 1) \in Rec
    <2> TAKE i \in 1 .. n
    <2>1. i - 1 \in 0 .. FlashTotal - 1
      BY <1>1
    <2> QED BY <2>1, FlashRecIn DEF MarkInv
  <1> HIDE DEF n
  <1>3. F = [i \in 1 .. n |-> FlashRec(i - 1)]
    BY DEF n
  <1>4. F \in Seq(Rec) /\ Len(F) = n /\ \A i \in 1 .. n : F[i] = FlashRec(i - 1)
    <2>1. F \in [1 .. n -> Rec] /\ \A i \in 1 .. n : F[i] = FlashRec(i - 1)
      BY <1>2, <1>3
    <2> HIDE DEF F
    <2> QED BY <1>1, <2>1, FunIsSeq
  <1>5. staging \in Seq(Rec) /\ Len(staging) \in Nat
    BY DEF IInv, TypeOK
  <1>6. Pending = F \o staging
    BY DEF Pending
  <1> HIDE DEF F
  <1>7. /\ Pending \in Seq(Rec) /\ Len(Pending) = n + Len(staging)
        /\ \A i \in 1 .. n + Len(staging) :
             Pending[i] = IF i <= n THEN F[i] ELSE staging[i - n]
    BY <1>4, <1>5, <1>6, ConcatProperties
  <1>8. \A i \in 1 .. n : Pending[i] = FlashRec(i - 1)
    <2> TAKE i \in 1 .. n
    <2>1. i \in 1 .. n + Len(staging) /\ i <= n
      BY <1>1, <1>5
    <2> QED BY <1>4, <1>7, <2>1
  <1>9. \A i \in 1 .. Len(staging) : Pending[n + i] = staging[i]
    <2> TAKE i \in 1 .. Len(staging)
    <2>1. n + i \in 1 .. n + Len(staging) /\ ~(n + i <= n) /\ (n + i) - n = i
      BY <1>1, <1>5
    <2> QED BY <1>7, <2>1
  <1> QED BY <1>1, <1>5, <1>7, <1>8, <1>9 DEF n

\* Without new sectors and pointers the flash part of the queue is the same.
LEMMA QuietFlash ==
  ASSUME UNCHANGED <<flash, ptrs>>
  PROVE  FlashTotal' = FlashTotal /\ \A k \in Int : FlashRec(k)' = FlashRec(k)
  BY DEF FlashTotal, FlashRec, ptrs

\* A step that closes the session.
LEMMA ClosedSess ==
  ASSUME ResetSession, CloseHistory PROVE SessInv'
  <1>1. session' \in Seq(Rec) /\ promised' \in Seq(Rec) /\ Len(session') = 0 /\ promised' = <<>>
    BY DEF CloseHistory
  <1>2. read_offset' = 0 /\ staging_read_idx' = 0 /\ ~upload_active'
    BY DEF ResetSession
  <1> QED BY <1>1, <1>2 DEF SessInv, SessForm

\* Outside a session nothing has been handed out.
LEMMA NoSession ==
  ASSUME IInv, SessInv, ~upload_active
  PROVE  /\ session = <<>> /\ promised = <<>> /\ read_offset = 0 /\ staging_read_idx = 0
         /\ upload_staging_snap = 0
  <1>1. read_offset = 0 /\ staging_read_idx = 0 /\ upload_staging_snap = 0
    BY DEF IInv, TypeOK, CursorsInBounds
  <1>2. session \in Seq(Rec) /\ Len(session) = 0 /\ promised = <<>>
    BY <1>1 DEF SessInv, SessForm
  <1>3. session = <<>>
    BY <1>2, EmptySeq
  <1> QED BY <1>1, <1>2, <1>3

\* A step outside a session that opens none.
LEMMA StillClosed ==
  ASSUME IInv, SessInv, ~upload_active, UNCHANGED <<s_inited, sessv, hist>>
  PROVE  SessInv'
  <1>1. /\ session' = <<>> /\ promised' = <<>> /\ read_offset' = 0 /\ staging_read_idx' = 0
        /\ ~upload_active'
    BY NoSession DEF sessv, hist
  <1>2. Len(session') = 0 /\ session' \in Seq(Rec) /\ promised' \in Seq(Rec)
    BY <1>1
  <1> QED BY <1>1, <1>2 DEF SessInv, SessForm

\* my_flash_store_init finds no session.
LEMMA LoadSess ==
  ASSUME IInv, SessInv, NEW ok \in BOOLEAN, my_flash_store_init(ok)
  PROVE  SessInv'
  <1>1. ~upload_active
    BY DEF my_flash_store_init, SessInv, SessForm
  <1>2. ResetSession
    <2>1. CASE ok /\ MetaUsable
      BY <2>1 DEF my_flash_store_init, RegionLoad
    <2>2. CASE ~(ok /\ MetaUsable)
      BY <2>2 DEF my_flash_store_init, RegionLoad, RegionReset
    <2> QED BY <2>1, <2>2
  <1>3. CloseHistory
    BY <1>1, NoSession DEF my_flash_store_init, hist, CloseHistory
  <1> QED BY <1>2, <1>3, ClosedSess

\* Records pushed during a session go behind the ones it snapped.
LEMMA StagedSess ==
  ASSUME IInv, SessInv, UNCHANGED <<s_inited, ptrs, flash, sessv, hist>>,
         \A i \in 1 .. Len(staging) : staging'[i] = staging[i]
  PROVE  SessInv'
  <1>1. /\ FlashTotal' = FlashTotal /\ \A k \in Int : FlashRec(k)' = FlashRec(k)
    BY QuietFlash
  <1>2. SessForm'
    BY <1>1 DEF SessInv, SessForm, sessv, hist
  <1>3. ASSUME upload_active' PROVE SessKept'
    <2>1. SessKept /\ UNCHANGED <<session, promised, upload_staging_snap>>
      BY <1>3 DEF SessInv, sessv, hist
    <2>2. /\ Len(promised') = FlashTotal' + upload_staging_snap'
          /\ \A i \in 1 .. Len(session') : session'[i] = promised'[i]
      BY <1>1, <2>1 DEF SessKept
    <2>3. \A i \in 1 .. FlashTotal' : promised'[i] = FlashRec(i - 1)'
      <3> SUFFICES ASSUME NEW i \in 1 .. FlashTotal PROVE promised[i] = FlashRec(i - 1)'
        BY <1>1, <2>1
      <3>1. i - 1 \in Int
        BY FlashTotalIs
      <3>2. FlashRec(i - 1)' = FlashRec(i - 1)
        BY <1>1, <3>1
      <3> QED BY <2>1, <3>2 DEF SessKept
    <2>4. \A i \in 1 .. upload_staging_snap' : promised'[FlashTotal' + i] = staging'[i]
      <3> SUFFICES ASSUME NEW i \in 1 .. upload_staging_snap
                   PROVE  promised[FlashTotal + i] = staging'[i]
        BY <1>1, <2>1
      <3>1. i \in 1 .. Len(staging)
        BY DEF IInv, TypeOK, CursorsInBounds
      <3> QED BY <2>1, <3>1 DEF SessKept
    <2> QED BY <2>2, <2>3, <2>4 DEF SessKept
  <1> QED BY <1>2, <1>3 DEF SessInv

\* The session a begin or a first read opens promises what is pending.
LEMMA OpenedSess ==
  ASSUME IInv, MarkInv,
         UNCHANGED <<s_inited, ptrs, flash, staging>>, s_inited,
         promised' = Pending, upload_staging_snap' = Len(staging)
  PROVE  /\ promised' \in Seq(Rec)
         /\ Len(promised') = FlashTotal' + upload_staging_snap'
         /\ \A i \in 1 .. FlashTotal' : promised'[i] = FlashRec(i - 1)'
         /\ \A i \in 1 .. upload_staging_snap' : promised'[FlashTotal' + i] = staging'[i]
  <1>1. FlashTotal' = FlashTotal /\ \A k \in Int : FlashRec(k)' = FlashRec(k)
    BY QuietFlash
  <1>2. \A i \in 1 .. FlashTotal' : promised'[i] = FlashRec(i - 1)'
    <2> SUFFICES ASSUME NEW i \in 1 .. FlashTotal PROVE promised'[i] = FlashRec(i - 1)'
      BY <1>1
    <2>1. i - 1 \in Int
      BY FlashTotalIs
    <2>2. FlashRec(i - 1)' = FlashRec(i - 1)
      BY <1>1, <2>1
    <2> QED BY <2>2, PendingIs
  <1>3. staging' = staging
    OBVIOUS
  <1> QED BY <1>1, <1>2, <1>3, PendingIs

\* my_flash_store_upload_begin opens a session on what is pending.
LEMMA BeginSess ==
  ASSUME IInv, MarkInv, my_flash_store_upload_begin PROVE SessInv'
  <1>1. /\ UNCHANGED <<s_inited, ptrs, flash, staging>> /\ s_inited
        /\ promised' = Pending /\ upload_staging_snap' = Len(staging)
        /\ session' = <<>> /\ read_offset' = 0 /\ staging_read_idx' = 0
        /\ upload_active' = TRUE
    BY DEF my_flash_store_upload_begin
  <1>2. session' \in Seq(Rec) /\ Len(session') = 0
    BY <1>1
  <1> QED BY <1>1, <1>2, OpenedSess DEF SessInv, SessForm, SessKept

\* A read leaves an open session on what was promised when it opened.
LEMMA ReadOpens ==
  ASSUME IInv, MarkInv, SessInv, OpensSession, ReadFrame, s_inited
  PROVE  /\ promised' \in Seq(Rec)
         /\ Len(promised') = FlashTotal' + upload_staging_snap'
         /\ \A i \in 1 .. FlashTotal' : promised'[i] = FlashRec(i - 1)'
         /\ \A i \in 1 .. upload_staging_snap' : promised'[FlashTotal' + i] = staging'[i]
         /\ \A i \in 1 .. Len(session) : session[i] = promised'[i]
         /\ s_inited' /\ upload_active'
  <1>1. /\ UNCHANGED <<s_inited, ptrs, flash, staging>> /\ upload_active' = TRUE
    BY DEF ReadFrame, OpensSession
  <1>2. CASE upload_active
    <2>1. promised' = promised /\ upload_staging_snap' = upload_staging_snap /\ SessKept
          /\ SessForm
      BY <1>2 DEF OpensSession, SessInv
    <2>2. FlashTotal' = FlashTotal /\ \A k \in Int : FlashRec(k)' = FlashRec(k)
      BY <1>1, QuietFlash
    <2>3. \A i \in 1 .. FlashTotal' : promised'[i] = FlashRec(i - 1)'
      <3> SUFFICES ASSUME NEW i \in 1 .. FlashTotal PROVE promised[i] = FlashRec(i - 1)'
        BY <2>1, <2>2
      <3>1. i - 1 \in Int
        BY FlashTotalIs
      <3>2. FlashRec(i - 1)' = FlashRec(i - 1)
        BY <2>2, <3>1
      <3> QED BY <2>1, <3>2 DEF SessKept
    <2> QED BY <1>1, <2>1, <2>2, <2>3 DEF SessKept, SessForm
  <1>3. CASE ~upload_active
    <2>1. promised' = Pending /\ upload_staging_snap' = Len(staging)
      BY <1>3 DEF OpensSession
    <2>2. Len(session) = 0
      BY <1>3, NoSession
    <2> QED BY <1>1, <2>1, <2>2, OpenedSess
  <1> QED BY <1>2, <1>3

\* No flash record is skipped, so the next one read is at the read cursor.
LEMMA NothingSkipped ==
  ASSUME IInv, MarkInv, NEW k \in Int, read_offset <= k, k <= FlashTotal, SkippedUpTo(k)
  PROVE  k = read_offset
  <1> SUFFICES ASSUME read_offset < k PROVE FALSE
    BY DEF IInv, TypeOK
  <1>1. read_offset \in read_offset .. k - 1 /\ read_offset \in 0 .. FlashTotal - 1
    BY FlashTotalIs DEF IInv, TypeOK
  <1>2. FlashRec(read_offset) = NoRec
    BY <1>1 DEF SkippedUpTo
  <1>3. FlashRec(read_offset) \in Rec
    BY <1>1, FlashRecIn DEF MarkInv
  <1> QED BY <1>2, <1>3, SizeAssumption DEF Rec, NoRec

\* Handing out one more of the promised records.
LEMMA HandedSess ==
  ASSUME IInv, MarkInv, SessInv, OpensSession, ReadFrame, s_inited,
         NEW r, session' = Append(session, r),
         Len(session) + 1 \in 1 .. Len(promised'), r = promised'[Len(session) + 1],
         Len(session) + 1 = read_offset' + staging_read_idx',
         staging_read_idx' > 0 => read_offset' = FlashTotal'
  PROVE  SessInv'
  <1>1. session \in Seq(Rec) /\ Len(session) \in Nat /\ promised' \in Seq(Rec)
    BY ReadOpens DEF SessInv, SessForm
  <1>2. r \in Rec
    BY <1>1, ElementOfSeq
  <1>3. /\ session' \in Seq(Rec) /\ Len(session') = Len(session) + 1
        /\ \A i \in 1 .. Len(session) : session'[i] = session[i]
        /\ session'[Len(session) + 1] = r
    BY <1>1, <1>2, AppendProperties
  <1>4. \A i \in 1 .. Len(session') : session'[i] = promised'[i]
    <2> TAKE i \in 1 .. Len(session')
    <2>1. CASE i = Len(session) + 1
      BY <1>3, <2>1
    <2>2. CASE i # Len(session) + 1
      <3>1. i \in 1 .. Len(session)
        BY <1>1, <1>3, <2>2
      <3> QED BY <1>3, <3>1, ReadOpens
    <2> QED BY <2>1, <2>2
  <1> QED BY <1>1, <1>3, <1>4, ReadOpens DEF SessInv, SessForm, SessKept

\* A read that hands out nothing.
LEMMA NotHandedSess ==
  ASSUME IInv, MarkInv, SessInv, OpensSession, ReadFrame, s_inited,
         UNCHANGED <<session, staging_read_idx>>, read_offset' = read_offset
  PROVE  SessInv'
  <1>1. FlashTotal' = FlashTotal
    BY QuietFlash DEF ReadFrame
  <1> QED BY <1>1, ReadOpens DEF SessInv, SessForm, SessKept

\* A marked flash record is handed out.
LEMMA ReadFlashSess ==
  ASSUME IInv, MarkInv, SessInv, ReadFlash PROVE SessInv'
  <1>1. OpensSession /\ ReadFrame /\ s_inited /\ staging_read_idx' = staging_read_idx
    BY DEF ReadFlash
  <1>2. PICK k \in read_offset .. FlashTotal - 1 :
           /\ SkippedUpTo(k) /\ read_offset' = k + 1
           /\ session' = Append(session, FlashRec(k))
    BY DEF ReadFlash
  <1>3. read_offset \in Nat /\ FlashTotal \in Nat /\ staging_read_idx \in Nat
        /\ upload_staging_snap' \in Nat
    BY <1>1, FlashTotalIs, SnapKept DEF IInv, TypeOK
  <1>4. k = read_offset
    BY <1>2, <1>3, NothingSkipped
  <1>5. staging_read_idx = 0 /\ Len(session) = k
    BY <1>2, <1>3, <1>4 DEF SessInv, SessForm
  <1>6. FlashTotal' = FlashTotal /\ FlashRec(k)' = FlashRec(k)
    BY <1>1, QuietFlash DEF ReadFrame
  <1>7. k + 1 \in 1 .. FlashTotal' /\ (k + 1) - 1 = k /\ k + 1 \in 1 .. Len(promised')
    BY <1>1, <1>2, <1>3, <1>6, ReadOpens
  <1>8. promised'[k + 1] = FlashRec((k + 1) - 1)'
    BY <1>1, <1>7, ReadOpens
  <1>9. FlashRec(k) = promised'[Len(session) + 1]
    BY <1>5, <1>6, <1>7, <1>8
  <1> QED BY <1>1, <1>2, <1>3, <1>5, <1>7, <1>9, HandedSess

\* A failing read leaves the session as it was.
LEMMA ReadErrorSess ==
  ASSUME IInv, MarkInv, SessInv, ReadError PROVE SessInv'
  <1>1. OpensSession /\ ReadFrame /\ s_inited /\ UNCHANGED <<staging_read_idx, session>>
    BY DEF ReadError
  <1>2. PICK k \in read_offset .. FlashTotal - 1 : SkippedUpTo(k) /\ read_offset' = k
    BY DEF ReadError
  <1>3. k = read_offset
    BY <1>2, NothingSkipped, FlashTotalIs DEF IInv, TypeOK
  <1> QED BY <1>1, <1>2, <1>3, NotHandedSess

\* A staged record is handed out, or nothing is left.
LEMMA ReadStagingSess ==
  ASSUME IInv, MarkInv, SessInv, ReadStaging PROVE SessInv'
  <1>1. OpensSession /\ ReadFrame /\ s_inited /\ read_offset' = FlashTotal
    BY DEF ReadStaging
  <1>2. read_offset = FlashTotal
    <2>1. FlashTotal \in Int /\ read_offset <= FlashTotal /\ SkippedUpTo(FlashTotal)
      BY FlashTotalIs DEF ReadStaging
    <2> QED BY <2>1, NothingSkipped
  <1>3. /\ staging_read_idx \in Nat /\ FlashTotal \in Nat /\ upload_staging_snap' \in Nat
        /\ FlashTotal' = FlashTotal /\ staging' = staging
        /\ Len(session) = FlashTotal + staging_read_idx
    BY <1>1, <1>2, SnapKept, FlashTotalIs, QuietFlash DEF ReadFrame, SessInv, SessForm
  <1>4. CASE staging_read_idx < upload_staging_snap'
    <2>1. /\ staging_read_idx' = staging_read_idx + 1
          /\ session' = Append(session, staging[staging_read_idx + 1])
      BY <1>4 DEF ReadStaging
    <2>2. staging_read_idx + 1 \in 1 .. upload_staging_snap'
      BY <1>3, <1>4
    <2>3. promised'[FlashTotal + (staging_read_idx + 1)] = staging[staging_read_idx + 1]
      BY <1>1, <1>3, <2>2, ReadOpens
    <2>4. Len(promised') = FlashTotal + upload_staging_snap'
      BY <1>1, <1>3, ReadOpens
    <2>5. /\ Len(session) + 1 = FlashTotal + (staging_read_idx + 1)
          /\ Len(session) + 1 \in 1 .. Len(promised')
      <3> DEFINE n == FlashTotal
                 u == upload_staging_snap'
      <3>1. n \in Nat /\ u \in Nat /\ staging_read_idx \in Nat
        BY <1>3
      <3>2. Len(session) = n + staging_read_idx /\ Len(promised') = n + u
        BY <1>3, <2>4
      <3>3. staging_read_idx + 1 \in 1 .. u
        BY <2>2
      <3> HIDE DEF n, u
      <3>4. Len(session) + 1 = n + (staging_read_idx + 1) /\ Len(session) + 1 \in 1 .. Len(promised')
        BY <3>1, <3>2, <3>3
      <3> QED BY <3>4 DEF n
    <2>6. staging[staging_read_idx + 1] = promised'[Len(session) + 1]
      BY <2>3, <2>5
    <2>7. Len(session) + 1 = read_offset' + staging_read_idx'
      BY <1>1, <2>1, <2>5
    <2>8. staging_read_idx' > 0 => read_offset' = FlashTotal'
      BY <1>1, <1>3
    <2> QED BY <1>1, <2>1, <2>5, <2>6, <2>7, <2>8, HandedSess
  <1>5. CASE ~(staging_read_idx < upload_staging_snap')
    <2>1. UNCHANGED <<session, staging_read_idx>>
      BY <1>5 DEF ReadStaging
    <2> QED BY <1>1, <1>2, <2>1, NotHandedSess
  <1> QED BY <1>4, <1>5

\* The store starts without a session.
LEMMA InitSess == Init => SessInv
  <1> SUFFICES ASSUME Init PROVE SessInv
    OBVIOUS
  <1>1. session = <<>> /\ promised = <<>> /\ ~upload_active /\ read_offset = 0 /\ staging_read_idx = 0
    BY DEF Init
  <1>2. session \in Seq(Rec) /\ promised \in Seq(Rec) /\ Len(session) = 0
    BY <1>1
  <1> QED BY <1>1, <1>2 DEF SessInv, SessForm

\* Every step keeps the session's books.
LEMMA NextSess == IInv /\ MarkInv /\ SessInv /\ [Next]_vars => SessInv'
  <1> SUFFICES ASSUME IInv, MarkInv, SessInv, [Next]_vars PROVE SessInv'
    OBVIOUS
  <1> USE DEF ZmsOutcome
  <1>1. ASSUME NEW ok \in ZmsOutcome, my_flash_store_init(ok) PROVE SessInv'
    BY <1>1, LoadSess
  <1>2. CASE PushDropped
    BY <1>2, StagedSess DEF PushDropped, PushStep
  <1>3. CASE PushStaged
    <2>1. staging' = Append(staging, NewRec) /\ staging \in Seq(Rec) /\ NewRec \in Rec
      BY <1>3, AppendedOK DEF PushStaged, PushStep, IInv, TypeOK
    <2>2. \A i \in 1 .. Len(staging) : staging'[i] = staging[i]
      BY <2>1, AppendProperties
    <2> QED BY <1>3, <2>2, StagedSess DEF PushStaged, PushStep
  <1>4. ASSUME NEW m \in ZmsOutcome, PushFlushed(m) PROVE SessInv'
    <2>1. ~upload_active /\ UNCHANGED <<s_inited, sessv, hist>>
      BY <1>4 DEF PushFlushed, PushStep, FlushesNow
    <2> QED BY <2>1, StillClosed
  <1>5. CASE my_flash_store_upload_begin
    BY <1>5, BeginSess
  <1>6. CASE ReadFlash
    BY <1>6, ReadFlashSess
  <1>7. CASE ReadError
    BY <1>7, ReadErrorSess
  <1>8. CASE ReadStaging
    BY <1>8, ReadStagingSess
  <1>9. CASE my_flash_store_rewind
    BY <1>9, ClosedSess DEF my_flash_store_rewind
  <1>10. ASSUME NEW m \in ZmsOutcome, my_flash_store_commit(m) PROVE SessInv'
    BY <1>10, ClosedSess DEF my_flash_store_commit
  <1>11. ASSUME NEW m \in ZmsOutcome, my_flash_store_clear(m) PROVE SessInv'
    BY <1>11, ClosedSess DEF my_flash_store_clear, RegionReset
  <1>12. CASE PowerLoss
    BY <1>12, ClosedSess DEF PowerLoss, RamLost, RegionReset
  <1>13. ASSUME NEW k \in 0 .. RecPerSector, PowerLossInFlush(k) PROVE SessInv'
    BY <1>13, ClosedSess DEF PowerLossInFlush, RamLost, RegionReset
  <1>14. ASSUME NEW k \in 0 .. RecPerSector, PushFailed(k) PROVE SessInv'
    <2>1. ~upload_active /\ UNCHANGED <<s_inited, sessv, hist>>
      BY <1>14 DEF PushFailed, PushStep, FlushesNow
    <2> QED BY <2>1, StillClosed
  <1>15. CASE UNCHANGED vars
    BY <1>15, StagedSess DEF vars, ptrs, sessv, hist
  <1> QED
    BY <1>1, <1>2, <1>3, <1>4, <1>5, <1>6, <1>7, <1>8, <1>9, <1>10, <1>11,
       <1>12, <1>13, <1>14, <1>15 DEF Next

\* Three sequences one after the other are the sequence they are pieces of.
LEMMA ThreePieces ==
  ASSUME NEW S, NEW a \in Seq(S), NEW b \in Seq(S), NEW c \in Seq(S), NEW p \in Seq(S),
         Len(p) = Len(a) + Len(b) + Len(c),
         \A i \in 1 .. Len(a) : p[i] = a[i],
         \A i \in 1 .. Len(b) : p[Len(a) + i] = b[i],
         \A i \in 1 .. Len(c) : p[Len(a) + Len(b) + i] = c[i]
  PROVE  a \o b \o c = p
  <1>1. /\ a \o b \in Seq(S) /\ Len(a \o b) = Len(a) + Len(b)
        /\ \A i \in 1 .. Len(a) + Len(b) :
             (a \o b)[i] = IF i <= Len(a) THEN a[i] ELSE b[i - Len(a)]
    BY ConcatProperties
  <1> DEFINE ab == a \o b
  <1>2. /\ ab \in Seq(S) /\ Len(ab) = Len(a) + Len(b)
        /\ \A i \in 1 .. Len(a) + Len(b) : ab[i] = IF i <= Len(a) THEN a[i] ELSE b[i - Len(a)]
    BY <1>1
  <1> HIDE DEF ab
  <1>3. /\ ab \o c \in Seq(S) /\ Len(ab \o c) = Len(ab) + Len(c)
        /\ \A i \in 1 .. Len(ab) + Len(c) :
             (ab \o c)[i] = IF i <= Len(ab) THEN ab[i] ELSE c[i - Len(ab)]
    BY <1>2, ConcatProperties
  <1>4. Len(a) \in Nat /\ Len(b) \in Nat /\ Len(c) \in Nat
    BY LenProperties
  <1>5. \A i \in 1 .. Len(ab \o c) : (ab \o c)[i] = p[i]
    <2> TAKE i \in 1 .. Len(ab \o c)
    <2>0. i \in 1 .. Len(ab) + Len(c) /\ i \in Nat
      BY <1>2, <1>3, <1>4
    <2>1. CASE i <= Len(a)
      <3>1. i \in 1 .. Len(a) /\ i \in 1 .. Len(a) + Len(b) /\ i <= Len(ab)
        BY <2>0, <2>1, <1>2, <1>4
      <3> QED BY <1>2, <1>3, <2>0, <2>1, <3>1
    <2>2. CASE Len(a) < i /\ i <= Len(ab)
      <3>1. /\ i - Len(a) \in 1 .. Len(b) /\ Len(a) + (i - Len(a)) = i
            /\ i \in 1 .. Len(a) + Len(b) /\ ~(i <= Len(a))
        BY <2>0, <2>2, <1>2, <1>4
      <3>2. p[i] = b[i - Len(a)]
        BY <3>1
      <3> QED BY <1>2, <1>3, <2>0, <2>2, <3>1, <3>2
    <2>3. CASE Len(ab) < i
      <3>1. /\ i - Len(ab) \in 1 .. Len(c) /\ Len(a) + Len(b) + (i - Len(ab)) = i
            /\ ~(i <= Len(ab))
        BY <2>0, <2>3, <1>2, <1>4
      <3>2. p[i] = c[i - Len(ab)]
        BY <3>1
      <3> QED BY <1>3, <2>0, <3>1, <3>2
    <2> QED BY <2>0, <2>1, <2>2, <2>3, <1>2, <1>4
  <1>6. ab \o c = p
    BY <1>2, <1>3, <1>5, SeqEqual
  <1> QED BY <1>6 DEF ab

\* What a session handed out and still will hand out is what was pending when
\* it opened, for every region size and every interleaving of pushes, reads,
\* read errors and failed writes.
THEOREM SessionStaysFrozen == Spec => []SessionFrozen
  <1>1. IInv /\ MarkInv /\ SessInv => SessionFrozen
    <2> SUFFICES ASSUME IInv, MarkInv, SessInv, upload_active
                 PROVE  /\ upload_staging_snap <= Len(staging)
                        /\ session
                             \o [i \in 1 .. FlashTotal - read_offset |-> FlashRec(read_offset + i - 1)]
                             \o SubSeq(staging, staging_read_idx + 1, upload_staging_snap) = promised
      BY DEF SessionFrozen
    <2> DEFINE n == FlashTotal
               u == upload_staging_snap
               q == staging_read_idx
               F == [i \in 1 .. FlashTotal - read_offset |-> FlashRec(read_offset + i - 1)]
               C == SubSeq(staging, staging_read_idx + 1, upload_staging_snap)
    <2>1. /\ n \in Nat /\ u \in Nat /\ q \in Nat /\ read_offset \in Nat
          /\ read_offset <= n /\ q <= u /\ u <= Len(staging)
          /\ staging \in Seq(Rec) /\ Len(staging) \in Nat
      BY FlashTotalIs DEF IInv, TypeOK, CursorsInBounds
    <2>2. /\ session \in Seq(Rec) /\ promised \in Seq(Rec)
          /\ Len(session) = read_offset + q
          /\ q > 0 => read_offset = n
          /\ Len(promised) = n + u
          /\ \A i \in 1 .. Len(session) : session[i] = promised[i]
          /\ \A i \in 1 .. n : promised[i] = FlashRec(i - 1)
          /\ \A i \in 1 .. u : promised[n + i] = staging[i]
      BY DEF SessInv, SessForm, SessKept
    <2>3. \A i \in 1 .. n - read_offset :
             /\ FlashRec(read_offset + i - 1) \in Rec
             /\ FlashRec(read_offset + i - 1) = promised[Len(session) + i]
      <3> TAKE i \in 1 .. n - read_offset
      <3> HIDE DEF n
      <3>1. /\ read_offset + i \in 1 .. n /\ (read_offset + i) - 1 = read_offset + i - 1
            /\ Len(session) + i = read_offset + i
            /\ read_offset + i - 1 \in 0 .. n - 1
        BY <2>1, <2>2
      <3>2. promised[read_offset + i] = FlashRec((read_offset + i) - 1)
        BY <2>2, <3>1
      <3>3. FlashRec(read_offset + i - 1) \in Rec
        BY <3>1, FlashRecIn DEF MarkInv, n
      <3> QED BY <3>1, <3>2, <3>3
    <2>4. F = [i \in 1 .. n - read_offset |-> FlashRec(read_offset + i - 1)]
      OBVIOUS
    <2>5. /\ F \in [1 .. n - read_offset -> Rec] /\ n - read_offset \in Nat
          /\ \A i \in 1 .. n - read_offset : F[i] = promised[Len(session) + i]
      <3> HIDE DEF n, F, C, u, q
      <3>1. n - read_offset \in Nat
        BY <2>1
      <3>2. \A i \in 1 .. n - read_offset : F[i] = FlashRec(read_offset + i - 1)
        BY <2>4
      <3>3. F \in [1 .. n - read_offset -> Rec]
        BY <2>3, <2>4
      <3> QED BY <2>3, <3>1, <3>2, <3>3
    <2> HIDE DEF F
    <2>6. F \in Seq(Rec) /\ Len(F) = n - read_offset
      <3> HIDE DEF n
      <3> QED BY <2>5, FunIsSeq
    <2>7. /\ C \in Seq(Rec) /\ Len(C) = u - q
          /\ \A i \in 1 .. u - q : C[i] = staging[q + i]
      <3> HIDE DEF u, q
      <3>0. C = SubSeq(staging, q + 1, u)
        BY DEF u, q
      <3>1. /\ \A i \in q + 1 .. u : staging[i] \in Rec
            /\ q + 1 \in Int /\ u \in Int
        BY <2>1, ElementOfSeq
      <3> HIDE DEF C
      <3>2. /\ C \in Seq(Rec) /\ Len(C) = (IF q + 1 <= u THEN u - (q + 1) + 1 ELSE 0)
            /\ \A i \in 1 .. u - (q + 1) + 1 : C[i] = staging[(q + 1) + i - 1]
        BY <3>0, <3>1, SubSeqProperties
      <3>3. Len(C) = u - q /\ u - (q + 1) + 1 = u - q
        BY <2>1, <3>2
      <3>4. \A i \in 1 .. u - q : (q + 1) + i - 1 = q + i
        BY <2>1
      <3> QED BY <3>2, <3>3, <3>4
    <2> HIDE DEF C, n, u, q
    <2>8. Len(promised) = Len(session) + Len(F) + Len(C)
      BY <2>1, <2>2, <2>6, <2>7
    <2>9. \A i \in 1 .. Len(C) : promised[Len(session) + Len(F) + i] = C[i]
      <3> TAKE i \in 1 .. Len(C)
      <3>1. Len(session) + Len(F) + i = n + (q + i) /\ q + i \in 1 .. u /\ i \in 1 .. u - q
        BY <2>1, <2>2, <2>6, <2>7
      <3>2. promised[n + (q + i)] = staging[q + i]
        BY <2>2, <3>1
      <3> QED BY <2>7, <3>1, <3>2
    <2>10. session \o F \o C = promised
      <3>1. \A i \in 1 .. Len(session) : promised[i] = session[i]
        BY <2>2
      <3>2. \A i \in 1 .. Len(F) : promised[Len(session) + i] = F[i]
        BY <2>5, <2>6
      <3>3. session \in Seq(Rec) /\ F \in Seq(Rec) /\ C \in Seq(Rec) /\ promised \in Seq(Rec)
        BY <2>2, <2>6, <2>7
      <3> QED BY <3>1, <3>2, <3>3, <2>8, <2>9, ThreePieces
    <2> QED BY <2>1, <2>10 DEF F, C, u
  <1> QED BY <1>1, InitIInv, NextIInv, InitMark, NextMark, InitSess, NextSess, PTL DEF Spec

-----------------------------------------------------------------------------
(* A commit removes exactly what was handed out.                           *)

\* The shape of the pending records, as a formula that can be primed.
PendingForm ==
  /\ Pending \in Seq(Rec)
  /\ Len(Pending) = FlashTotal + Len(staging)
  /\ FlashTotal \in Nat /\ Len(staging) \in Nat
  /\ rd_rec_idx + FlashTotal = valid_sectors * RecPerSector
  /\ \A i \in 1 .. FlashTotal : Pending[i] = FlashRec(i - 1)
  /\ \A i \in 1 .. Len(staging) : Pending[FlashTotal + i] = staging[i]

\* It holds wherever the first two invariants do.
LEMMA PendingFormHolds == IInv /\ MarkInv => PendingForm
  BY PendingIs, FlashTotalIs DEF PendingForm

\* It therefore holds after every step that keeps them.
LEMMA PendingFormNext == IInv' /\ MarkInv' => PendingForm'
  BY PendingFormHolds, PTL

\* A number of sectors is a number of records.
LEMMA MulNat ==
  ASSUME NEW v \in Nat, NEW r \in Nat
  PROVE  v * r \in Nat
  OBVIOUS

\* Quotient and remainder are unique.
LEMMA DivUnique ==
  ASSUME NEW r \in Nat \ {0}, NEW p \in Nat, NEW q \in Nat,
         NEW x \in 0 .. r - 1, NEW y \in 0 .. r - 1, (p * r) + x = (q * r) + y
  PROVE  p = q /\ x = y
  <1>1. ASSUME NEW a \in Nat, NEW b \in Nat, NEW u \in 0 .. r - 1, NEW v \in 0 .. r - 1,
               (a * r) + u = (b * r) + v
        PROVE  ~(a < b)
    <2> SUFFICES ASSUME a < b PROVE FALSE
      OBVIOUS
    <2>1. PICK d \in Nat : b = a + 1 + d
      <3>1. b - a - 1 \in Nat /\ b = a + 1 + (b - a - 1)
        OBVIOUS
      <3> QED BY <3>1
    <2>2. b * r = (a * r) + r + (d * r)
      BY <2>1
    <2>3. d * r \in Nat /\ a * r \in Nat
      OBVIOUS
    <2> QED BY <1>1, <2>2, <2>3
  <1>2. ~(p < q) /\ ~(q < p)
    BY <1>1
  <1>3. p = q
    BY <1>2
  <1>4. p * r = q * r /\ p * r \in Nat
    BY <1>3
  <1> QED BY <1>3, <1>4

\* Records counted from a later sector boundary.
LEMMA DivShift ==
  ASSUME NEW r \in Nat \ {0}, NEW c \in Nat, NEW a \in Nat
  PROVE  /\ ((c * r) + a) \div r = c + (a \div r)
         /\ ((c * r) + a) % r = a % r
  <1> DEFINE b == (c * r) + a
             p == a \div r
             x == a % r
             q == b \div r
             y == b % r
  <1>0. b \in Nat
    OBVIOUS
  <1>1. p \in Nat /\ x \in 0 .. r - 1 /\ a = (p * r) + x
    BY DivModSplit
  <1> HIDE DEF b
  <1>2. q \in Nat /\ y \in 0 .. r - 1 /\ b = (q * r) + y
    BY <1>0, DivModSplit
  <1> HIDE DEF p, x, q, y
  <1>3. (c + p) * r = (c * r) + (p * r)
    BY <1>1
  <1>4. c * r \in Nat /\ p * r \in Nat /\ b = (c * r) + a
    BY <1>1 DEF b
  <1>5. ((c + p) * r) + x = (q * r) + y /\ c + p \in Nat
    BY <1>1, <1>2, <1>3, <1>4
  <1>6. c + p = q /\ x = y
    BY <1>1, <1>2, <1>5, DivUnique
  <1> QED BY <1>6 DEF b, p, x, q, y

\* The flash part of the queue after a commit is the old one from the read
\* cursor on.
LEMMA CommitFlash ==
  ASSUME IInv, MarkInv, NEW m \in BOOLEAN, my_flash_store_commit(m)
  PROVE  /\ FlashTotal' = FlashTotal - read_offset
         /\ \A k \in 0 .. FlashTotal' - 1 : FlashRec(k)' = FlashRec(read_offset + k)
  <1> USE SizeAssumption
  <1> DEFINE c == ConsumedSectors
             n == FlashTotal
             n2 == FlashTotal'
             x == rd_rec_idx'
  <1>0. IInv' /\ MarkInv'
    <2>1. IInv'
      BY CommitIInv
    <2> QED BY <2>1, CommitLive DEF MarkInv, Live
  <1>1. /\ n \in Nat /\ rd_rec_idx + n = valid_sectors * RecPerSector
        /\ n2 \in Nat /\ x + n2 = valid_sectors' * RecPerSector
        /\ read_offset <= n
    BY <1>0, PendingFormNext, FlashTotalIs DEF PendingForm
  <1>2. /\ rd_rec_idx \in Slot /\ rd_rec_idx \in Nat /\ valid_sectors \in 0 .. RegionSectors
        /\ read_offset \in Nat /\ rd_sector \in 0 .. RegionSectors - 1
    BY DEF IInv, TypeOK, Slot, Sector
  <1>3. /\ c \in 0 .. valid_sectors /\ x \in Slot /\ x \in Nat
        /\ rd_sector' = (rd_sector + c) % RegionSectors
        /\ valid_sectors' = valid_sectors - c
        /\ rd_rec_idx + read_offset = (c * RecPerSector) + x
    BY CommitPointers DEF Slot
  <1>4. flash' = flash
    BY DEF my_flash_store_commit
  <1>5. n2 = n - read_offset
    <2> HIDE DEF c, n, n2, x
    <2>1. (valid_sectors - c) * RecPerSector = (valid_sectors * RecPerSector) - (c * RecPerSector)
      BY <1>2, <1>3
    <2>2. valid_sectors * RecPerSector \in Nat /\ c * RecPerSector \in Nat
      BY <1>2, <1>3
    <2> QED BY <1>1, <1>2, <1>3, <2>1, <2>2
  <1>6. ASSUME NEW k \in 0 .. n2 - 1
        PROVE  FlashRec(k)' = FlashRec(read_offset + k)
    <2> DEFINE b == x + k
               p == b \div RecPerSector
               s == b % RecPerSector
    <2>1. k \in Nat /\ x + k < valid_sectors' * RecPerSector /\ valid_sectors' \in Nat
      <3> HIDE DEF n2, x, c, n, b, p, s
      <3>1. valid_sectors' \in Nat /\ k \in Nat
        BY <1>1, <1>2, <1>3, <1>6
      <3>2. valid_sectors' * RecPerSector \in Nat
        BY <3>1, MulNat
      <3> QED BY <1>1, <1>3, <1>6, <3>1, <3>2
    <2>2. p \in 0 .. valid_sectors' - 1
      <3> HIDE DEF x
      <3> QED BY <2>1, <1>3, SlotOf
    <2>3. FlashRec(k)' = flash[(rd_sector' + p) % RegionSectors][s]
      BY <1>4 DEF FlashRec
    <2>4. b \in Nat /\ rd_rec_idx + (read_offset + k) = (c * RecPerSector) + b
      <3> HIDE DEF x, c
      <3>1. c * RecPerSector \in Nat
        BY <1>2, <1>3
      <3> QED BY <1>2, <1>3, <2>1, <3>1
    <2>5. c \in Nat
      BY <1>2, <1>3
    <2> HIDE DEF b, x, c
    <2>6. /\ ((c * RecPerSector) + b) \div RecPerSector = c + p
          /\ ((c * RecPerSector) + b) % RecPerSector = s
      BY <2>4, <2>5, DivShift
    <2>7. FlashRec(read_offset + k) = flash[(rd_sector + (c + p)) % RegionSectors][s]
      BY <2>4, <2>6 DEF FlashRec
    <2>8. p \in Nat /\ c + p <= RegionSectors
      BY <1>2, <1>3, <2>2
    <2> HIDE DEF p, s
    <2>9. (((rd_sector + c) % RegionSectors) + p) % RegionSectors = (rd_sector + (c + p)) % RegionSectors
      BY <1>2, <2>5, <2>8, RingAdd, ZenonT(60)
    <2> QED BY <1>3, <2>3, <2>7, <2>9
  <1> QED BY <1>5, <1>6

\* A commit leaves the staged records behind the staging cursor.
LEMMA CommitStaging ==
  ASSUME IInv, NEW m \in BOOLEAN, my_flash_store_commit(m)
  PROVE  /\ staging_read_idx \in Nat /\ staging_read_idx <= Len(staging)
         /\ Len(staging') = Len(staging) - staging_read_idx
         /\ \A i \in 1 .. Len(staging) - staging_read_idx :
              staging'[i] = staging[staging_read_idx + i]
  <1> DEFINE q == staging_read_idx
             t == Len(staging)
  <1>1. q \in Nat /\ t \in Nat /\ q <= t /\ staging \in Seq(Rec)
    BY DEF IInv, TypeOK, CursorsInBounds
  <1>2. staging' = SubSeq(staging, q + 1, t)
    BY <1>1 DEF my_flash_store_commit, StagingRemain
  <1>3. \A i \in q + 1 .. t : staging[i] \in Rec
    BY <1>1, ElementOfSeq
  <1> HIDE DEF q, t
  <1>4. q + 1 \in Int /\ t \in Int
    BY <1>1
  <1>5. /\ Len(staging') = (IF q + 1 <= t THEN t - (q + 1) + 1 ELSE 0)
        /\ \A i \in 1 .. t - (q + 1) + 1 : staging'[i] = staging[(q + 1) + i - 1]
    BY <1>2, <1>3, <1>4, SubSeqProperties
  <1>6. Len(staging') = t - q /\ t - (q + 1) + 1 = t - q
    BY <1>1, <1>5
  <1>7. \A i \in 1 .. t - q : (q + 1) + i - 1 = q + i
    BY <1>1
  <1>8. \A i \in 1 .. t - q : staging'[i] = staging[q + i]
    BY <1>5, <1>6, <1>7
  <1> QED BY <1>1, <1>6, <1>8 DEF q, t

\* my_flash_store_commit leaves the pending records after the handed out ones.
LEMMA CommitPending ==
  ASSUME IInv, MarkInv, SessInv, NEW m \in BOOLEAN, my_flash_store_commit(m)
  PROVE  Pending' = SubSeq(Pending, Len(session) + 1, Len(Pending))
  <1> DEFINE n == FlashTotal
             n2 == FlashTotal'
             q == staging_read_idx
             h == Len(session)
             t == Len(staging)
             R == SubSeq(Pending, Len(session) + 1, Len(Pending))
  <1>0. IInv' /\ MarkInv'
    <2>1. IInv'
      BY CommitIInv
    <2> QED BY <2>1, CommitLive DEF MarkInv, Live
  <1>1. /\ Pending' \in Seq(Rec) /\ Len(Pending') = n2 + Len(staging')
        /\ \A i \in 1 .. n2 : Pending'[i] = FlashRec(i - 1)'
        /\ \A i \in 1 .. Len(staging') : Pending'[n2 + i] = staging'[i]
    BY <1>0, PendingFormNext DEF PendingForm
  <1>2. /\ Pending \in Seq(Rec) /\ Len(Pending) = n + t /\ n \in Nat /\ t \in Nat
        /\ \A i \in 1 .. n : Pending[i] = FlashRec(i - 1)
        /\ \A i \in 1 .. t : Pending[n + i] = staging[i]
    BY PendingIs
  <1>3. /\ n2 = n - read_offset
        /\ \A k \in 0 .. n2 - 1 : FlashRec(k)' = FlashRec(read_offset + k)
    BY CommitFlash
  <1>4. /\ read_offset \in Nat /\ read_offset <= n /\ q \in Nat /\ q <= t /\ staging \in Seq(Rec)
        /\ h = read_offset + q
        /\ q > 0 => read_offset = n
    BY FlashTotalIs DEF IInv, TypeOK, CursorsInBounds, SessInv, SessForm
  <1> HIDE DEF n, n2, q, h, t
  <1>6. Len(staging') = t - q /\ \A i \in 1 .. t - q : staging'[i] = staging[q + i]
    BY CommitStaging DEF t, q
  <1>7. /\ R \in Seq(Rec) /\ Len(R) = (n + t) - h
        /\ \A i \in 1 .. (n + t) - h : R[i] = Pending[h + i]
    <2>0. R = SubSeq(Pending, h + 1, n + t)
      BY <1>2 DEF h
    <2> HIDE DEF R
    <2>1. h \in Nat /\ h <= n + t
      BY <1>2, <1>4
    <2>2. \A i \in h + 1 .. n + t : Pending[i] \in Rec
      <3> TAKE i \in h + 1 .. n + t
      <3>1. i \in 1 .. Len(Pending)
        BY <1>2, <2>1
      <3> QED BY <1>2, <3>1, ElementOfSeq
    <2>3. h + 1 \in Int /\ n + t \in Int
      BY <1>2, <2>1
    <2>4. /\ R \in Seq(Rec) /\ Len(R) = (IF h + 1 <= n + t THEN (n + t) - (h + 1) + 1 ELSE 0)
          /\ \A i \in 1 .. (n + t) - (h + 1) + 1 : R[i] = Pending[(h + 1) + i - 1]
      BY <2>0, <2>2, <2>3, SubSeqProperties
    <2>5. Len(R) = (n + t) - h /\ (n + t) - (h + 1) + 1 = (n + t) - h
      BY <1>2, <2>1, <2>4
    <2>6. \A i \in 1 .. (n + t) - h : (h + 1) + i - 1 = h + i
      BY <1>2, <2>1
    <2> QED BY <2>4, <2>5, <2>6
  <1> HIDE DEF R
  <1>8. Len(Pending') = Len(R)
    BY <1>1, <1>2, <1>3, <1>4, <1>6, <1>7
  <1>9. \A i \in 1 .. Len(Pending') : Pending'[i] = R[i]
    <2> TAKE i \in 1 .. Len(Pending')
    <2>0. i \in 1 .. (n + t) - h
      BY <1>2, <1>4, <1>7, <1>8
    <2>1. CASE i <= n2
      <3>1. /\ i \in 1 .. n2 /\ i - 1 \in 0 .. n2 - 1
            /\ q = 0 /\ h + i \in 1 .. n /\ read_offset + (i - 1) = (h + i) - 1
        BY <1>2, <1>3, <1>4, <2>0, <2>1
      <3>2. Pending'[i] = FlashRec(i - 1)'
        BY <1>1, <3>1
      <3>3. FlashRec(i - 1)' = FlashRec(read_offset + (i - 1))
        BY <1>3, <3>1
      <3>4. Pending[h + i] = FlashRec((h + i) - 1)
        BY <1>2, <3>1
      <3>5. R[i] = Pending[h + i]
        BY <1>7, <2>0
      <3> QED BY <3>1, <3>2, <3>3, <3>4, <3>5
    <2>2. CASE ~(i <= n2)
      <3>1. /\ i - n2 \in 1 .. t - q /\ n2 + (i - n2) = i
            /\ q + (i - n2) \in 1 .. t /\ n + (q + (i - n2)) = h + i
        BY <1>1, <1>2, <1>3, <1>4, <1>6, <2>0, <2>2
      <3>2. Pending'[i] = staging'[i - n2]
        BY <1>1, <1>6, <3>1
      <3>3. staging'[i - n2] = staging[q + (i - n2)]
        BY <1>6, <3>1
      <3>4. Pending[h + i] = staging[q + (i - n2)]
        BY <1>2, <3>1
      <3>5. R[i] = Pending[h + i]
        BY <1>7, <2>0
      <3> QED BY <3>2, <3>3, <3>4, <3>5
    <2> QED BY <2>1, <2>2
  <1>10. Pending' = R
    BY <1>1, <1>7, <1>8, <1>9, SeqEqual
  <1> QED BY <1>10 DEF R

\* A commit removes from the front of the pending records exactly the ones
\* the session handed out, for every region size, read cursor and fault.
THEOREM CommitsAreExact == Spec => CommitExact
  <1> DEFINE Exact == \A m \in BOOLEAN : my_flash_store_commit(m) =>
                        Pending' = SubSeq(Pending, Len(session) + 1, Len(Pending))
  <1>1. IInv /\ MarkInv /\ SessInv /\ [Next]_vars => [Exact]_vars
    BY CommitPending
  <1> HIDE DEF Exact
  <1>2. Spec => [][Exact]_vars
    BY <1>1, InitIInv, NextIInv, InitMark, NextMark, InitSess, NextSess, PTL DEF Spec
  <1> QED BY <1>2 DEF Exact, CommitExact

-----------------------------------------------------------------------------
(* A confirmed record never comes back.                                    *)

\* No record number is stored twice in a sector of a window or in staging,
\* unless a failed write doubled it, and none is stored before it was pushed.
Distinct ==
  /\ \A s, t \in Held, i, j \in Slot :
       flash[s][i] = flash[t][j] => flash[s][i] \in doubled \cup {NoRec} \/ (s = t /\ i = j)
  /\ \A s \in Held, i \in Slot : flash[s][i] <= pushed
  /\ \A i \in 1 .. Len(staging) : staging[i] <= pushed
  /\ \A i, j \in 1 .. Len(staging) : staging[i] = staging[j] => i = j
  /\ \A s \in Held, i \in Slot, k \in 1 .. Len(staging) :
       flash[s][i] = staging[k] => staging[k] \in doubled

\* The confirmed records that no failed write doubled.
Settled == confirmed \ doubled

\* No settled record is in the window in RAM, in the window a boot would
\* load or in the staging buffer.
ConfInv ==
  /\ confirmed \subseteq 1 .. pushed
  /\ Live(Rec \ Settled)
  /\ \A i \in 1 .. Len(staging) : staging[i] \notin Settled

\* The sectors of a window are sectors of the ring.
LEMMA HeldSectors ==
  ASSUME IInv PROVE Held \subseteq Sector
  <1>1. rd_sector \in Nat /\ meta.rd \in Nat
    BY SizeAssumption DEF IInv, TypeOK, Meta, Sector
  <1>2. WindowSectors(rd_sector, valid_sectors) \subseteq Sector
    BY <1>1, RingSector DEF WindowSectors
  <1>3. WindowSectors(meta.rd, meta.valid) \subseteq Sector
    BY <1>1, RingSector DEF WindowSectors
  <1> QED BY <1>2, <1>3 DEF Held

\* A window that moves forward holds no sector it did not hold.
LEMMA WindowDrop ==
  ASSUME NEW rd \in Sector, NEW n \in 0 .. RegionSectors, NEW c \in 0 .. n
  PROVE  WindowSectors((rd + c) % RegionSectors, n - c) \subseteq WindowSectors(rd, n)
  <1> SUFFICES ASSUME NEW j \in 0 .. (n - c) - 1
               PROVE  (((rd + c) % RegionSectors) + j) % RegionSectors \in WindowSectors(rd, n)
    BY DEF WindowSectors
  <1>1. (((rd + c) % RegionSectors) + j) % RegionSectors = (rd + (c + j)) % RegionSectors
    BY RingAdd, SizeAssumption DEF Sector
  <1>2. c + j \in 0 .. n - 1
    OBVIOUS
  <1>3. (rd + (c + j)) % RegionSectors \in WindowSectors(rd, n)
    BY <1>2 DEF WindowSectors
  <1> QED BY <1>1, <1>3

\* A flush adds the sector it wrote to the window, and no other.
LEMMA WindowAdvance ==
  ASSUME IInv, AdvanceRing
  PROVE  WindowSectors(rd_sector', valid_sectors')
           \subseteq WindowSectors(rd_sector, valid_sectors) \cup {wr_sector}
  <1> USE SizeAssumption
  <1>0. /\ rd_sector \in Sector /\ rd_sector \in 0 .. RegionSectors - 1
        /\ valid_sectors \in 0 .. RegionSectors
        /\ wr_sector = (rd_sector + valid_sectors) % RegionSectors
    BY DEF IInv, TypeOK, RingConsistent, Sector
  <1>1. CASE valid_sectors < RegionSectors
    <2>1. valid_sectors' = valid_sectors + 1 /\ rd_sector' = rd_sector
      BY <1>1 DEF AdvanceRing
    <2>0. 0 .. valid_sectors' - 1 = 0 .. valid_sectors
      BY <1>0, <2>1
    <2> SUFFICES ASSUME NEW j \in 0 .. valid_sectors
                 PROVE  (rd_sector + j) % RegionSectors
                          \in WindowSectors(rd_sector, valid_sectors) \cup {wr_sector}
      <3>1. WindowSectors(rd_sector', valid_sectors')
              = {(rd_sector + j) % RegionSectors : j \in 0 .. valid_sectors}
        BY <2>0, <2>1 DEF WindowSectors
      <3> QED BY <3>1
    <2>2. CASE j = valid_sectors
      BY <1>0, <2>2
    <2>3. CASE j # valid_sectors
      <3>1. j \in 0 .. valid_sectors - 1
        BY <1>0, <2>3
      <3> QED BY <3>1 DEF WindowSectors
    <2> QED BY <2>2, <2>3
  <1>2. CASE ~(valid_sectors < RegionSectors)
    <2>1. /\ valid_sectors' = RegionSectors /\ valid_sectors = RegionSectors
          /\ rd_sector' = (rd_sector + 1) % RegionSectors
      BY <1>0, <1>2 DEF AdvanceRing, NextSector
    <2> SUFFICES ASSUME NEW j \in 0 .. RegionSectors - 1
                 PROVE  (((rd_sector + 1) % RegionSectors) + j) % RegionSectors
                          \in WindowSectors(rd_sector, RegionSectors) \cup {wr_sector}
      BY <2>1 DEF WindowSectors
    <2>2. (((rd_sector + 1) % RegionSectors) + j) % RegionSectors
            = (rd_sector + (1 + j)) % RegionSectors
      BY <1>0, RingAdd
    <2>3. CASE j = RegionSectors - 1
      <3>1. 1 + j = RegionSectors
        BY <2>3
      <3> QED BY <1>0, <2>1, <2>2, <3>1
    <2>4. CASE j # RegionSectors - 1
      <3>1. 1 + j \in 0 .. RegionSectors - 1
        BY <2>4
      <3>2. (rd_sector + (1 + j)) % RegionSectors \in WindowSectors(rd_sector, RegionSectors)
        BY <3>1 DEF WindowSectors
      <3> QED BY <2>2, <3>2
    <2> QED BY <2>3, <2>4
  <1> QED BY <1>1, <1>2

\* An empty window has no sectors.
LEMMA WindowNone ==
  ASSUME NEW rd PROVE WindowSectors(rd, 0) = {}
  <1>1. 0 .. 0 - 1 = {}
    OBVIOUS
  <1> QED BY <1>1 DEF WindowSectors

\* A save makes the saved window the one in use, or leaves it.
LEMMA HeldSaved ==
  ASSUME NEW m \in BOOLEAN, MetaSave(m), NEW W,
         WindowSectors(rd_sector', valid_sectors') \subseteq W,
         Held \subseteq W
  PROVE  Held' \subseteq W
  <1>1. CASE m
    <2>1. meta'.rd = rd_sector' /\ meta'.valid = valid_sectors'
      BY <1>1 DEF MetaSave
    <2> QED BY <2>1 DEF Held
  <1>2. CASE ~m
    <2>1. meta' = meta
      BY <1>2 DEF MetaSave
    <2>2. Held' = WindowSectors(rd_sector', valid_sectors') \cup WindowSectors(meta.rd, meta.valid)
      BY <2>1 DEF Held
    <2> QED BY <2>2 DEF Held
  <1> QED BY <1>1, <1>2

\* A power loss keeps the saved window only.
LEMMA HeldLost ==
  ASSUME RamLost PROVE Held' \subseteq Held
  <1>1. valid_sectors' = 0 /\ meta' = meta
    BY DEF RamLost, RegionReset
  <1>2. WindowSectors(rd_sector', valid_sectors') = {}
    BY <1>1, WindowNone
  <1>3. Held' = WindowSectors(rd_sector', valid_sectors') \cup WindowSectors(meta.rd, meta.valid)
    BY <1>1 DEF Held
  <1> QED BY <1>2, <1>3 DEF Held

\* The store starts empty.
LEMMA InitDistinct == Init => Distinct /\ ConfInv
  <1> SUFFICES ASSUME Init PROVE Distinct /\ ConfInv
    OBVIOUS
  <1>1. /\ \A s \in Sector, i \in Slot : flash[s][i] = NoRec
        /\ Len(staging) = 0 /\ pushed = 0 /\ confirmed = {}
    BY DEF Init
  <1>2. Live(Rec \ Settled)
    BY EmptyWindow DEF Init, Live, NoMeta
  <1>3. Held \subseteq Sector
    BY InitIInv, HeldSectors
  <1> QED BY <1>1, <1>2, <1>3 DEF Distinct, ConfInv, Settled, NoRec

\* The windows' sectors untouched, and staging left with some of its records.
LEMMA ThinnedDistinct ==
  ASSUME IInv, Distinct, Held' \subseteq Held, doubled \subseteq doubled',
         \A s \in Held', i \in Slot : flash'[s][i] = flash[s][i],
         pushed' \in Nat, pushed' >= pushed,
         Len(staging') \in Nat, NEW d \in Nat, d + Len(staging') <= Len(staging),
         \A i \in 1 .. Len(staging') : staging'[i] = staging[d + i]
  PROVE  Distinct'
  <1>0. /\ Len(staging) \in Nat /\ pushed \in Nat
        /\ \A s \in Held, i \in Slot : flash[s][i] \in Nat
        /\ \A i \in 1 .. Len(staging) : staging[i] \in Nat
    BY SizeAssumption, ElementOfSeq, HeldSectors DEF IInv, TypeOK, Rec, NoRec
  <1>1. \A i \in 1 .. Len(staging') : d + i \in 1 .. Len(staging)
    BY <1>0
  <1>2. \A s \in Held', i \in Slot : flash'[s][i] <= pushed'
    BY <1>0 DEF Distinct
  <1>3. \A i \in 1 .. Len(staging') : staging'[i] <= pushed'
    BY <1>0, <1>1 DEF Distinct
  <1>4. ASSUME NEW i \in 1 .. Len(staging'), NEW j \in 1 .. Len(staging'), staging'[i] = staging'[j]
        PROVE  i = j
    <2>1. staging[d + i] = staging[d + j] /\ d + i \in 1 .. Len(staging) /\ d + j \in 1 .. Len(staging)
      BY <1>1, <1>4
    <2>2. \A a, b \in 1 .. Len(staging) : staging[a] = staging[b] => a = b
      BY DEF Distinct
    <2>3. d + i = d + j
      BY <2>1, <2>2
    <2> QED BY <2>3
  <1>5. ASSUME NEW s \in Held', NEW i \in Slot, NEW k \in 1 .. Len(staging'),
               flash'[s][i] = staging'[k]
        PROVE  staging'[k] \in doubled'
    BY <1>1, <1>5 DEF Distinct
  <1>6. ASSUME NEW s \in Held', NEW t \in Held', NEW i \in Slot, NEW j \in Slot,
               flash'[s][i] = flash'[t][j]
        PROVE  flash'[s][i] \in doubled' \cup {NoRec} \/ (s = t /\ i = j)
    BY <1>6 DEF Distinct
  <1> QED BY <1>2, <1>3, <1>4, <1>5, <1>6 DEF Distinct

\* The windows' sectors and staging untouched.
LEMMA KeptDistinct ==
  ASSUME IInv, Distinct, Held' \subseteq Held, doubled \subseteq doubled',
         \A s \in Held', i \in Slot : flash'[s][i] = flash[s][i],
         staging' = staging, pushed' \in Nat, pushed' >= pushed
  PROVE  Distinct'
  <1>1. Len(staging) \in Nat
    BY DEF IInv, TypeOK
  <1>2. \A i \in 1 .. Len(staging') : staging'[i] = staging[0 + i]
    BY <1>1
  <1>3. 0 \in Nat /\ 0 + Len(staging') <= Len(staging) /\ Len(staging') \in Nat
    BY <1>1
  <1> QED BY <1>2, <1>3, ThinnedDistinct

\* Flash, pointers and staging untouched.
LEMMA SameDistinct ==
  ASSUME IInv, Distinct, UNCHANGED <<flash, ptrs, meta, staging, doubled>>,
         pushed' \in Nat, pushed' >= pushed
  PROVE  Distinct'
  <1>1. Held' = Held
    BY DEF Held, ptrs
  <1> QED BY <1>1, KeptDistinct

\* Flash untouched, staging emptied.
LEMMA EmptiedDistinct ==
  ASSUME IInv, Distinct, Held' \subseteq Held, UNCHANGED <<flash, pushed, doubled>>,
         staging' = <<>>
  PROVE  Distinct'
  <1>1. Len(staging) \in Nat /\ Len(staging') = 0 /\ pushed \in Nat
    BY SizeAssumption DEF IInv, TypeOK
  <1>2. \A i \in 1 .. Len(staging') : staging'[i] = staging[0 + i]
    BY <1>1
  <1>3. 0 \in Nat /\ 0 + Len(staging') <= Len(staging) /\ Len(staging') \in Nat
    BY <1>1
  <1> QED BY <1>1, <1>2, <1>3, ThinnedDistinct

\* The new record is stored nowhere yet.
LEMMA NewRecFresh ==
  ASSUME IInv, Distinct, pushed < MaxRec
  PROVE  /\ pushed \in Nat /\ NewRec = pushed + 1
         /\ \A s \in Held, i \in Slot : flash[s][i] # NewRec
         /\ \A i \in 1 .. Len(staging) : staging[i] # NewRec
         /\ \A s \in Held, i \in Slot : flash[s][i] \in Nat
         /\ \A i \in 1 .. Len(staging) : staging[i] \in Nat
  <1>1. /\ pushed \in Nat /\ NewRec = pushed + 1
        /\ \A s \in Held, i \in Slot : flash[s][i] \in Nat
        /\ \A i \in 1 .. Len(staging) : staging[i] \in Nat
    BY SizeAssumption, ElementOfSeq, HeldSectors DEF IInv, TypeOK, Rec, NoRec, NewRec
  <1>2. \A s \in Held, i \in Slot : flash[s][i] # NewRec
    BY <1>1 DEF Distinct
  <1>3. \A i \in 1 .. Len(staging) : staging[i] # NewRec
    BY <1>1 DEF Distinct
  <1> QED BY <1>1, <1>2, <1>3

\* A record is staged.
LEMMA AppendDistinct ==
  ASSUME IInv, Distinct, pushed < MaxRec, pushed' = pushed + 1,
         UNCHANGED <<flash, ptrs, meta, doubled>>,
         staging' = Append(staging, NewRec)
  PROVE  Distinct'
  <1>0. Held' = Held
    BY DEF Held, ptrs
  <1>1. /\ staging \in Seq(Rec) /\ Len(staging) \in Nat /\ Len(staging') = Len(staging) + 1
        /\ \A i \in 1 .. Len(staging) : staging'[i] = staging[i]
        /\ staging'[Len(staging) + 1] = NewRec
    BY AppendedOK, AppendProperties DEF IInv, TypeOK
  <1>2. \A i \in 1 .. Len(staging') : i \in 1 .. Len(staging) \/ i = Len(staging) + 1
    BY <1>1
  <1>3. \A s \in Held', i \in Slot : flash'[s][i] <= pushed'
    BY <1>0, NewRecFresh DEF Distinct
  <1>4. \A i \in 1 .. Len(staging') : staging'[i] <= pushed'
    <2> TAKE i \in 1 .. Len(staging')
    <2>1. CASE i \in 1 .. Len(staging)
      BY <2>1, <1>1, NewRecFresh DEF Distinct
    <2>2. CASE i = Len(staging) + 1
      BY <2>2, <1>1, NewRecFresh
    <2> QED BY <1>2, <2>1, <2>2
  <1>5. ASSUME NEW i \in 1 .. Len(staging'), NEW j \in 1 .. Len(staging'), staging'[i] = staging'[j]
        PROVE  i = j
    BY <1>1, <1>2, <1>5, NewRecFresh DEF Distinct
  <1>6. ASSUME NEW s \in Held', NEW i \in Slot, NEW k \in 1 .. Len(staging'),
               flash'[s][i] = staging'[k]
        PROVE  staging'[k] \in doubled'
    BY <1>0, <1>1, <1>2, <1>6, NewRecFresh DEF Distinct
  <1>7. \A s, t \in Held', i, j \in Slot :
          flash'[s][i] = flash'[t][j] =>
            flash'[s][i] \in doubled' \cup {NoRec} \/ (s = t /\ i = j)
    BY <1>0 DEF Distinct
  <1> QED BY <1>3, <1>4, <1>5, <1>6, <1>7 DEF Distinct

\* Slots of one sector overwritten by distinct records that were not stored.
LEMMA OverwriteInjective ==
  ASSUME NEW f, NEW g, NEW r, NEW w, NEW H, NEW K, NEW D,
         \A s, t \in H, i, j \in Slot :
           f[s][i] = f[t][j] => f[s][i] \in D \/ (s = t /\ i = j),
         \A s \in H, i, j \in Slot : f[s][i] = r[j] => r[j] \in D,
         \A i, j \in Slot : r[i] = r[j] => i = j,
         \A s \in K, i \in Slot : (s \in H /\ g[s][i] = f[s][i]) \/ (s = w /\ g[s][i] = r[i])
  PROVE  \A s, t \in K, i, j \in Slot :
           g[s][i] = g[t][j] => g[s][i] \in D \/ (s = t /\ i = j)
  <1> SUFFICES ASSUME NEW s \in K, NEW t \in K, NEW i \in Slot, NEW j \in Slot,
                      g[s][i] = g[t][j], g[s][i] \notin D
               PROVE  s = t /\ i = j
    OBVIOUS
  <1>1. /\ (s \in H /\ g[s][i] = f[s][i]) \/ (s = w /\ g[s][i] = r[i])
        /\ (t \in H /\ g[t][j] = f[t][j]) \/ (t = w /\ g[t][j] = r[j])
    OBVIOUS
  <1>3. CASE s \in H /\ t \in H /\ g[s][i] = f[s][i] /\ g[t][j] = f[t][j]
    <2>1. f[s][i] = f[t][j] /\ f[s][i] \notin D
      BY <1>3
    <2> QED BY <1>3, <2>1
  <1>4. CASE s = w /\ t = w /\ g[s][i] = r[i] /\ g[t][j] = r[j]
    <2>1. r[i] = r[j]
      BY <1>4
    <2> QED BY <1>4, <2>1
  <1>5. CASE s \in H /\ g[s][i] = f[s][i] /\ g[t][j] = r[j]
    <2>1. f[s][i] = r[j] /\ r[j] \notin D
      BY <1>5
    <2> QED BY <1>5, <2>1
  <1>6. CASE t \in H /\ g[t][j] = f[t][j] /\ g[s][i] = r[i]
    <2>1. f[t][j] = r[i] /\ r[i] \notin D
      BY <1>6
    <2> QED BY <1>6, <2>1
  <1> QED BY <1>1, <1>3, <1>4, <1>5, <1>6

\* A flush, whole or torn: some slots of one sector get their staged record.
LEMMA WrittenDistinct ==
  ASSUME IInv, Distinct, pushed < MaxRec, pushed' = pushed + 1, staging' = <<>>,
         Len(staging) + 1 >= RecPerSector, doubled' = doubled,
         \A s \in Held', i \in Slot :
            \/ s \in Held /\ flash'[s][i] = flash[s][i]
            \/ s = wr_sector /\ flash'[s][i] = Append(staging, NewRec)[i + 1]
  PROVE  Distinct'
  <1> DEFINE recs == Append(staging, NewRec)
  <1>0. \A i \in Slot : i \in Nat /\ i + 1 \in 1 .. RecPerSector
    BY SizeAssumption DEF Slot
  <1>1. \A i \in 1 .. RecPerSector :
          /\ recs[i] = IF i <= Len(staging) THEN staging[i] ELSE NewRec
          /\ i <= Len(staging) => i \in 1 .. Len(staging)
    BY FlushedRecs
  <1>2. Len(staging) \in Nat
    BY DEF IInv, TypeOK
  <1> HIDE DEF recs
  <1>3. \A i \in Slot : recs[i + 1] <= pushed + 1
    <2> TAKE i \in Slot
    <2>1. CASE i + 1 <= Len(staging)
      BY <2>1, <1>0, <1>1, NewRecFresh, SMTT(40) DEF Distinct
    <2>2. CASE ~(i + 1 <= Len(staging))
      BY <2>2, <1>0, <1>1, NewRecFresh
    <2> QED BY <2>1, <2>2
  <1>4. \A s \in Held, i, j \in Slot : flash[s][i] = recs[j + 1] => recs[j + 1] \in doubled
    <2> TAKE s \in Held, i, j \in Slot
    <2>1. CASE j + 1 <= Len(staging)
      BY <2>1, <1>0, <1>1 DEF Distinct
    <2>2. CASE ~(j + 1 <= Len(staging))
      BY <2>2, <1>0, <1>1, NewRecFresh
    <2> QED BY <2>1, <2>2
  <1>5. \A i, j \in Slot : recs[i + 1] = recs[j + 1] => i = j
    <2> SUFFICES ASSUME NEW i \in Slot, NEW j \in Slot, recs[i + 1] = recs[j + 1] PROVE i = j
      OBVIOUS
    <2>1. /\ recs[i + 1] = IF i + 1 <= Len(staging) THEN staging[i + 1] ELSE NewRec
          /\ recs[j + 1] = IF j + 1 <= Len(staging) THEN staging[j + 1] ELSE NewRec
          /\ i + 1 <= Len(staging) => i + 1 \in 1 .. Len(staging)
          /\ j + 1 <= Len(staging) => j + 1 \in 1 .. Len(staging)
      BY <1>0, <1>1
    <2>2. CASE i + 1 <= Len(staging) /\ j + 1 <= Len(staging)
      <3>1. i + 1 = j + 1
        BY <2>1, <2>2 DEF Distinct
      <3> QED BY <3>1, <1>0
    <2>3. CASE ~(i + 1 <= Len(staging)) /\ ~(j + 1 <= Len(staging))
      <3>1. i <= RecPerSector - 1 /\ j <= RecPerSector - 1 /\ i \in Nat /\ j \in Nat
        BY SizeAssumption DEF Slot
      <3> QED BY <3>1, <2>3, <1>2, SizeAssumption
    <2>4. CASE i + 1 <= Len(staging) /\ ~(j + 1 <= Len(staging))
      <3>1. staging[i + 1] = NewRec /\ i + 1 \in 1 .. Len(staging)
        BY <2>1, <2>4
      <3> QED BY <3>1, NewRecFresh
    <2>5. CASE ~(i + 1 <= Len(staging)) /\ j + 1 <= Len(staging)
      <3>1. staging[j + 1] = NewRec /\ j + 1 \in 1 .. Len(staging)
        BY <2>1, <2>5
      <3> QED BY <3>1, NewRecFresh
    <2> QED BY <2>2, <2>3, <2>4, <2>5
  <1>6. \A s \in Held', i \in Slot :
            \/ s \in Held /\ flash'[s][i] = flash[s][i]
            \/ s = wr_sector /\ flash'[s][i] = recs[i + 1]
    BY DEF recs
  <1>7. \A s \in Held', i \in Slot : flash'[s][i] <= pushed'
    <2> TAKE s \in Held', i \in Slot
    <2>2. CASE s \in Held /\ flash'[s][i] = flash[s][i]
      <3>1. flash[s][i] <= pushed /\ flash[s][i] \in Nat /\ pushed \in Nat
        BY <2>2, NewRecFresh DEF Distinct
      <3> QED BY <2>2, <3>1
    <2>3. CASE flash'[s][i] = recs[i + 1]
      BY <1>3, <2>3
    <2> QED BY <1>6, <2>2, <2>3
  <1>8. \A s, t \in Held', i, j \in Slot :
          flash'[s][i] = flash'[t][j] =>
            flash'[s][i] \in doubled' \cup {NoRec} \/ (s = t /\ i = j)
    <2> DEFINE r == [i \in Slot |-> recs[i + 1]]
               D == doubled \cup {NoRec}
    <2>1. \A i \in Slot : r[i] = recs[i + 1]
      OBVIOUS
    <2> HIDE DEF r
    <2>2. \A s, t \in Held, i, j \in Slot :
            flash[s][i] = flash[t][j] => flash[s][i] \in D \/ (s = t /\ i = j)
      BY DEF Distinct
    <2>3. \A s \in Held, i, j \in Slot : flash[s][i] = r[j] => r[j] \in D
      BY <1>4, <2>1
    <2>4. \A i, j \in Slot : r[i] = r[j] => i = j
      BY <1>5, <2>1
    <2>5. \A s \in Held', i \in Slot :
            \/ s \in Held /\ flash'[s][i] = flash[s][i]
            \/ s = wr_sector /\ flash'[s][i] = r[i]
      BY <1>6, <2>1
    <2>6. D = doubled' \cup {NoRec}
      OBVIOUS
    <2> HIDE DEF D
    <2>7. \A s, t \in Held', i, j \in Slot :
            flash'[s][i] = flash'[t][j] => flash'[s][i] \in D \/ (s = t /\ i = j)
      BY <2>2, <2>3, <2>4, <2>5, OverwriteInjective
    <2> QED BY <2>6, <2>7
  <1>9. Len(staging') = 0
    OBVIOUS
  <1>10. 1 .. Len(staging') = {}
    BY <1>9
  <1> QED BY <1>7, <1>8, <1>10 DEF Distinct

\* Whatever is handed out in a session comes from the records the cursors
\* have passed.
LEMMA SessionRecs ==
  ASSUME IInv, SessInv, NEW i \in 1 .. Len(session)
  PROVE  \/ \E k \in 0 .. read_offset - 1 : session[i] = FlashRec(k)
         \/ \E k \in 1 .. staging_read_idx : session[i] = staging[k]
  <1> DEFINE n == FlashTotal
  <1>1. /\ n \in Nat /\ read_offset \in Nat /\ staging_read_idx \in Nat
        /\ read_offset <= n /\ staging_read_idx <= upload_staging_snap
        /\ upload_staging_snap \in Nat
    BY FlashTotalIs DEF IInv, TypeOK, CursorsInBounds
  <1>2. /\ Len(session) = read_offset + staging_read_idx
        /\ staging_read_idx > 0 => read_offset = n
    BY DEF SessInv, SessForm
  <1>3. upload_active
    <2> SUFFICES ASSUME ~upload_active PROVE FALSE
      OBVIOUS
    <2>1. Len(session) = 0
      BY NoSession
    <2> QED BY <2>1
  <1>4. /\ session[i] = promised[i]
        /\ \A k \in 1 .. n : promised[k] = FlashRec(k - 1)
        /\ \A k \in 1 .. upload_staging_snap : promised[n + k] = staging[k]
    BY <1>3 DEF SessInv, SessKept
  <1> HIDE DEF n
  <1>5. CASE i <= read_offset
    <2>1. i \in 1 .. n /\ i - 1 \in 0 .. read_offset - 1
      BY <1>1, <1>2, <1>5
    <2>2. session[i] = FlashRec(i - 1)
      BY <1>4, <2>1
    <2> QED BY <2>1, <2>2
  <1>6. CASE ~(i <= read_offset)
    <2>1. /\ i - n \in 1 .. upload_staging_snap /\ i - n \in 1 .. staging_read_idx
          /\ n + (i - n) = i
      BY <1>1, <1>2, <1>6
    <2>2. session[i] = staging[i - n]
      BY <1>4, <2>1
    <2> QED BY <2>1, <2>2
  <1> QED BY <1>5, <1>6

\* A record a commit frees is in no slot of the window the commit leaves,
\* unless a failed write doubled it.
LEMMA FreedNotLive ==
  ASSUME IInv, MarkInv, Distinct, NEW m \in BOOLEAN, my_flash_store_commit(m),
         NEW k \in 0 .. read_offset - 1,
         NEW j \in 0 .. valid_sectors' - 1, NEW i \in Slot, j > 0 \/ i >= rd_rec_idx',
         FlashRec(k) \notin doubled
  PROVE  flash[(rd_sector' + j) % RegionSectors][i] # FlashRec(k)
  <1> USE SizeAssumption
  <1> DEFINE c == ConsumedSectors
             x == rd_rec_idx'
             a == rd_rec_idx + k
             p == a \div RecPerSector
             s == a % RecPerSector
  <1>1. /\ rd_rec_idx \in Slot /\ rd_rec_idx \in Nat /\ valid_sectors \in 0 .. RegionSectors
        /\ read_offset \in Nat /\ rd_sector \in 0 .. RegionSectors - 1
        /\ rd_rec_idx + read_offset <= valid_sectors * RecPerSector
        /\ valid_sectors * RecPerSector \in Nat
    BY FlashTotalIs DEF IInv, TypeOK, CursorsInBounds, Slot, Sector
  <1>2. /\ c \in 0 .. valid_sectors /\ x \in Slot /\ x \in Nat
        /\ rd_sector' = (rd_sector + c) % RegionSectors
        /\ valid_sectors' = valid_sectors - c
        /\ rd_rec_idx + read_offset = (c * RecPerSector) + x
    BY CommitPointers DEF Slot
  <1>3. k \in Nat /\ a < (c * RecPerSector) + x /\ a < valid_sectors * RecPerSector /\ c \in Nat
    <2>1. c \in Nat /\ k \in Nat /\ k < read_offset
      BY <1>1, <1>2
    <2> HIDE DEF c, x
    <2>2. c * RecPerSector \in Nat
      BY <2>1, MulNat
    <2> QED BY <1>1, <1>2, <2>1, <2>2
  <1>4. /\ p \in 0 .. valid_sectors - 1 /\ s \in Slot
        /\ a = (p * RecPerSector) + s
    <2>1. /\ valid_sectors \in Nat /\ rd_rec_idx \in Slot /\ k \in Nat
          /\ rd_rec_idx + k < valid_sectors * RecPerSector
      BY <1>1, <1>3
    <2>2. /\ (rd_rec_idx + k) \div RecPerSector \in 0 .. valid_sectors - 1
          /\ (rd_rec_idx + k) % RecPerSector \in Slot
          /\ rd_rec_idx + k = (((rd_rec_idx + k) \div RecPerSector) * RecPerSector)
                              + ((rd_rec_idx + k) % RecPerSector)
      BY <2>1, SlotOf
    <2> QED BY <2>2
  <1>5. FlashRec(k) = flash[(rd_sector + p) % RegionSectors][s]
    BY DEF FlashRec
  <1> HIDE DEF c, x, a, p, s
  <1>6. flash[(rd_sector' + j) % RegionSectors][i] = flash[(rd_sector + (c + j)) % RegionSectors][i]
    <2>1. /\ c \in Nat /\ j \in Nat /\ c + j <= RegionSectors
          /\ rd_sector \in 0 .. RegionSectors - 1
      BY <1>1, <1>2
    <2>2. (((rd_sector + c) % RegionSectors) + j) % RegionSectors
            = (rd_sector + (c + j)) % RegionSectors
      BY <2>1, RingAdd, ZenonT(60)
    <2> QED BY <1>2, <2>2
  <1>7. c + j \in 0 .. RegionSectors - 1 /\ p \in 0 .. RegionSectors - 1
    BY <1>1, <1>2, <1>4
  <1>8. (rd_sector + (c + j)) % RegionSectors \in Held /\ (rd_sector + p) % RegionSectors \in Held
    <2>1. c + j \in 0 .. valid_sectors - 1
      BY <1>1, <1>2
    <2> QED BY <1>4, <2>1 DEF Held, WindowSectors
  <1>9. flash[(rd_sector + p) % RegionSectors][s] # NoRec
    <2>1. k \in 0 .. FlashTotal - 1
      BY FlashTotalIs DEF IInv, TypeOK
    <2>2. FlashRec(k) \in Rec
      BY <2>1, FlashRecIn DEF MarkInv
    <2> QED BY <1>5, <2>2 DEF Rec, NoRec
  <1> SUFFICES ASSUME flash[(rd_sector + (c + j)) % RegionSectors][i]
                        = flash[(rd_sector + p) % RegionSectors][s]
               PROVE  FALSE
    BY <1>5, <1>6
  <1>10. (rd_sector + (c + j)) % RegionSectors = (rd_sector + p) % RegionSectors /\ i = s
    BY <1>4, <1>5, <1>8, <1>9 DEF Distinct
  <1>11. c + j = p
    BY <1>1, <1>7, <1>10, RingInjective
  <1>12. p * RecPerSector = (c * RecPerSector) + (j * RecPerSector)
    BY <1>2, <1>3, <1>11
  <1>13. j \in Nat /\ i \in Nat /\ x < RecPerSector /\ c * RecPerSector \in Nat
    BY <1>1, <1>2, <1>3, MulNat DEF Slot
  <1>14. j * RecPerSector \in Nat /\ (j > 0 => j * RecPerSector >= RecPerSector)
    BY <1>13, MulNat, MulPositive
  <1> DEFINE cr == c * RecPerSector
             jr == j * RecPerSector
  <1>15. (cr + jr) + i < cr + x
    BY <1>3, <1>4, <1>10, <1>12
  <1>16. cr \in Nat /\ jr \in Nat /\ (j > 0 => jr >= RecPerSector) /\ i \in Nat
         /\ x \in Nat /\ x < RecPerSector
    BY <1>2, <1>13, <1>14
  <1> HIDE DEF cr, jr
  <1>17. j > 0 \/ i >= x
    BY DEF x
  <1> QED BY <1>15, <1>16, <1>17

\* A failed flush gives up the new record only.
LEMMA FailedFlush ==
  ASSUME IInv, pushed < MaxRec, NEW k, FlushFails(Append(staging, NewRec), k)
  PROVE  staging' = staging
  <1> DEFINE recs == Append(staging, NewRec)
             t == Len(staging)
  <1>1. /\ staging \in Seq(Rec) /\ t \in Nat /\ recs \in Seq(Rec) /\ Len(recs) = t + 1
        /\ \A i \in 1 .. t : recs[i] = staging[i]
    BY AppendedOK, AppendProperties DEF IInv, TypeOK
  <1>2. staging' = SubSeq(recs, 1, Len(recs) - 1)
    BY DEF FlushFails
  <1> HIDE DEF recs
  <1>3. staging' = SubSeq(recs, 1, t)
    BY <1>1, <1>2
  <1>4. \A i \in 1 .. t : recs[i] \in Rec
    BY <1>1, ElementOfSeq
  <1> HIDE DEF t
  <1>5. 1 \in Int /\ t \in Int
    BY <1>1
  <1>6. /\ staging' \in Seq(Rec) /\ Len(staging') = (IF 1 <= t THEN t - 1 + 1 ELSE 0)
        /\ \A i \in 1 .. t - 1 + 1 : staging'[i] = recs[1 + i - 1]
    BY <1>3, <1>4, <1>5, SubSeqProperties
  <1>7. Len(staging') = t /\ t - 1 + 1 = t /\ \A i \in 1 .. t : 1 + i - 1 = i
    BY <1>1, <1>6
  <1>8. \A i \in 1 .. Len(staging') : staging'[i] = staging[i]
    BY <1>1, <1>6, <1>7
  <1> QED BY <1>1, <1>6, <1>7, <1>8, SeqEqual DEF t

\* A failed write doubles what it wrote into a sector of a window, and no
\* other record.
LEMMA FailedDistinct ==
  ASSUME IInv, Distinct, NEW k \in 0 .. RecPerSector, PushFailed(k)
  PROVE  Distinct'
  <1> DEFINE recs == Append(staging, NewRec)
  <1>1. /\ pushed < MaxRec /\ pushed' = pushed + 1 /\ Len(staging) + 1 >= RecPerSector
        /\ FlushFails(recs, k) /\ UNCHANGED <<ptrs, meta>>
        /\ flash' = [flash EXCEPT ![wr_sector] = SectorTorn(recs, k)]
        /\ doubled' = IF wr_sector \in Held THEN doubled \cup {recs[i] : i \in 1 .. k}
                                            ELSE doubled
    BY DEF PushFailed, PushStep, FlushesNow, FlushFails
  <1>2. staging' = staging
    BY <1>1, FailedFlush
  <1>3. Held' = Held
    BY <1>1 DEF Held, ptrs
  <1>4. /\ pushed \in Nat /\ Held \subseteq Sector
        /\ \A s \in Held, i \in Slot : flash[s][i] \in Nat /\ flash[s][i] <= pushed
        /\ \A i \in 1 .. Len(staging) : staging[i] \in Nat /\ staging[i] <= pushed
    BY <1>1, NewRecFresh, HeldSectors DEF Distinct
  <1>5. ASSUME NEW s \in Held, NEW i \in Slot, flash'[s][i] # flash[s][i]
        PROVE  flash'[s][i] \in doubled' /\ flash'[s][i] <= pushed'
    <2>1. s = wr_sector /\ i < k /\ flash'[s][i] = recs[i + 1]
      BY <1>1, <1>4, <1>5, TornSlots
    <2>2. i + 1 \in 1 .. k /\ i + 1 \in 1 .. RecPerSector
      BY <2>1, SizeAssumption DEF Slot
    <2>3. /\ recs[i + 1] = IF i + 1 <= Len(staging) THEN staging[i + 1] ELSE NewRec
          /\ i + 1 <= Len(staging) => i + 1 \in 1 .. Len(staging)
      BY <1>1, <2>2, FlushedRecs
    <2> HIDE DEF recs
    <2>4. recs[i + 1] \in doubled'
      BY <1>1, <2>1, <2>2
    <2>5. recs[i + 1] <= pushed'
      <3>1. CASE i + 1 <= Len(staging)
        <4>1. staging[i + 1] \in Nat /\ staging[i + 1] <= pushed
          BY <1>4, <2>3, <3>1
        <4> QED BY <1>1, <1>4, <2>3, <3>1, <4>1
      <3>2. CASE ~(i + 1 <= Len(staging))
        <4>1. recs[i + 1] = pushed + 1
          BY <2>3, <3>2 DEF NewRec
        <4> QED BY <1>1, <1>4, <4>1
      <3> QED BY <3>1, <3>2
    <2> QED BY <2>1, <2>4, <2>5
  <1>6. doubled \subseteq doubled'
    BY <1>1
  <1> HIDE DEF recs
  <1>7. \A s \in Held', i \in Slot : flash'[s][i] <= pushed'
    <2> TAKE s \in Held', i \in Slot
    <2>1. CASE flash'[s][i] = flash[s][i]
      BY <1>1, <1>3, <1>4, <2>1
    <2>2. CASE flash'[s][i] # flash[s][i]
      BY <1>3, <1>5, <2>2
    <2> QED BY <2>1, <2>2
  <1>8. \A i \in 1 .. Len(staging') : staging'[i] <= pushed'
    BY <1>1, <1>2, <1>4
  <1>9. \A i, j \in 1 .. Len(staging') : staging'[i] = staging'[j] => i = j
    BY <1>2 DEF Distinct
  <1>10. ASSUME NEW s \in Held', NEW t \in Held', NEW i \in Slot, NEW j \in Slot,
                flash'[s][i] = flash'[t][j], flash'[s][i] \notin doubled' \cup {NoRec}
         PROVE  s = t /\ i = j
    <2>1. flash'[s][i] = flash[s][i] /\ flash'[t][j] = flash[t][j]
      BY <1>3, <1>5, <1>10
    <2>2. flash[s][i] = flash[t][j] /\ flash[s][i] \notin doubled \cup {NoRec}
      BY <1>6, <1>10, <2>1
    <2> QED BY <1>3, <2>2 DEF Distinct
  <1>11. ASSUME NEW s \in Held', NEW i \in Slot, NEW n \in 1 .. Len(staging'),
                flash'[s][i] = staging'[n]
         PROVE  staging'[n] \in doubled'
    <2>1. CASE flash'[s][i] # flash[s][i]
      BY <1>3, <1>5, <1>11, <2>1
    <2>2. CASE flash'[s][i] = flash[s][i]
      <3>1. s \in Held /\ n \in 1 .. Len(staging) /\ flash[s][i] = staging[n]
        BY <1>2, <1>3, <1>11, <2>2
      <3>2. staging[n] \in doubled
        BY <3>1 DEF Distinct
      <3> QED BY <1>2, <1>6, <3>2
    <2> QED BY <2>1, <2>2
  <1> QED BY <1>7, <1>8, <1>9, <1>10, <1>11 DEF Distinct

\* Every step keeps record numbers apart.
LEMMA NextDistinct == IInv /\ Distinct /\ [Next]_vars => Distinct'
  <1> SUFFICES ASSUME IInv, Distinct, [Next]_vars PROVE Distinct'
    OBVIOUS
  <1> USE DEF ZmsOutcome
  <1>0. /\ pushed \in Nat /\ pushed >= pushed /\ wr_sector \in Sector /\ Held \subseteq Sector
        /\ flash \in [Sector -> [Slot -> Rec \cup {NoRec}]]
    BY SizeAssumption, HeldSectors DEF IInv, TypeOK
  <1>1. ASSUME NEW ok \in ZmsOutcome, my_flash_store_init(ok) PROVE Distinct'
    <2>1. staging' = <<>> /\ UNCHANGED <<flash, meta, pushed, doubled>>
      BY <1>1 DEF my_flash_store_init, RegionLoad, RegionReset
    <2>2. WindowSectors(rd_sector', valid_sectors') \subseteq Held
      <3>1. CASE ok /\ MetaUsable
        BY <1>1, <3>1 DEF my_flash_store_init, RegionLoad, Held
      <3>2. CASE ~(ok /\ MetaUsable)
        <4>1. valid_sectors' = 0
          BY <1>1, <3>2 DEF my_flash_store_init, RegionLoad, RegionReset
        <4> QED BY <4>1, WindowNone
      <3> QED BY <3>1, <3>2
    <2>3. Held' \subseteq Held
      <3>1. Held' = WindowSectors(rd_sector', valid_sectors') \cup WindowSectors(meta.rd, meta.valid)
        BY <2>1 DEF Held
      <3> QED BY <2>2, <3>1 DEF Held
    <2> QED BY <2>1, <2>3, EmptiedDistinct
  <1>2. CASE PushDropped
    <2>1. pushed' \in Nat /\ pushed' >= pushed
      BY <1>0, <1>2 DEF PushDropped, PushStep
    <2> QED BY <1>2, <2>1, SameDistinct DEF PushDropped
  <1>3. CASE PushStaged
    BY <1>3, AppendDistinct DEF PushStaged, PushStep
  <1>4. ASSUME NEW m \in ZmsOutcome, PushFlushed(m) PROVE Distinct'
    <2> DEFINE sec == SectorOf(Append(staging, NewRec))
    <2>1. /\ pushed < MaxRec /\ pushed' = pushed + 1 /\ Len(staging) + 1 >= RecPerSector
          /\ flash' = [flash EXCEPT ![wr_sector] = sec]
          /\ staging' = <<>> /\ doubled' = doubled /\ AdvanceRing /\ MetaSave(m)
      BY <1>4 DEF PushFlushed, PushStep, FlushesNow, FlushStaging
    <2>2. \A i \in Slot : sec[i] = Append(staging, NewRec)[i + 1]
      BY DEF SectorOf
    <2> HIDE DEF sec
    <2>3. Held' \subseteq Held \cup {wr_sector}
      <3>1. WindowSectors(rd_sector', valid_sectors') \subseteq Held \cup {wr_sector}
        BY <2>1, WindowAdvance DEF Held
      <3> QED BY <2>1, <3>1, HeldSaved
    <2>4. \A s \in Held', i \in Slot :
             \/ s \in Held /\ flash'[s][i] = flash[s][i]
             \/ s = wr_sector /\ flash'[s][i] = Append(staging, NewRec)[i + 1]
      <3> TAKE s \in Held', i \in Slot
      <3>1. CASE s = wr_sector
        <4>1. flash'[s] = sec
          BY <1>0, <2>1, <3>1
        <4> QED BY <2>2, <3>1, <4>1
      <3>2. CASE s # wr_sector
        BY <1>0, <2>1, <2>3, <3>2
      <3> QED BY <3>1, <3>2
    <2> QED BY <2>1, <2>4, WrittenDistinct
  <1>5. CASE my_flash_store_upload_begin
    BY <1>0, <1>5, SameDistinct DEF my_flash_store_upload_begin
  <1>6. CASE ReadFlash
    BY <1>0, <1>6, SameDistinct DEF ReadFlash, ReadFrame
  <1>7. CASE ReadError
    BY <1>0, <1>7, SameDistinct DEF ReadError, ReadFrame
  <1>8. CASE ReadStaging
    BY <1>0, <1>8, SameDistinct DEF ReadStaging, ReadFrame
  <1>9. CASE my_flash_store_rewind
    BY <1>0, <1>9, SameDistinct DEF my_flash_store_rewind
  <1>10. ASSUME NEW m \in ZmsOutcome, my_flash_store_commit(m) PROVE Distinct'
    <2>1. /\ staging_read_idx \in Nat /\ staging_read_idx <= Len(staging) /\ Len(staging) \in Nat
          /\ Len(staging') = Len(staging) - staging_read_idx
          /\ \A i \in 1 .. Len(staging) - staging_read_idx :
               staging'[i] = staging[staging_read_idx + i]
      <3>1. Len(staging) \in Nat
        BY DEF IInv, TypeOK
      <3> QED BY <1>10, <3>1, CommitStaging
    <2>2. Len(staging') \in Nat /\ staging_read_idx + Len(staging') <= Len(staging)
      BY <2>1
    <2>3. flash' = flash /\ pushed' = pushed /\ doubled' = doubled /\ MetaSave(m)
      BY <1>10 DEF my_flash_store_commit
    <2>4. \A i \in 1 .. Len(staging') : staging'[i] = staging[staging_read_idx + i]
      BY <2>1
    <2>5. Held' \subseteq Held
      <3>1. /\ rd_sector \in Sector /\ valid_sectors \in 0 .. RegionSectors
            /\ ConsumedSectors \in 0 .. valid_sectors
            /\ rd_sector' = (rd_sector + ConsumedSectors) % RegionSectors
            /\ valid_sectors' = valid_sectors - ConsumedSectors
        BY <1>10, CommitPointers DEF IInv, TypeOK
      <3> HIDE DEF ConsumedSectors
      <3>2. WindowSectors(rd_sector', valid_sectors') \subseteq Held
        BY <3>1, WindowDrop DEF Held
      <3> QED BY <2>3, <3>2, HeldSaved
    <2>6. doubled \subseteq doubled' /\ \A s \in Held', i \in Slot : flash'[s][i] = flash[s][i]
      BY <2>3
    <2> QED BY <1>0, <2>1, <2>2, <2>3, <2>4, <2>5, <2>6, ThinnedDistinct
  <1>11. ASSUME NEW m \in ZmsOutcome, my_flash_store_clear(m) PROVE Distinct'
    <2>1. valid_sectors' = 0 /\ staging' = <<>> /\ UNCHANGED <<flash, pushed, doubled>> /\ MetaSave(m)
      BY <1>11 DEF my_flash_store_clear, RegionReset
    <2>2. WindowSectors(rd_sector', valid_sectors') \subseteq Held
      BY <2>1, WindowNone
    <2>3. Held' \subseteq Held
      BY <2>1, <2>2, HeldSaved
    <2> QED BY <2>1, <2>3, EmptiedDistinct
  <1>12. CASE PowerLoss
    BY <1>12, HeldLost, EmptiedDistinct DEF PowerLoss, RamLost, RegionReset
  <1>13. ASSUME NEW k \in 0 .. RecPerSector, PowerLossInFlush(k) PROVE Distinct'
    <2>1. /\ pushed < MaxRec /\ pushed' = pushed + 1 /\ Len(staging) + 1 >= RecPerSector
          /\ flash' = [flash EXCEPT ![wr_sector] = SectorTorn(Append(staging, NewRec), k)]
          /\ staging' = <<>> /\ doubled' = doubled /\ RamLost
      BY <1>13 DEF PowerLossInFlush, FlushesNow, RamLost, RegionReset
    <2>2. Held' \subseteq Held
      BY <2>1, HeldLost
    <2>3. \A s \in Held', i \in Slot :
             \/ s \in Held /\ flash'[s][i] = flash[s][i]
             \/ s = wr_sector /\ flash'[s][i] = Append(staging, NewRec)[i + 1]
      <3>1. \A s \in Sector, i \in Slot :
               \/ flash'[s][i] = flash[s][i]
               \/ s = wr_sector /\ flash'[s][i] = Append(staging, NewRec)[i + 1]
        BY <2>1, TornSlots
      <3> QED BY <1>0, <2>2, <3>1
    <2> QED BY <2>1, <2>3, WrittenDistinct
  <1>14. ASSUME NEW k \in 0 .. RecPerSector, PushFailed(k) PROVE Distinct'
    BY <1>14, FailedDistinct
  <1>15. CASE UNCHANGED vars
    BY <1>0, <1>15, SameDistinct DEF vars
  <1> QED
    BY <1>1, <1>2, <1>3, <1>4, <1>5, <1>6, <1>7, <1>8, <1>9, <1>10, <1>11,
       <1>12, <1>13, <1>14, <1>15 DEF Next

\* Staged records and new ones are not settled.
LEMMA FlushedUnconfirmed ==
  ASSUME IInv, ConfInv, pushed < MaxRec, Len(staging) + 1 >= RecPerSector
  PROVE  \A i \in 1 .. RecPerSector : Append(staging, NewRec)[i] \in Rec \ Settled
  <1>1. NewRec \notin Settled
    <2>1. pushed \in Nat /\ NewRec = pushed + 1
      BY SizeAssumption DEF IInv, TypeOK, NewRec
    <2> QED BY <2>1 DEF ConfInv, Settled
  <1> TAKE i \in 1 .. RecPerSector
  <1>2. /\ Append(staging, NewRec)[i] \in Rec
        /\ Append(staging, NewRec)[i] = IF i <= Len(staging) THEN staging[i] ELSE NewRec
        /\ i <= Len(staging) => i \in 1 .. Len(staging)
    BY FlushedRecs
  <1>3. CASE i <= Len(staging)
    BY <1>2, <1>3 DEF ConfInv
  <1>4. CASE ~(i <= Len(staging))
    BY <1>1, <1>2, <1>4
  <1> QED BY <1>3, <1>4

\* A step that confirms nothing.
LEMMA NothingConfirmed ==
  ASSUME IInv, ConfInv, confirmed' = confirmed, doubled \subseteq doubled',
         pushed' \in Nat, pushed' >= pushed,
         SlotsIn(flash', Rec \ Settled, rd_sector', valid_sectors', rd_rec_idx'),
         SlotsIn(flash', Rec \ Settled, meta'.rd, meta'.valid, meta'.idx),
         \A i \in 1 .. Len(staging') : staging'[i] \notin Settled
  PROVE  ConfInv'
  <1>1. pushed \in Nat
    BY SizeAssumption DEF IInv, TypeOK
  <1>2. confirmed' \subseteq 1 .. pushed'
    BY <1>1 DEF ConfInv
  <1>3. Settled' \subseteq Settled
    BY DEF Settled
  <1>4. Live(Rec \ Settled)'
    BY <1>3 DEF Live, SlotsIn
  <1>5. \A i \in 1 .. Len(staging') : staging'[i] \notin Settled'
    BY <1>3
  <1> QED BY <1>2, <1>4, <1>5 DEF ConfInv

\* A step that leaves flash, pointers and staging alone.
LEMMA QuietConf ==
  ASSUME IInv, ConfInv, UNCHANGED <<flash, ptrs, meta, staging, confirmed, doubled>>,
         pushed' \in Nat, pushed' >= pushed
  PROVE  ConfInv'
  <1>1. /\ SlotsIn(flash', Rec \ Settled, rd_sector', valid_sectors', rd_rec_idx')
        /\ SlotsIn(flash', Rec \ Settled, meta'.rd, meta'.valid, meta'.idx)
    BY QuietLive DEF ConfInv
  <1>2. \A i \in 1 .. Len(staging') : staging'[i] \notin Settled
    BY DEF ConfInv
  <1> QED BY <1>1, <1>2, NothingConfirmed

\* A saved commit confirms what the session handed out, and leaves none of
\* it in a window or in staging.
LEMMA CommitConf ==
  ASSUME IInv, MarkInv, SessInv, Distinct, ConfInv,
         NEW m \in BOOLEAN, my_flash_store_commit(m)
  PROVE  ConfInv'
  <1>0. /\ pushed' = pushed /\ pushed \in Nat /\ flash' = flash /\ MetaSave(m)
        /\ Len(staging) \in Nat /\ read_offset \in Nat /\ FlashTotal \in Nat
        /\ read_offset <= FlashTotal
    BY SizeAssumption, FlashTotalIs DEF my_flash_store_commit, IInv, TypeOK
  <1>1. /\ SlotsIn(flash', Rec \ Settled, rd_sector', valid_sectors', rd_rec_idx')
        /\ SlotsIn(flash', Rec \ Settled, meta'.rd, meta'.valid, meta'.idx)
    BY CommitLive DEF ConfInv
  <1>2. /\ staging_read_idx \in Nat /\ staging_read_idx <= Len(staging)
        /\ Len(staging') = Len(staging) - staging_read_idx
        /\ \A i \in 1 .. Len(staging') : staging'[i] = staging[staging_read_idx + i]
    BY CommitStaging
  <1>3. \A i \in 1 .. Len(staging') : staging_read_idx + i \in 1 .. Len(staging)
    BY <1>0, <1>2
  <1>4. \A i \in 1 .. Len(staging') : staging'[i] \notin Settled
    BY <1>2, <1>3 DEF ConfInv
  <1>5. CASE ~m
    <2>1. UNCHANGED <<confirmed, doubled>>
      BY <1>5 DEF my_flash_store_commit
    <2> QED BY <1>0, <1>1, <1>4, <2>1, NothingConfirmed
  <1>6. CASE m
    <2> DEFINE H == {session[i] : i \in 1 .. Len(session)}
    <2>1. confirmed' = confirmed \cup H /\ doubled' = doubled
      BY <1>6 DEF my_flash_store_commit
    <2>2. meta'.rd = rd_sector' /\ meta'.valid = valid_sectors' /\ meta'.idx = rd_rec_idx'
      BY <1>0, <1>6 DEF MetaSave
    <2>3. ASSUME NEW r \in H
          PROVE  \/ \E k \in 0 .. read_offset - 1 : r = FlashRec(k)
                 \/ \E k \in 1 .. staging_read_idx : r = staging[k]
      <3>1. PICK i \in 1 .. Len(session) : r = session[i]
        OBVIOUS
      <3> QED BY <3>1, SessionRecs
    <2> HIDE DEF H
    <2>4. ASSUME NEW k \in 0 .. read_offset - 1
          PROVE  \E s \in Held, i \in Slot : FlashRec(k) = flash[s][i] /\ FlashRec(k) \in Rec
      <3>1. k \in 0 .. FlashTotal - 1
        <4> HIDE DEF FlashTotal
        <4> QED BY <1>0
      <3>2. FlashRec(k) \in Rec
        BY <3>1, FlashRecIn DEF MarkInv
      <3> DEFINE p == (rd_rec_idx + k) \div RecPerSector
                 n == (rd_rec_idx + k) % RecPerSector
      <3>3. FlashRec(k) = flash[(rd_sector + p) % RegionSectors][n]
        BY DEF FlashRec
      <3>4. p \in 0 .. valid_sectors - 1 /\ n \in Slot
        <4>1. /\ valid_sectors \in Nat /\ rd_rec_idx \in Slot /\ k \in Nat
              /\ rd_rec_idx + k < valid_sectors * RecPerSector
          <5>1. /\ rd_rec_idx + FlashTotal = valid_sectors * RecPerSector /\ FlashTotal \in Nat
                /\ valid_sectors \in Nat /\ rd_rec_idx \in Slot /\ rd_rec_idx \in Nat
            BY FlashTotalIs, SizeAssumption DEF IInv, TypeOK, Slot
          <5> HIDE DEF FlashTotal
          <5> QED BY <3>1, <5>1
        <4> QED BY <4>1, SlotOf
      <3> HIDE DEF p, n
      <3>5. (rd_sector + p) % RegionSectors \in Held
        BY <3>4 DEF Held, WindowSectors
      <3> QED BY <3>2, <3>3, <3>4, <3>5
    <2>5. H \subseteq 1 .. pushed
      <3> SUFFICES ASSUME NEW r \in H PROVE r \in 1 .. pushed
        OBVIOUS
      <3>1. CASE \E k \in 0 .. read_offset - 1 : r = FlashRec(k)
        <4>1. PICK s \in Held, i \in Slot : r = flash[s][i] /\ r \in Rec
          BY <3>1, <2>4
        <4>2. r <= pushed
          BY <4>1 DEF Distinct
        <4> QED BY <4>1, <4>2, <1>0 DEF Rec
      <3>2. CASE \E k \in 1 .. staging_read_idx : r = staging[k]
        <4>1. PICK k \in 1 .. staging_read_idx : r = staging[k]
          BY <3>2
        <4>2. k \in 1 .. Len(staging) /\ staging \in Seq(Rec)
          BY <1>0, <1>2 DEF IInv, TypeOK
        <4>3. r <= pushed /\ r \in Rec
          BY <4>1, <4>2, ElementOfSeq DEF Distinct
        <4> QED BY <4>3, <1>0 DEF Rec
      <3> QED BY <2>3, <3>1, <3>2
    <2>6. SlotsIn(flash', Rec \ Settled', rd_sector', valid_sectors', rd_rec_idx')
      <3> SUFFICES ASSUME NEW j \in 0 .. valid_sectors' - 1, NEW i \in Slot,
                          j > 0 \/ i >= rd_rec_idx'
                   PROVE  flash'[(rd_sector' + j) % RegionSectors][i] \in Rec \ Settled'
        BY DEF SlotsIn
      <3> DEFINE v == flash'[(rd_sector' + j) % RegionSectors][i]
      <3>1. v \in Rec \ Settled
        BY <1>1 DEF SlotsIn
      <3>2. v \notin H \ doubled
        <4> SUFFICES ASSUME v \in H, v \notin doubled PROVE FALSE
          OBVIOUS
        <4>1. CASE \E k \in 0 .. read_offset - 1 : v = FlashRec(k)
          BY <4>1, <1>0, FreedNotLive
        <4>2. CASE \E k \in 1 .. staging_read_idx : v = staging[k]
          <5>1. PICK k \in 1 .. staging_read_idx : v = staging[k]
            BY <4>2
          <5>2. k \in 1 .. Len(staging)
            BY <1>0, <1>2
          <5>3. (rd_sector' + j) % RegionSectors \in Held
            <6> HIDE DEF v
            <6>1. /\ rd_sector \in Sector /\ valid_sectors \in 0 .. RegionSectors
                  /\ ConsumedSectors \in 0 .. valid_sectors
                  /\ rd_sector' = (rd_sector + ConsumedSectors) % RegionSectors
                  /\ valid_sectors' = valid_sectors - ConsumedSectors
              BY CommitPointers DEF IInv, TypeOK
            <6> HIDE DEF ConsumedSectors
            <6>2. WindowSectors(rd_sector', valid_sectors') \subseteq Held
              BY <6>1, WindowDrop DEF Held
            <6> QED BY <6>2 DEF WindowSectors
          <5> QED BY <1>0, <5>1, <5>2, <5>3 DEF Distinct
        <4> QED BY <2>3, <4>1, <4>2
      <3> QED BY <2>1, <3>1, <3>2 DEF Settled
    <2>7. \A i \in 1 .. Len(staging') : staging'[i] \notin Settled'
      <3> SUFFICES ASSUME NEW i \in 1 .. Len(staging'), staging'[i] \in H, staging'[i] \notin doubled
                   PROVE  FALSE
        BY <1>4, <2>1 DEF Settled
      <3>1. staging'[i] = staging[staging_read_idx + i] /\ staging_read_idx + i \in 1 .. Len(staging)
        BY <1>2, <1>3
      <3>2. CASE \E k \in 0 .. read_offset - 1 : staging'[i] = FlashRec(k)
        <4>1. PICK s \in Held, j \in Slot : staging'[i] = flash[s][j]
          BY <3>2, <2>4
        <4>2. \A k \in 1 .. Len(staging) : flash[s][j] = staging[k] => staging[k] \in doubled
          BY DEF Distinct
        <4> QED BY <3>1, <4>1, <4>2
      <3>3. CASE \E k \in 1 .. staging_read_idx : staging'[i] = staging[k]
        <4>1. PICK k \in 1 .. staging_read_idx : staging'[i] = staging[k]
          BY <3>3
        <4>2. k \in 1 .. Len(staging)
          BY <1>0, <1>2
        <4>3. k = staging_read_idx + i
          BY <3>1, <4>1, <4>2 DEF Distinct
        <4> QED BY <4>3, <1>2
      <3> QED BY <2>3, <3>2, <3>3
    <2>8. confirmed' \subseteq 1 .. pushed'
      BY <1>0, <2>1, <2>5 DEF ConfInv
    <2>9. Live(Rec \ Settled)'
      BY <2>2, <2>6 DEF Live
    <2> QED BY <2>7, <2>8, <2>9 DEF ConfInv
  <1> QED BY <1>5, <1>6

\* Every step keeps confirmed records out of the store: a failed save leaves
\* an old window behind, but nothing in it has been confirmed since.
LEMMA NextConf ==
  IInv /\ MarkInv /\ SessInv /\ Distinct /\ ConfInv /\ [Next]_vars => ConfInv'
  <1> SUFFICES ASSUME IInv, MarkInv, SessInv, Distinct, ConfInv, [Next]_vars PROVE ConfInv'
    OBVIOUS
  <1> USE DEF ZmsOutcome
  <1>0. /\ pushed \in Nat /\ pushed >= pushed /\ Live(Rec \ Settled)
        /\ \A i \in 1 .. Len(staging) : staging[i] \notin Settled
    BY SizeAssumption DEF IInv, TypeOK, ConfInv
  <1> DEFINE Windows == /\ SlotsIn(flash', Rec \ Settled, rd_sector', valid_sectors', rd_rec_idx')
                        /\ SlotsIn(flash', Rec \ Settled, meta'.rd, meta'.valid, meta'.idx)
  <1>E. ASSUME Windows, staging' = <<>>, UNCHANGED <<confirmed, doubled>>,
               pushed' \in Nat, pushed' >= pushed
        PROVE  ConfInv'
    <2>1. 1 .. Len(staging') = {}
      BY <1>E
    <2> QED BY <1>E, <2>1, NothingConfirmed
  <1>1. ASSUME NEW ok \in ZmsOutcome, my_flash_store_init(ok) PROVE ConfInv'
    <2>1. staging' = <<>> /\ UNCHANGED <<confirmed, doubled, pushed>>
      BY <1>1 DEF my_flash_store_init, RegionLoad, RegionReset, hist
    <2>2. Windows
      BY <1>0, <1>1, LoadLive
    <2> QED BY <1>0, <1>E, <2>1, <2>2
  <1>2. CASE PushDropped
    <2>1. pushed' \in Nat /\ pushed' >= pushed
      BY <1>0, <1>2 DEF PushDropped, PushStep
    <2> QED BY <1>2, <2>1, QuietConf DEF PushDropped, PushStep, hist
  <1>3. CASE PushStaged
    <2>1. /\ pushed < MaxRec /\ pushed' = pushed + 1 /\ UNCHANGED <<confirmed, doubled>>
          /\ staging' = Append(staging, NewRec) /\ UNCHANGED <<flash, ptrs, meta>>
      BY <1>3 DEF PushStaged, PushStep, hist
    <2>2. Windows
      BY <1>0, <2>1, QuietLive
    <2>3. /\ staging \in Seq(Rec) /\ NewRec \in Rec /\ Len(staging) \in Nat
          /\ NewRec = pushed + 1
      BY <2>1, AppendedOK DEF IInv, TypeOK, NewRec
    <2>4. /\ Len(staging') = Len(staging) + 1
          /\ \A i \in 1 .. Len(staging) : staging'[i] = staging[i]
          /\ staging'[Len(staging) + 1] = NewRec
      BY <2>1, <2>3, AppendProperties
    <2>5. NewRec \notin Settled
      BY <1>0, <2>3 DEF ConfInv, Settled
    <2>6. \A i \in 1 .. Len(staging') : staging'[i] \notin Settled
      <3> TAKE i \in 1 .. Len(staging')
      <3>1. i \in 1 .. Len(staging) \/ i = Len(staging) + 1
        BY <2>3, <2>4
      <3> QED BY <1>0, <2>4, <2>5, <3>1
    <2>7. pushed' \in Nat /\ pushed' >= pushed
      BY <1>0, <2>1
    <2> QED BY <2>1, <2>2, <2>6, <2>7, NothingConfirmed
  <1>4. ASSUME NEW m \in ZmsOutcome, PushFlushed(m) PROVE ConfInv'
    <2>1. /\ pushed < MaxRec /\ pushed' = pushed + 1 /\ Len(staging) + 1 >= RecPerSector
          /\ UNCHANGED <<confirmed, doubled>> /\ staging' = <<>>
      BY <1>4 DEF PushFlushed, PushStep, FlushesNow, FlushStaging, hist
    <2>2. Windows
      BY <1>0, <1>4, <2>1, FlushedUnconfirmed, PushFlushedLive
    <2>3. pushed' \in Nat /\ pushed' >= pushed
      BY <1>0, <2>1
    <2> QED BY <1>E, <2>1, <2>2, <2>3
  <1>5. CASE my_flash_store_upload_begin
    BY <1>0, <1>5, QuietConf DEF my_flash_store_upload_begin
  <1>6. CASE ReadFlash
    BY <1>0, <1>6, QuietConf DEF ReadFlash, ReadFrame
  <1>7. CASE ReadError
    BY <1>0, <1>7, QuietConf DEF ReadError, ReadFrame
  <1>8. CASE ReadStaging
    BY <1>0, <1>8, QuietConf DEF ReadStaging, ReadFrame
  <1>9. CASE my_flash_store_rewind
    BY <1>0, <1>9, QuietConf DEF my_flash_store_rewind
  <1>10. ASSUME NEW m \in ZmsOutcome, my_flash_store_commit(m) PROVE ConfInv'
    BY <1>10, CommitConf
  <1>11. ASSUME NEW m \in ZmsOutcome, my_flash_store_clear(m) PROVE ConfInv'
    <2>1. staging' = <<>> /\ UNCHANGED <<confirmed, doubled, pushed>>
      BY <1>11 DEF my_flash_store_clear, RegionReset
    <2>2. Windows
      BY <1>0, <1>11, ClearLive
    <2> QED BY <1>0, <1>E, <2>1, <2>2
  <1>12. CASE PowerLoss
    <2>1. staging' = <<>> /\ UNCHANGED <<confirmed, doubled, pushed>>
      BY <1>12 DEF PowerLoss, RamLost, RegionReset
    <2>2. Windows
      BY <1>0, <1>12, PowerLossLive
    <2> QED BY <1>0, <1>E, <2>1, <2>2
  <1>13. ASSUME NEW k \in 0 .. RecPerSector, PowerLossInFlush(k) PROVE ConfInv'
    <2>1. /\ pushed < MaxRec /\ pushed' = pushed + 1 /\ Len(staging) + 1 >= RecPerSector
          /\ UNCHANGED <<confirmed, doubled>> /\ staging' = <<>>
      BY <1>13 DEF PowerLossInFlush, FlushesNow, RamLost, RegionReset
    <2>2. Windows
      BY <1>0, <1>13, <2>1, FlushedUnconfirmed, TornLive
    <2>3. pushed' \in Nat /\ pushed' >= pushed
      BY <1>0, <2>1
    <2> QED BY <1>E, <2>1, <2>2, <2>3
  <1>14. ASSUME NEW k \in 0 .. RecPerSector, PushFailed(k) PROVE ConfInv'
    <2>1. /\ pushed < MaxRec /\ pushed' = pushed + 1 /\ Len(staging) + 1 >= RecPerSector
          /\ confirmed' = confirmed /\ doubled \subseteq doubled'
          /\ FlushFails(Append(staging, NewRec), k)
      BY <1>14 DEF PushFailed, PushStep, FlushesNow, hist
    <2>2. Windows
      BY <1>0, <1>14, <2>1, FlushedUnconfirmed, FailedLive
    <2>3. pushed' \in Nat /\ pushed' >= pushed
      BY <1>0, <2>1
    <2>4. staging' = staging
      BY <2>1, FailedFlush
    <2> QED BY <1>0, <2>1, <2>2, <2>3, <2>4, NothingConfirmed
  <1>15. CASE UNCHANGED vars
    BY <1>0, <1>15, QuietConf DEF vars, ptrs, hist
  <1> QED
    BY <1>1, <1>2, <1>3, <1>4, <1>5, <1>6, <1>7, <1>8, <1>9, <1>10, <1>11,
       <1>12, <1>13, <1>14, <1>15 DEF Next

\* A record whose commit was saved is never offered again, for every region
\* size and whatever power losses, torn sector writes and failed saves follow,
\* unless a failed sector write left it both staged and in the window.
THEOREM ConfirmedNeverReturns == Spec => []ConfirmedStaysConfirmed
  <1>1. IInv /\ MarkInv /\ ConfInv => ConfirmedStaysConfirmed
    <2> SUFFICES ASSUME IInv, MarkInv, ConfInv, NEW i \in 1 .. Len(Pending)
                 PROVE  Pending[i] \notin Settled
      BY DEF ConfirmedStaysConfirmed, Settled
    <2> DEFINE n == FlashTotal
    <2>1. /\ Len(Pending) = n + Len(staging) /\ n \in Nat /\ Len(staging) \in Nat
          /\ \A j \in 1 .. n : Pending[j] = FlashRec(j - 1)
          /\ \A j \in 1 .. Len(staging) : Pending[n + j] = staging[j]
      BY PendingIs
    <2>2. \A k \in 0 .. n - 1 : FlashRec(k) \in Rec \ Settled
      BY FlashRecIn DEF ConfInv
    <2> HIDE DEF n
    <2>3. CASE i <= n
      <3>1. i \in 1 .. n /\ i - 1 \in 0 .. n - 1
        BY <2>1, <2>3
      <3> QED BY <2>1, <2>2, <3>1
    <2>4. CASE ~(i <= n)
      <3>1. i - n \in 1 .. Len(staging) /\ n + (i - n) = i
        BY <2>1, <2>4
      <3>2. Pending[i] = staging[i - n]
        BY <2>1, <3>1
      <3> QED BY <3>1, <3>2 DEF ConfInv
    <2> QED BY <2>3, <2>4
  <1> QED BY <1>1, InitIInv, NextIInv, InitMark, NextMark, InitSess, NextSess,
             InitDistinct, NextDistinct, NextConf, PTL DEF Spec

-----------------------------------------------------------------------------
(* The store implements RecordQueue when no ZMS call fails and no sector   *)
(* write is cut by a power loss or stops halfway in the pending window.    *)

\* Without faults the saved pointers are the pointers in RAM, and nothing is
\* staged before the store is ready.
SavedInv ==
  /\ ~meta.ok => meta = NoMeta
  /\ s_inited => /\ meta.rd = rd_sector
                 /\ meta.valid = valid_sectors
                 /\ meta.idx = rd_rec_idx
  /\ ~s_inited => staging = <<>>

\* A boot takes over the saved pointers, whatever they are.
LEMMA LoadPointers ==
  ASSUME IInv, SavedInv, my_flash_store_init(TRUE)
  PROVE  /\ rd_sector' = meta.rd /\ valid_sectors' = meta.valid /\ rd_rec_idx' = meta.idx
         /\ staging' = <<>> /\ flash' = flash /\ meta' = meta /\ s_inited' = TRUE
         /\ upload_active' = FALSE /\ UNCHANGED <<session, promised>>
  <1>1. UNCHANGED <<flash, meta, session, promised>> /\ s_inited' = TRUE /\ RegionLoad(TRUE)
    BY DEF my_flash_store_init, hist
  <1>2. CASE MetaUsable
    BY <1>1, <1>2 DEF RegionLoad, ResetSession
  <1>3. CASE ~MetaUsable
    <2>1. meta.wr < RegionSectors /\ meta.rd < RegionSectors /\ meta.valid <= RegionSectors
          /\ meta.idx <= RecPerSector
      BY SizeAssumption DEF IInv, TypeOK, Meta, Sector
    <2>2. meta = NoMeta
      BY <1>3, <2>1 DEF MetaUsable, SavedInv
    <2>3. meta.rd = 0 /\ meta.valid = 0 /\ meta.idx = 0
      BY <2>2 DEF NoMeta
    <2> QED BY <1>1, <1>3, <2>3 DEF RegionLoad, RegionReset, ResetSession
  <1> QED BY <1>2, <1>3

\* A save that succeeds stores the pointers of the step.
LEMMA SavedPointers ==
  ASSUME MetaSave(TRUE)
  PROVE  meta'.ok /\ meta'.rd = rd_sector' /\ meta'.valid = valid_sectors' /\ meta'.idx = rd_rec_idx'
  BY DEF MetaSave

\* The region starts with nothing saved and nothing staged.
LEMMA InitSaved == Init => SavedInv
  BY DEF Init, SavedInv, NoMeta

\* Every step without faults keeps the saved pointers up to date.
LEMMA NextSaved == ~Faults /\ IInv /\ SavedInv /\ [Next]_vars => SavedInv'
  <1> SUFFICES ASSUME ~Faults, IInv, SavedInv, [Next]_vars PROVE SavedInv'
    OBVIOUS
  <1>Z. \A m \in ZmsOutcome : m = TRUE
    BY DEF ZmsOutcome
  <1>Q. ASSUME UNCHANGED <<ptrs, meta>>, s_inited, s_inited' = s_inited PROVE SavedInv'
    BY <1>Q DEF SavedInv, ptrs
  <1>1. ASSUME NEW ok \in ZmsOutcome, my_flash_store_init(ok) PROVE SavedInv'
    <2>1. my_flash_store_init(TRUE)
      BY <1>1, <1>Z
    <2> QED BY <2>1, LoadPointers DEF SavedInv
  <1>2. CASE PushDropped
    BY <1>2, <1>Q DEF PushDropped, PushStep
  <1>3. CASE PushStaged
    BY <1>3, <1>Q DEF PushStaged, PushStep
  <1>4. ASSUME NEW m \in ZmsOutcome, PushFlushed(m) PROVE SavedInv'
    <2>1. PushFlushed(TRUE)
      BY <1>4, <1>Z
    <2>2. MetaSave(TRUE) /\ s_inited /\ s_inited' = s_inited
      BY <2>1 DEF PushFlushed, FlushStaging, PushStep
    <2> QED BY <2>2, SavedPointers DEF SavedInv
  <1>5. CASE my_flash_store_upload_begin
    BY <1>5, <1>Q DEF my_flash_store_upload_begin
  <1>6. CASE ReadFlash
    BY <1>6, <1>Q DEF ReadFlash, ReadFrame
  <1>7. CASE ReadError
    BY <1>7, <1>Q DEF ReadError, ReadFrame
  <1>8. CASE ReadStaging
    BY <1>8, <1>Q DEF ReadStaging, ReadFrame
  <1>9. CASE my_flash_store_rewind
    BY <1>9, <1>Q DEF my_flash_store_rewind
  <1>10. ASSUME NEW m \in ZmsOutcome, my_flash_store_commit(m) PROVE SavedInv'
    <2>1. MetaSave(TRUE) /\ s_inited /\ s_inited' = s_inited
      BY <1>10, <1>Z DEF my_flash_store_commit
    <2> QED BY <2>1, SavedPointers DEF SavedInv
  <1>11. ASSUME NEW m \in ZmsOutcome, my_flash_store_clear(m) PROVE SavedInv'
    <2>1. MetaSave(TRUE) /\ s_inited /\ s_inited' = s_inited
      BY <1>11, <1>Z DEF my_flash_store_clear
    <2> QED BY <2>1, SavedPointers DEF SavedInv
  <1>12. CASE PowerLoss
    BY <1>12 DEF PowerLoss, RamLost, RegionReset, SavedInv
  <1>13. ASSUME NEW k \in 0 .. RecPerSector, PowerLossInFlush(k) PROVE SavedInv'
    BY <1>13 DEF PowerLossInFlush
  <1>14. ASSUME NEW k \in 0 .. RecPerSector, PushFailed(k) PROVE SavedInv'
    BY <1>14, <1>Q DEF PushFailed, FlushFails, PushStep
  <1>15. CASE UNCHANGED vars
    BY <1>15 DEF vars, ptrs, SavedInv
  <1> QED
    BY <1>1, <1>2, <1>3, <1>4, <1>5, <1>6, <1>7, <1>8, <1>9, <1>10, <1>11,
       <1>12, <1>13, <1>14, <1>15 DEF Next

\* What a boot would make pending, record by record.
LEMMA DurableIs ==
  ASSUME IInv, MarkInv
  PROVE  /\ meta.valid * RecPerSector - meta.idx \in Nat
         /\ DurablePending \in Seq(Rec)
         /\ Len(DurablePending) = meta.valid * RecPerSector - meta.idx
         /\ \A i \in 1 .. meta.valid * RecPerSector - meta.idx :
              DurablePending[i] =
                flash[(meta.rd + ((meta.idx + (i - 1)) \div RecPerSector)) % RegionSectors]
                     [(meta.idx + (i - 1)) % RecPerSector]
  <1> USE SizeAssumption
  <1> DEFINE n == meta.valid * RecPerSector - meta.idx
             at(i) == flash[(meta.rd + ((meta.idx + (i - 1)) \div RecPerSector)) % RegionSectors]
                           [(meta.idx + (i - 1)) % RecPerSector]
  <1>1. /\ meta.valid \in Nat /\ meta.idx \in Slot /\ meta.idx \in Nat /\ meta.idx < RecPerSector
        /\ meta.valid = 0 => meta.idx = 0
    BY DEF IInv, TypeOK, RingConsistent, Meta, Slot
  <1>2. meta.valid * RecPerSector \in Nat
    BY <1>1, MulNat
  <1>3. n \in Nat
    <2>1. CASE meta.valid = 0
      BY <1>1, <2>1
    <2>2. CASE meta.valid # 0
      <3>1. meta.valid * RecPerSector >= RecPerSector
        BY <1>1, <2>2, MulPositive
      <3> QED BY <1>1, <1>2, <3>1
    <2> QED BY <2>1, <2>2
  <1>4. ASSUME NEW i \in 1 .. n PROVE at(i) \in Rec
    <2>1. i - 1 \in Nat /\ meta.idx + (i - 1) < meta.valid * RecPerSector
      BY <1>1, <1>2, <1>3
    <2>2. SlotsIn(flash, Rec, meta.rd, meta.valid, meta.idx)
      BY DEF MarkInv, Live
    <2> QED BY <1>1, <2>1, <2>2, SlotAt
  <1>5. DurablePending = [i \in 1 .. n |-> at(i)]
    <2>1. \A i \in 1 .. n : meta.idx + i - 1 = meta.idx + (i - 1)
      BY <1>1, <1>3
    <2> QED BY <2>1 DEF DurablePending
  <1> HIDE DEF n, at
  <1>6. DurablePending \in [1 .. n -> Rec] /\ \A i \in 1 .. n : DurablePending[i] = at(i)
    BY <1>4, <1>5
  <1>7. DurablePending \in Seq(Rec) /\ Len(DurablePending) = n
    BY <1>3, <1>6, FunIsSeq
  <1> QED BY <1>3, <1>6, <1>7 DEF n, at

\* Operations that leave the queue alone.
LEMMA QuietPending ==
  ASSUME UNCHANGED <<flash, ptrs, staging>>
  PROVE  Pending' = Pending
  BY DEF Pending, FlashTotal, FlashRec, ptrs

\* my_flash_store_init starts the queue with what is durable.
LEMMA LoadRefines ==
  ASSUME IInv, MarkInv, SessInv, SavedInv, IInv', MarkInv', my_flash_store_init(TRUE)
  PROVE  Q!Next
  <1> USE SizeAssumption
  <1> DEFINE n == meta.valid * RecPerSector - meta.idx
  <1>1. /\ rd_sector' = meta.rd /\ valid_sectors' = meta.valid /\ rd_rec_idx' = meta.idx
        /\ staging' = <<>> /\ flash' = flash /\ s_inited' = TRUE
        /\ upload_active' = FALSE /\ UNCHANGED <<session, promised>>
    BY LoadPointers
  <1>2. ~s_inited /\ staging = <<>> /\ upload_active = FALSE
    BY DEF my_flash_store_init, SavedInv, SessInv, SessForm, IInv, TypeOK
  <1>3. /\ Pending' \in Seq(Rec) /\ Len(Pending') = FlashTotal' + Len(staging')
        /\ FlashTotal' \in Nat /\ rd_rec_idx' + FlashTotal' = valid_sectors' * RecPerSector
        /\ \A i \in 1 .. FlashTotal' : Pending'[i] = FlashRec(i - 1)'
    BY PendingFormNext DEF PendingForm
  <1>4. /\ n \in Nat /\ DurablePending \in Seq(Rec) /\ Len(DurablePending) = n
        /\ \A i \in 1 .. n : DurablePending[i] =
                flash[(meta.rd + ((meta.idx + (i - 1)) \div RecPerSector)) % RegionSectors]
                     [(meta.idx + (i - 1)) % RecPerSector]
    BY DurableIs
  <1>5. FlashTotal' = n /\ Len(Pending') = n
    <2>1. meta.idx \in Nat /\ meta.valid \in Nat
      BY DEF IInv, TypeOK, Meta
    <2>2. meta.valid * RecPerSector \in Nat
      BY <2>1, MulNat
    <2>3. Len(staging') = 0
      BY <1>1
    <2>4. meta.idx + FlashTotal' = meta.valid * RecPerSector
      BY <1>1, <1>3
    <2> DEFINE v == meta.valid * RecPerSector
               f == FlashTotal'
    <2>5. v \in Nat /\ f \in Nat /\ meta.idx + f = v
      BY <1>3, <2>2, <2>4
    <2> HIDE DEF v, f
    <2>6. f = v - meta.idx
      BY <2>1, <2>5
    <2> QED BY <1>3, <2>3, <2>6 DEF v, f
  <1>6. \A i \in 1 .. n : Pending'[i] = DurablePending[i]
    <2> TAKE i \in 1 .. n
    <2>1. Pending'[i] = FlashRec(i - 1)'
      BY <1>3, <1>5
    <2>2. FlashRec(i - 1)' = flash[(meta.rd + ((meta.idx + (i - 1)) \div RecPerSector)) % RegionSectors]
                                  [(meta.idx + (i - 1)) % RecPerSector]
      BY <1>1 DEF FlashRec
    <2> QED BY <1>4, <2>1, <2>2
  <1> HIDE DEF n
  <1>7. Pending' = DurablePending
    BY <1>3, <1>4, <1>5, <1>6, SeqEqual
  <1>8. Q!Start
    BY <1>1, <1>2, <1>7 DEF Q!Start
  <1> QED BY <1>8 DEF Q!Next

\* A power loss leaves the records that are in flash.
LEMMA PowerLossRefines ==
  ASSUME IInv, MarkInv, SavedInv, PowerLoss PROVE Q!Next
  <1> USE SizeAssumption
  <1> DEFINE n == meta.valid * RecPerSector - meta.idx
             t == Len(staging)
  <1>1. /\ s_inited /\ s_inited' = FALSE /\ flash' = flash /\ meta' = meta
        /\ staging' = <<>> /\ upload_active' = FALSE /\ session' = <<>> /\ promised' = <<>>
    BY DEF PowerLoss, RamLost, RegionReset, ResetSession, CloseHistory
  <1>2. DurablePending' = DurablePending
    BY <1>1 DEF DurablePending
  <1>3. meta.rd = rd_sector /\ meta.valid = valid_sectors /\ meta.idx = rd_rec_idx
    BY <1>1 DEF SavedInv
  <1>4. /\ n \in Nat /\ DurablePending \in Seq(Rec) /\ Len(DurablePending) = n
        /\ \A i \in 1 .. n : DurablePending[i] =
                flash[(meta.rd + ((meta.idx + (i - 1)) \div RecPerSector)) % RegionSectors]
                     [(meta.idx + (i - 1)) % RecPerSector]
    BY DurableIs
  <1>5. /\ Pending \in Seq(Rec) /\ Len(Pending) = FlashTotal + t /\ t \in Nat
        /\ \A i \in 1 .. FlashTotal : Pending[i] = FlashRec(i - 1)
    BY PendingIs
  <1>6. FlashTotal = n
    <2>1. meta.idx \in Nat /\ meta.valid \in Nat /\ meta.valid * RecPerSector \in Nat
      BY <1>3, FlashTotalIs DEF IInv, TypeOK, Meta
    <2>2. meta.idx + FlashTotal = meta.valid * RecPerSector /\ FlashTotal \in Nat
      BY <1>3, FlashTotalIs
    <2> DEFINE v == meta.valid * RecPerSector
               f == FlashTotal
    <2>3. v \in Nat /\ f \in Nat /\ meta.idx + f = v
      BY <2>1, <2>2
    <2> HIDE DEF v, f
    <2>4. f = v - meta.idx
      BY <2>1, <2>3
    <2> QED BY <2>4 DEF v, f
  <1>7. \A i \in 1 .. n : DurablePending[i] = Pending[i]
    <2> TAKE i \in 1 .. n
    <2>1. Pending[i] = FlashRec(i - 1)
      BY <1>5, <1>6
    <2> QED BY <1>3, <1>4, <2>1 DEF FlashRec
  <1> HIDE DEF n, t
  <1>8. DurablePending = SubSeq(Pending, 1, Len(Pending) - t)
    <2>1. Len(Pending) - t = n /\ n \in Int /\ 1 \in Int
      BY <1>4, <1>5, <1>6
    <2>2. \A i \in 1 .. n : Pending[i] \in Rec
      <3> TAKE i \in 1 .. n
      <3>1. i \in 1 .. Len(Pending)
        BY <1>4, <1>5, <1>6
      <3> QED BY <1>5, <3>1, ElementOfSeq
    <2> DEFINE P == SubSeq(Pending, 1, n)
    <2>3. /\ P \in Seq(Rec) /\ Len(P) = (IF 1 <= n THEN n - 1 + 1 ELSE 0)
          /\ \A i \in 1 .. n - 1 + 1 : P[i] = Pending[1 + i - 1]
      BY <2>1, <2>2, SubSeqProperties
    <2> HIDE DEF P
    <2>4. Len(P) = n /\ n - 1 + 1 = n /\ \A i \in 1 .. n : 1 + i - 1 = i
      BY <1>4, <2>3
    <2>5. \A i \in 1 .. n : P[i] = DurablePending[i]
      BY <1>7, <2>3, <2>4
    <2>6. P = DurablePending
      BY <1>4, <2>3, <2>4, <2>5, SeqEqual
    <2> QED BY <2>1, <2>6 DEF P
  <1>9. Len(staging') = 0 /\ Len(promised') = 0
    BY <1>1
  <1>10. Q!Crash
    BY <1>1, <1>2, <1>8, <1>9 DEF Q!Crash, Q!Closed, t
  <1> QED BY <1>10 DEF Q!Next

\* A flush appends a sector of records to the flash part of the queue, and in
\* a full ring takes the d live records of the oldest sector away.
LEMMA FlushFlash ==
  ASSUME IInv, IInv', MarkInv', NEW recs, NEW m \in BOOLEAN, FlushStaging(recs, m)
  PROVE  \E d \in 0 .. RecPerSector :
           /\ d <= FlashTotal
           /\ FlashTotal' = (FlashTotal - d) + RecPerSector
           /\ \A k \in 0 .. (FlashTotal - d) - 1 : FlashRec(k)' = FlashRec(d + k)
           /\ \A k \in FlashTotal - d .. ((FlashTotal - d) + RecPerSector) - 1 :
                FlashRec(k)' = recs[(k - (FlashTotal - d)) + 1]
  <1> USE SizeAssumption
  <1> DEFINE n == FlashTotal
             n2 == FlashTotal'
             R == RecPerSector
             N == RegionSectors
             v == valid_sectors
             x == rd_rec_idx
             S == SectorOf(recs)
  <1>1. /\ flash' = [flash EXCEPT ![wr_sector] = S] /\ AdvanceRing
        /\ flash \in [Sector -> [Slot -> Rec \cup {NoRec}]] /\ wr_sector \in Sector
    BY DEF FlushStaging, IInv, TypeOK
  <1>2. \A k \in 0 .. R - 1 : k \in Slot /\ S[k] = recs[k + 1]
    BY DEF SectorOf, Slot
  <1> HIDE DEF S
  <1>3. /\ flash'[wr_sector] = S
        /\ \A s \in Sector : s # wr_sector => flash'[s] = flash[s]
    BY <1>1
  <1>4. /\ n \in Nat /\ n2 \in Nat /\ x + n = v * R /\ rd_rec_idx' + n2 = valid_sectors' * R
        /\ v * R \in Nat
    BY FlashTotalIs, PendingFormNext DEF PendingForm
  <1>5. /\ v \in 0 .. N /\ x \in Slot /\ x \in Nat /\ x < R
        /\ rd_sector \in 0 .. N - 1 /\ rd_sector \in Nat
        /\ wr_sector = (rd_sector + v) % N
        /\ v = 0 => x = 0
    BY DEF IInv, TypeOK, RingConsistent, Slot, Sector
  <1>6. CASE v < N
    <2>1. valid_sectors' = v + 1 /\ rd_sector' = rd_sector /\ rd_rec_idx' = x
      BY <1>1, <1>6 DEF AdvanceRing
    <2>2. n2 = n + R
      <3>1. (v + 1) * R = (v * R) + R
        BY <1>5
      <3> HIDE DEF n, n2
      <3> QED BY <1>4, <1>5, <2>1, <3>1
    <2>3. ASSUME NEW k \in 0 .. n - 1 PROVE FlashRec(k)' = FlashRec(k)
      <3> DEFINE p == (x + k) \div R
      <3>1. k \in Nat /\ x + k < v * R /\ v \in Nat
        <4> HIDE DEF n
        <4> QED BY <1>4, <1>5
      <3>2. p \in 0 .. v - 1
        BY <1>5, <3>1, SlotOf
      <3>3. FlashRec(k) = flash[(rd_sector + p) % N][(x + k) % R]
        BY DEF FlashRec
      <3>4. FlashRec(k)' = flash'[(rd_sector + p) % N][(x + k) % R]
        BY <2>1 DEF FlashRec
      <3> HIDE DEF p
      <3>5. (rd_sector + p) % N # wr_sector
        <4>1. p \in 0 .. N - 1 /\ v \in 0 .. N - 1 /\ p # v
          BY <1>5, <1>6, <3>2
        <4> QED BY <1>5, <4>1, RingInjective
      <3>6. (rd_sector + p) % N \in Sector
        BY <1>5, <3>2, RingSector
      <3> QED BY <1>3, <3>3, <3>4, <3>5, <3>6
    <2>4. ASSUME NEW j \in n .. (n + R) - 1 PROVE FlashRec(j)' = recs[(j - n) + 1]
      <3> DEFINE k == j - n
      <3>1. x + j = (v * R) + k /\ k \in Nat /\ v \in Nat /\ k \in 0 .. R - 1
        <4> HIDE DEF n
        <4> QED BY <1>4, <1>5
      <3> HIDE DEF k
      <3>2. k \div R = 0 /\ k % R = k
        <4>1. k \div R \in Nat /\ k % R \in 0 .. R - 1 /\ k = ((k \div R) * R) + (k % R)
          BY <3>1, DivModSplit
        <4>2. (0 * R) + k = ((k \div R) * R) + (k % R)
          BY <3>1, <4>1
        <4> QED BY <3>1, <4>1, <4>2, DivUnique
      <3>3. ((v * R) + k) \div R = v /\ ((v * R) + k) % R = k
        <4>1. /\ ((v * R) + k) \div R = v + (k \div R) /\ ((v * R) + k) % R = k % R
          BY <3>1, DivShift
        <4> QED BY <3>1, <3>2, <4>1
      <3>4. FlashRec(j)' = flash'[(rd_sector + v) % N][k]
        BY <2>1, <3>1, <3>3 DEF FlashRec
      <3>5. FlashRec(j)' = recs[k + 1]
        BY <1>2, <1>3, <1>5, <3>1, <3>4
      <3> QED BY <3>5 DEF k
    <2> HIDE DEF n, n2, R
    <2>5. n - 0 = n /\ 0 \in 0 .. RecPerSector /\ 0 <= n
          /\ \A k \in 0 .. n - 1 : 0 + k = k
      BY <1>4
    <2>6. \A k \in 0 .. (n - 0) - 1 : FlashRec(k)' = FlashRec(0 + k)
      BY <2>3, <2>5
    <2>7. /\ 0 \in 0 .. RecPerSector /\ 0 <= n /\ n2 = (n - 0) + R
          /\ \A k \in n - 0 .. ((n - 0) + R) - 1 : FlashRec(k)' = recs[(k - (n - 0)) + 1]
      BY <2>2, <2>4, <2>5
    <2> QED BY <2>6, <2>7 DEF n, n2, R
  <1>7. CASE ~(v < N)
    <2> DEFINE d == R - x
               e == (N - 1) * R
    <2>1. /\ valid_sectors' = v /\ rd_rec_idx' = 0 /\ v = N
          /\ rd_sector' = (rd_sector + 1) % N
      BY <1>1, <1>5, <1>7 DEF AdvanceRing, NextSector
    <2>2. wr_sector = rd_sector
      <3>1. N \in 0 .. N
        OBVIOUS
      <3>2. (rd_sector + N) % N = IF rd_sector + N < N THEN rd_sector + N ELSE rd_sector + N - N
        BY <1>5, <3>1, ModWrap
      <3> QED BY <1>5, <2>1, <3>2
    <2>3. /\ d \in 0 .. R /\ d \in Nat /\ d <= n /\ n - d = e /\ n2 = e + R
          /\ e \in Nat /\ x + d = R /\ N - 1 \in Nat
      <3>1. N * R = e + R /\ e \in Nat /\ N - 1 \in Nat
        <4>1. N - 1 \in Nat
          OBVIOUS
        <4>2. (N - 1) * R \in Nat
          BY <4>1, MulNat
        <4>3. N * R = ((N - 1) * R) + R
          OBVIOUS
        <4> QED BY <4>1, <4>2, <4>3
      <3>2. d \in 0 .. R /\ d \in Nat /\ x + d = R
        BY <1>5
      <3>3. x + n = e + R /\ n2 = e + R
        <4> HIDE DEF n, n2, e
        <4>1. 0 + n2 = e + R /\ n2 \in Nat
          BY <1>4, <2>1, <3>1
        <4> QED BY <1>4, <2>1, <3>1, <4>1
      <3> HIDE DEF n, n2, e, d
      <3> QED BY <1>4, <1>5, <3>1, <3>2, <3>3
    <2>4. ASSUME NEW k \in 0 .. e - 1 PROVE FlashRec(k)' = FlashRec(d + k)
      <3> DEFINE p == k \div R
      <3>1. k \in Nat /\ 0 + k < (N - 1) * R /\ 0 \in Slot
        BY <2>3 DEF Slot
      <3>2. p \in 0 .. (N - 1) - 1
        <4>1. (0 + k) \div R \in 0 .. (N - 1) - 1
          BY <2>3, <3>1, SlotOf
        <4>2. 0 + k = k
          BY <3>1
        <4> QED BY <4>1, <4>2
      <3>3. x + (d + k) = (1 * R) + k
        <4> HIDE DEF d
        <4> QED BY <1>5, <2>3, <3>1
      <3>4. ((1 * R) + k) \div R = 1 + p /\ ((1 * R) + k) % R = k % R
        BY <3>1, DivShift
      <3>5. FlashRec(d + k) = flash[(rd_sector + (1 + p)) % N][k % R]
        BY <3>3, <3>4 DEF FlashRec
      <3>6. FlashRec(k)' = flash'[(((rd_sector + 1) % N) + p) % N][k % R]
        <4>1. 0 + k = k
          BY <3>1
        <4> QED BY <2>1, <4>1 DEF FlashRec
      <3> HIDE DEF p
      <3>7. (((rd_sector + 1) % N) + p) % N = (rd_sector + (1 + p)) % N
        <4>1. 1 \in Nat /\ p \in Nat /\ 1 + p <= N
          BY <3>2
        <4> QED BY <1>5, <4>1, RingAdd
      <3>8. (rd_sector + (1 + p)) % N # wr_sector
        <4>1. 1 + p \in 0 .. N - 1 /\ 0 \in 0 .. N - 1 /\ 1 + p # 0
          BY <3>2
        <4>2. (rd_sector + 0) % N = rd_sector
          BY <1>5
        <4> QED BY <1>5, <2>2, <4>1, <4>2, RingInjective
      <3>9. (rd_sector + (1 + p)) % N \in Sector
        <4>1. 1 + p \in Nat
          BY <3>2
        <4> QED BY <1>5, <4>1, RingSector
      <3> QED BY <1>3, <3>5, <3>6, <3>7, <3>8, <3>9
    <2>5. ASSUME NEW j \in e .. (e + R) - 1 PROVE FlashRec(j)' = recs[(j - e) + 1]
      <3> DEFINE k == j - e
      <3>1. k \in Nat /\ N - 1 \in Nat /\ j = e + k /\ k \in 0 .. R - 1
        <4> HIDE DEF e
        <4> QED BY <2>3
      <3> HIDE DEF k
      <3>2. k \div R = 0 /\ k % R = k
        <4>1. k \div R \in Nat /\ k % R \in 0 .. R - 1 /\ k = ((k \div R) * R) + (k % R)
          BY <3>1, DivModSplit
        <4>2. (0 * R) + k = ((k \div R) * R) + (k % R)
          BY <3>1, <4>1
        <4> QED BY <3>1, <4>1, <4>2, DivUnique
      <3>3. (e + k) \div R = N - 1 /\ (e + k) % R = k
        <4>1. /\ (((N - 1) * R) + k) \div R = (N - 1) + (k \div R)
              /\ (((N - 1) * R) + k) % R = k % R
          BY <3>1, DivShift
        <4> QED BY <3>1, <3>2, <4>1
      <3>4. 0 + j = e + k
        <4> HIDE DEF e
        <4> QED BY <2>3, <3>1
      <3>5. FlashRec(j)' = flash'[(((rd_sector + 1) % N) + (N - 1)) % N][k]
        BY <2>1, <3>3, <3>4 DEF FlashRec
      <3>6. (((rd_sector + 1) % N) + (N - 1)) % N = rd_sector
        <4>1. 1 \in Nat /\ N - 1 \in Nat /\ 1 + (N - 1) <= N /\ 1 + (N - 1) = N
          BY <3>1
        <4>2. (((rd_sector + 1) % N) + (N - 1)) % N = (rd_sector + (1 + (N - 1))) % N
          BY <1>5, <4>1, RingAdd
        <4> QED BY <1>5, <2>1, <2>2, <4>1, <4>2
      <3>7. FlashRec(j)' = recs[k + 1]
        BY <1>2, <1>3, <2>2, <3>1, <3>5, <3>6
      <3> QED BY <3>7 DEF k
    <2> HIDE DEF n, n2, R, d, e
    <2>6. /\ d \in 0 .. R /\ d <= n /\ n2 = (n - d) + R
          /\ \A k \in 0 .. (n - d) - 1 : FlashRec(k)' = FlashRec(d + k)
          /\ \A k \in n - d .. ((n - d) + R) - 1 : FlashRec(k)' = recs[(k - (n - d)) + 1]
      BY <2>3, <2>4, <2>5
    <2> QED BY <2>6 DEF n, n2, R
  <1> QED BY <1>6, <1>7

\* The records of a sequence after the first d.
LEMMA KeepIs ==
  ASSUME NEW s \in Seq(Rec), NEW d \in 0 .. Len(s)
  PROVE  /\ SubSeq(s, d + 1, Len(s)) \in Seq(Rec)
         /\ Len(SubSeq(s, d + 1, Len(s))) = Len(s) - d
         /\ \A i \in 1 .. Len(s) - d : SubSeq(s, d + 1, Len(s))[i] = s[d + i]
  <1> DEFINE l == Len(s)
             P == SubSeq(s, d + 1, Len(s))
  <1>1. l \in Nat /\ d \in Nat /\ d <= l /\ \A i \in d + 1 .. l : s[i] \in Rec
    BY ElementOfSeq
  <1>2. P = SubSeq(s, d + 1, l)
    OBVIOUS
  <1> HIDE DEF l, P
  <1>3. d + 1 \in Int /\ l \in Int
    BY <1>1
  <1>4. /\ P \in Seq(Rec) /\ Len(P) = (IF d + 1 <= l THEN l - (d + 1) + 1 ELSE 0)
        /\ \A i \in 1 .. l - (d + 1) + 1 : P[i] = s[(d + 1) + i - 1]
    BY <1>1, <1>2, <1>3, SubSeqProperties
  <1>5. Len(P) = l - d /\ l - (d + 1) + 1 = l - d
        /\ \A i \in 1 .. l - d : (d + 1) + i - 1 = d + i
    BY <1>1, <1>4
  <1>6. \A i \in 1 .. l - d : P[i] = s[d + i]
    BY <1>4, <1>5
  <1> QED BY <1>4, <1>5, <1>6 DEF l, P

\* An operation of a store that is ready.
LEMMA ReadyOperation ==
  ASSUME s_inited, s_inited' = s_inited, Q!Operation
  PROVE  Q!Next
  BY DEF Q!Next

\* A write that fails before it reaches a pending slot.
LEMMA FailedPending ==
  ASSUME IInv, MarkInv, pushed < MaxRec, NEW k \in 0 .. RecPerSector,
         k = 0 \/ wr_sector \notin Held, FlushFails(Append(staging, NewRec), k)
  PROVE  Pending' = Pending
  <1>1. /\ staging' = staging
        /\ flash' = [flash EXCEPT ![wr_sector] = SectorTorn(Append(staging, NewRec), k)]
        /\ UNCHANGED <<rd_sector, rd_rec_idx, valid_sectors>>
    BY FailedFlush DEF FlushFails, ptrs
  <1>2. /\ FlashTotal \in Nat /\ rd_rec_idx + FlashTotal = valid_sectors * RecPerSector
        /\ valid_sectors \in Nat /\ rd_rec_idx \in Slot /\ rd_rec_idx \in Nat
        /\ valid_sectors * RecPerSector \in Nat /\ rd_sector \in Sector
    BY FlashTotalIs, SizeAssumption DEF IInv, TypeOK, Slot
  <1>3. FlashTotal' = FlashTotal
    BY <1>1 DEF FlashTotal
  <1>4. ASSUME NEW j \in 0 .. FlashTotal - 1 PROVE FlashRec(j)' = FlashRec(j)
    <2> DEFINE p == (rd_rec_idx + j) \div RecPerSector
               i == (rd_rec_idx + j) % RecPerSector
               s == (rd_sector + p) % RegionSectors
    <2>1. j \in Nat /\ rd_rec_idx + j < valid_sectors * RecPerSector
      <3> HIDE DEF FlashTotal
      <3> QED BY <1>2
    <2>2. p \in 0 .. valid_sectors - 1 /\ i \in Slot
      BY <1>2, <2>1, SlotOf
    <2>3. FlashRec(j) = flash[s][i] /\ FlashRec(j)' = flash'[s][i]
      BY <1>1 DEF FlashRec
    <2> HIDE DEF p, i
    <2>4. s \in Held /\ s \in Sector
      <3>1. s \in WindowSectors(rd_sector, valid_sectors)
        BY <2>2 DEF WindowSectors
      <3>2. s \in Sector
        BY <1>2, <2>2, RingSector, SizeAssumption DEF Sector
      <3> QED BY <3>1, <3>2 DEF Held
    <2> HIDE DEF s
    <2>5. flash'[s][i] = flash[s][i]
      <3>1. i \in Nat
        BY <2>2 DEF Slot
      <3>2. ~(s = wr_sector /\ i < k)
        BY <2>4, <3>1
      <3> QED BY <1>1, <2>2, <2>4, <3>2, TornSlots
    <2> QED BY <2>3, <2>5
  <1>5. \A i \in 1 .. FlashTotal : i - 1 \in 0 .. FlashTotal - 1
    <2> HIDE DEF FlashTotal
    <2> QED BY <1>2
  <1>6. [i \in 1 .. FlashTotal |-> FlashRec(i - 1)]' = [i \in 1 .. FlashTotal |-> FlashRec(i - 1)]
    <2>1. \A i \in 1 .. FlashTotal : FlashRec(i - 1)' = FlashRec(i - 1)
      BY <1>4, <1>5
    <2> HIDE DEF FlashTotal, FlashRec
    <2> QED BY <1>3, <2>1
  <1> QED BY <1>1, <1>6 DEF Pending

\* A step the callers cannot tell from none.
LEMMA UnseenStep ==
  ASSUME s_inited, UNCHANGED <<s_inited, flash, ptrs, staging, upload_active, session, promised>>
  PROVE  UNCHANGED Q!qvars
  <1>1. Pending' = Pending
    BY QuietPending
  <1> QED BY <1>1 DEF Q!qvars

\* A push into the staging buffer puts the record at the end of the queue.
LEMMA StagedRefines ==
  ASSUME IInv, MarkInv, IInv', MarkInv', PushStaged PROVE Q!Next
  <1> DEFINE n == FlashTotal
             t == Len(staging)
             A == Append(Pending, NewRec)
  <1>1. /\ s_inited /\ s_inited' = s_inited /\ staging' = Append(staging, NewRec)
        /\ UNCHANGED <<flash, ptrs>> /\ pushed < MaxRec
        /\ UNCHANGED <<upload_active, session, promised>>
    BY DEF PushStaged, PushStep, sessv, hist
  <1>2. NewRec \in Rec /\ staging \in Seq(Rec)
    BY <1>1, SizeAssumption DEF IInv, TypeOK, NewRec, Rec
  <1> HIDE DEF NewRec
  <1>3. /\ Len(staging') = t + 1 /\ staging'[t + 1] = NewRec
        /\ \A i \in 1 .. t : staging'[i] = staging[i]
    BY <1>1, <1>2, AppendProperties
  <1>4. /\ Pending \in Seq(Rec) /\ Len(Pending) = n + t /\ n \in Nat /\ t \in Nat
        /\ \A i \in 1 .. n : Pending[i] = FlashRec(i - 1)
        /\ \A i \in 1 .. t : Pending[n + i] = staging[i]
    BY PendingIs
  <1>5. FlashTotal' = n /\ \A k \in Int : FlashRec(k)' = FlashRec(k)
    BY <1>1, QuietFlash
  <1>6. /\ Pending' \in Seq(Rec) /\ Len(Pending') = n + (t + 1)
        /\ \A i \in 1 .. n : Pending'[i] = FlashRec(i - 1)'
        /\ \A i \in 1 .. t + 1 : Pending'[n + i] = staging'[i]
    BY <1>3, <1>5, PendingFormNext DEF PendingForm
  <1>7. /\ A \in Seq(Rec) /\ Len(A) = Len(Pending) + 1 /\ A[Len(Pending) + 1] = NewRec
        /\ \A i \in 1 .. Len(Pending) : A[i] = Pending[i]
    <2>1. Pending \in Seq(Rec)
      BY <1>4
    <2> QED BY <1>2, <2>1, AppendProperties
  <1> HIDE DEF n, t, A
  <1>8. ASSUME NEW i \in 1 .. n + (t + 1) PROVE Pending'[i] = A[i]
    <2>1. CASE i <= n
      <3>1. i \in 1 .. n /\ i - 1 \in Int /\ i \in 1 .. Len(Pending)
        BY <1>4, <2>1
      <3> QED BY <1>4, <1>5, <1>6, <1>7, <3>1
    <2>2. CASE i > n /\ i <= n + t
      <3>1. i - n \in 1 .. t /\ i - n \in 1 .. t + 1 /\ n + (i - n) = i /\ i \in 1 .. Len(Pending)
        BY <1>4, <2>2
      <3>2. Pending'[i] = staging'[i - n] /\ Pending[i] = staging[i - n]
        BY <1>4, <1>6, <3>1
      <3> QED BY <1>3, <1>7, <3>1, <3>2
    <2>3. CASE i > n + t
      <3>1. i = n + (t + 1) /\ t + 1 \in 1 .. t + 1 /\ i = Len(Pending) + 1
        BY <1>4, <2>3
      <3>2. Pending'[i] = staging'[t + 1]
        BY <1>6, <3>1
      <3> QED BY <1>3, <1>7, <3>1, <3>2
    <2> QED BY <1>4, <2>1, <2>2, <2>3
  <1>9. Pending' = A
    <2>1. Len(A) = n + (t + 1)
      BY <1>4, <1>7
    <2> QED BY <1>6, <1>7, <1>8, <2>1, SeqEqual
  <1>10. Q!Put(NewRec)
    BY <1>1, <1>3, <1>9 DEF Q!Put, t, A
  <1>11. Q!Operation
    BY <1>2, <1>10 DEF Q!Operation
  <1> QED BY <1>1, <1>11, ReadyOperation

\* A flush makes the staged records durable, with the new one if it fitted,
\* and the oldest sector of a full ring makes room.
LEMMA FlushRefines ==
  ASSUME IInv, MarkInv, IInv', MarkInv', NEW m \in BOOLEAN, PushFlushed(m) PROVE Q!Next
  <1> USE SizeAssumption
  <1> DEFINE n == FlashTotal
             t == Len(staging)
             R == RecPerSector
             recs == Append(staging, NewRec)
             new == IF t + 1 <= R THEN <<NewRec>> ELSE <<>>
  <1>1. /\ s_inited /\ s_inited' = s_inited /\ FlushStaging(recs, m) /\ pushed < MaxRec
        /\ t + 1 >= R /\ ~upload_active /\ staging' = <<>>
        /\ UNCHANGED <<upload_active, session, promised>>
    BY DEF PushFlushed, PushStep, FlushesNow, FlushStaging, sessv, hist
  <1>2. NewRec \in Rec /\ staging \in Seq(Rec) /\ t \in Nat /\ t <= R
    BY <1>1 DEF IInv, TypeOK, CursorsInBounds, NewRec, Rec
  <1>3. PICK d \in 0 .. R :
          /\ d <= n
          /\ FlashTotal' = (n - d) + R
          /\ \A k \in 0 .. (n - d) - 1 : FlashRec(k)' = FlashRec(d + k)
          /\ \A k \in n - d .. ((n - d) + R) - 1 : FlashRec(k)' = recs[(k - (n - d)) + 1]
    BY <1>1, FlushFlash
  <1> HIDE DEF NewRec
  <1>4. Len(recs) = t + 1 /\ recs[t + 1] = NewRec /\ \A i \in 1 .. t : recs[i] = staging[i]
    BY <1>2, AppendProperties
  <1>5. /\ Pending \in Seq(Rec) /\ Len(Pending) = n + t /\ n \in Nat
        /\ \A i \in 1 .. n : Pending[i] = FlashRec(i - 1)
        /\ \A i \in 1 .. t : Pending[n + i] = staging[i]
    BY PendingIs
  <1>6. /\ Pending' \in Seq(Rec) /\ Len(Pending') = (n - d) + R
        /\ \A i \in 1 .. (n - d) + R : Pending'[i] = FlashRec(i - 1)'
    <2>1. Len(staging') = 0
      BY <1>1
    <2>2. Len(Pending') = FlashTotal' + 0 /\ FlashTotal' \in Nat
      BY <2>1, PendingFormNext DEF PendingForm
    <2> QED BY <1>3, <2>2, PendingFormNext DEF PendingForm
  <1> DEFINE K == SubSeq(Pending, d + 1, Len(Pending))
             P == K \o new
  <1>7. /\ K \in Seq(Rec) /\ Len(K) = (n + t) - d
        /\ \A i \in 1 .. (n + t) - d : K[i] = Pending[d + i]
    <2>1. Pending \in Seq(Rec) /\ d \in 0 .. Len(Pending)
      BY <1>2, <1>3, <1>5
    <2> QED BY <1>5, <2>1, KeepIs
  <1>8. /\ new \in Seq(Rec) /\ Len(new) = R - t
        /\ t + 1 <= R => new = <<NewRec>> /\ new[1] = NewRec
        /\ ~(t + 1 <= R) => new = <<>>
    <2>1. CASE t + 1 <= R
      <3>1. new = <<NewRec>> /\ R - t = 1
        BY <1>1, <1>2, <2>1
      <3>2. <<NewRec>> \in Seq(Rec) /\ Len(<<NewRec>>) = 1 /\ <<NewRec>>[1] = NewRec
        BY <1>2
      <3> QED BY <2>1, <3>1, <3>2
    <2>2. CASE ~(t + 1 <= R)
      <3>1. new = <<>> /\ R - t = 0
        BY <1>1, <1>2, <2>2
      <3> QED BY <2>2, <3>1
    <2> QED BY <2>1, <2>2
  <1> HIDE DEF n, t, recs, new, K
  <1>9. /\ P \in Seq(Rec) /\ Len(P) = Len(K) + Len(new)
        /\ \A i \in 1 .. Len(K) + Len(new) :
             P[i] = IF i <= Len(K) THEN K[i] ELSE new[i - Len(K)]
    <2>1. K \in Seq(Rec) /\ new \in Seq(Rec)
      BY <1>7, <1>8
    <2>2. P = K \o new
      OBVIOUS
    <2> HIDE DEF P
    <2>3. /\ K \o new \in Seq(Rec) /\ Len(K \o new) = Len(K) + Len(new)
          /\ \A i \in 1 .. Len(K) + Len(new) :
               (K \o new)[i] = IF i <= Len(K) THEN K[i] ELSE new[i - Len(K)]
      BY <2>1, ConcatProperties, ZenonT(60)
    <2> QED BY <2>2, <2>3, ZenonT(60)
  <1>10. Len(P) = (n - d) + R /\ Len(K) + Len(new) = (n - d) + R
    BY <1>2, <1>3, <1>5, <1>7, <1>8, <1>9
  <1> HIDE DEF P
  <1>11. ASSUME NEW i \in 1 .. (n - d) + R PROVE Pending'[i] = P[i]
    <2>1. Pending'[i] = FlashRec(i - 1)'
      BY <1>6
    <2>2. CASE i <= n - d
      <3>1. /\ i - 1 \in 0 .. (n - d) - 1 /\ d + (i - 1) = (d + i) - 1 /\ d + i \in 1 .. n
            /\ i \in 1 .. (n + t) - d
        BY <1>2, <1>3, <1>5, <2>2
      <3>2. FlashRec(i - 1)' = FlashRec((d + i) - 1)
        BY <1>3, <3>1
      <3>3. P[i] = Pending[d + i]
        <4>1. i \in 1 .. Len(K) + Len(new) /\ i <= Len(K)
          BY <1>7, <1>10, <3>1
        <4> QED BY <1>7, <1>9, <3>1, <4>1
      <3> QED BY <1>5, <2>1, <3>1, <3>2, <3>3
    <2>3. CASE ~(i <= n - d)
      <3> DEFINE j == i - (n - d)
      <3>1. /\ i - 1 \in n - d .. ((n - d) + R) - 1 /\ ((i - 1) - (n - d)) + 1 = j
            /\ j \in 1 .. R /\ j \in Int /\ i = j + (n - d)
        BY <1>3, <1>5, <2>3
      <3> HIDE DEF j
      <3>2. FlashRec(i - 1)' = recs[j]
        BY <1>3, <3>1
      <3>3. CASE j <= t
        <4>1. /\ j \in 1 .. t /\ i \in 1 .. (n + t) - d /\ n + j = d + i
          BY <1>2, <1>3, <1>5, <3>1, <3>3
        <4>2. i \in 1 .. Len(K) + Len(new) /\ i <= Len(K)
          BY <1>7, <1>10, <4>1
        <4>3. P[i] = Pending[d + i]
          BY <1>7, <1>9, <4>1, <4>2
        <4>4. Pending[d + i] = staging[j]
          BY <1>5, <4>1
        <4> QED BY <1>4, <2>1, <3>2, <4>1, <4>3, <4>4
      <3>4. CASE ~(j <= t)
        <4>1. j = t + 1 /\ t + 1 <= R /\ ~(i <= Len(K)) /\ i - Len(K) = 1
          <5> DEFINE lk == Len(K)
          <5>1. t + 1 >= R /\ t \in Nat /\ lk = (n + t) - d /\ n \in Nat /\ d <= n
            BY <1>1, <1>2, <1>3, <1>5, <1>7
          <5>2. j \in 1 .. R /\ ~(j <= t) /\ i = j + (n - d)
            BY <3>1, <3>4
          <5> HIDE DEF lk
          <5>3. j = t + 1 /\ t + 1 <= R /\ ~(i <= lk) /\ i - lk = 1
            BY <5>1, <5>2
          <5> QED BY <5>3 DEF lk
        <4>2. P[i] = new[1]
          BY <1>9, <1>10, <4>1
        <4> QED BY <1>4, <1>8, <2>1, <3>2, <4>1, <4>2
      <3> QED BY <3>3, <3>4
    <2> QED BY <2>2, <2>3
  <1>12. Pending' = P
    BY <1>6, <1>9, <1>10, <1>11, SeqEqual
  <1>13. d <= Len(Pending) /\ Len(staging') = 0
    BY <1>1, <1>2, <1>3, <1>5
  <1>14. Q!Persist(new, d)
    BY <1>1, <1>12, <1>13 DEF Q!Persist, Q!Keep, P, K
  <1>15. Q!Operation
    <2>1. CASE t + 1 <= R
      <3>1. Q!Persist(<<NewRec>>, d)
        BY <1>8, <1>14, <2>1
      <3> QED BY <1>2, <3>1 DEF Q!Operation
    <2>2. CASE ~(t + 1 <= R)
      <3>1. Q!Persist(<<>>, d)
        BY <1>8, <1>14, <2>2
      <3> QED BY <3>1 DEF Q!Operation
    <2> QED BY <2>1, <2>2
  <1> QED BY <1>1, <1>15, ReadyOperation

\* A read that hands out the next record of the queue.
LEMMA GiveRefines ==
  ASSUME OpensSession, ReadFrame, s_inited,
         Len(session) < Len(Pending), Len(session) < Len(promised'),
         session' = Append(session, Pending[Len(session) + 1])
  PROVE  Q!Next
  <1>1. Pending' = Pending /\ staging' = staging /\ s_inited' = s_inited
    BY QuietPending DEF ReadFrame
  <1>2. upload_active' = TRUE
        /\ Len(promised') = IF upload_active THEN Len(promised) ELSE Len(Pending)
    BY DEF OpensSession
  <1>3. Q!Give
    BY <1>1, <1>2 DEF Q!Give
  <1>4. Q!Operation
    BY <1>3 DEF Q!Operation
  <1> QED BY <1>1, <1>4, ReadyOperation

\* A read that hands out nothing opens a session, or changes nothing.
LEMMA GiveNothingRefines ==
  ASSUME IInv, OpensSession, ReadFrame, s_inited, session' = session
  PROVE  [Q!Next]_Q!qvars
  <1>1. /\ Pending' = Pending /\ UNCHANGED <<s_inited, flash, ptrs, staging>>
    BY QuietPending DEF ReadFrame
  <1>2. CASE upload_active
    <2>1. upload_active' = upload_active /\ promised' = promised
      BY <1>2 DEF OpensSession, IInv, TypeOK
    <2> QED BY <1>1, <2>1, UnseenStep
  <1>3. CASE ~upload_active
    <2>1. upload_active' = TRUE /\ promised' = Pending
      BY <1>3 DEF OpensSession
    <2>2. Q!GiveNothing
      BY <1>1, <1>3, <2>1 DEF Q!GiveNothing
    <2>3. Q!Operation
      BY <2>2 DEF Q!Operation
    <2> QED BY <1>1, <2>3, ReadyOperation
  <1> QED BY <1>2, <1>3

\* A flash read hands out the record at the read cursor.
LEMMA ReadFlashRefines ==
  ASSUME IInv, MarkInv, SessInv, ReadFlash PROVE Q!Next
  <1> DEFINE n == FlashTotal
             q == staging_read_idx
  <1>1. s_inited /\ OpensSession /\ ReadFrame
    BY DEF ReadFlash
  <1>2. PICK k \in read_offset .. n - 1 :
          SkippedUpTo(k) /\ session' = Append(session, FlashRec(k))
    BY DEF ReadFlash
  <1>3. /\ n \in Nat /\ read_offset \in Nat /\ q \in Nat /\ Len(session) = read_offset + q
        /\ q > 0 => read_offset = n
    BY FlashTotalIs DEF IInv, TypeOK, SessInv, SessForm
  <1>4. k = read_offset
    <2>1. k \in Int /\ read_offset <= k /\ k <= FlashTotal
      BY <1>3
    <2> QED BY <1>2, <2>1, NothingSkipped
  <1> HIDE DEF n, q
  <1>5. Len(session) = k /\ k + 1 \in 1 .. n /\ (k + 1) - 1 = k
    BY <1>3, <1>4
  <1>6. Pending[k + 1] = FlashRec(k)
    <2>1. Pending[k + 1] = FlashRec((k + 1) - 1)
      BY <1>5, PendingIs DEF n
    <2> QED BY <1>5, <2>1
  <1>7. Len(session) < Len(Pending)
    <2>1. Len(Pending) = n + Len(staging) /\ Len(staging) \in Nat
      BY PendingIs DEF n
    <2> QED BY <1>3, <1>5, <2>1
  <1>8. Len(session) < Len(promised')
    <2>1. Len(promised') = n + upload_staging_snap'
      BY <1>1, ReadOpens, QuietFlash DEF ReadFrame, n
    <2>2. upload_staging_snap' \in Nat
      BY <1>1 DEF OpensSession, IInv, TypeOK
    <2> DEFINE c == Len(promised')
               u == upload_staging_snap'
    <2>3. c = n + u /\ u \in Nat /\ k < n /\ k \in Nat
      BY <1>3, <1>4, <1>5, <2>1, <2>2
    <2> HIDE DEF c, u
    <2>4. k < c
      BY <1>3, <2>3
    <2> QED BY <1>5, <2>4 DEF c
  <1> QED BY <1>1, <1>2, <1>5, <1>6, <1>7, <1>8, GiveRefines

\* A read once flash is exhausted hands out the next staged record, if the
\* session still has one.
LEMMA ReadStagingRefines ==
  ASSUME IInv, MarkInv, SessInv, ReadStaging PROVE [Q!Next]_Q!qvars
  <1> DEFINE n == FlashTotal
             q == staging_read_idx
  <1>1. /\ s_inited /\ OpensSession /\ ReadFrame /\ read_offset <= n /\ SkippedUpTo(n)
    BY DEF ReadStaging
  <1>2. CASE ~(staging_read_idx < upload_staging_snap')
    <2>1. session' = session
      BY <1>2 DEF ReadStaging
    <2> QED BY <1>1, <2>1, GiveNothingRefines
  <1>3. CASE staging_read_idx < upload_staging_snap'
    <2>1. session' = Append(session, staging[q + 1])
      BY <1>3 DEF ReadStaging
    <2>2. /\ n \in Nat /\ read_offset \in Nat /\ q \in Nat /\ Len(session) = read_offset + q
      BY FlashTotalIs DEF IInv, TypeOK, SessInv, SessForm
    <2>3. n = read_offset
      <3>1. n \in Int /\ read_offset <= n /\ n <= FlashTotal
        BY <1>1, <2>2
      <3> QED BY <1>1, <3>1, NothingSkipped
    <2>4. upload_staging_snap' \in Nat /\ upload_staging_snap' <= Len(staging) /\ Len(staging) \in Nat
      BY <1>1 DEF OpensSession, IInv, TypeOK, CursorsInBounds
    <2>5. Len(promised') = n + upload_staging_snap'
      BY <1>1, ReadOpens, QuietFlash DEF ReadFrame
    <2>6. /\ Len(Pending) = n + Len(staging)
          /\ \A i \in 1 .. Len(staging) : Pending[n + i] = staging[i]
      BY PendingIs
    <2>7. /\ Len(session) < Len(Pending) /\ Len(session) < Len(promised')
          /\ Len(session) + 1 = n + (q + 1) /\ q + 1 \in 1 .. Len(staging)
      <3> DEFINE a == Len(session)
                 b == Len(Pending)
                 c == Len(promised')
                 t == Len(staging)
                 u == upload_staging_snap'
      <3>1. /\ n \in Nat /\ q \in Nat /\ u \in Nat /\ t \in Nat
            /\ a = n + q /\ b = n + t /\ c = n + u /\ q < u /\ u <= t
        BY <1>3, <2>2, <2>3, <2>4, <2>5, <2>6
      <3> HIDE DEF a, b, c, t, u, n, q
      <3>2. a < b /\ a < c /\ a + 1 = n + (q + 1) /\ q + 1 \in 1 .. t
        BY <3>1
      <3> QED BY <3>2 DEF a, b, c, t
    <2> HIDE DEF n, q
    <2>8. Pending[Len(session) + 1] = staging[q + 1]
      BY <2>6, <2>7
    <2> QED BY <1>1, <2>1, <2>7, <2>8, GiveRefines
  <1> QED BY <1>2, <1>3

\* A commit confirms what was handed out; staged records are confirmed only
\* after every flash record.
LEMMA CommitRefines ==
  ASSUME IInv, MarkInv, SessInv, IInv', MarkInv', NEW m \in BOOLEAN, my_flash_store_commit(m)
  PROVE  Q!Next
  <1> DEFINE n == FlashTotal
             n2 == FlashTotal'
             q == staging_read_idx
             t == Len(staging)
             t2 == Len(staging')
             l2 == Len(Pending')
  <1>1. /\ s_inited /\ s_inited' = s_inited /\ upload_active' = FALSE /\ session' = <<>>
        /\ promised' = <<>>
    BY DEF my_flash_store_commit, ResetSession, CloseHistory
  <1>2. Pending' = SubSeq(Pending, Len(session) + 1, Len(Pending))
    BY CommitPending
  <1>3. n2 = n - read_offset
    BY CommitFlash
  <1>4. q \in Nat /\ q <= t /\ t2 = t - q
    BY CommitStaging
  <1>5. /\ n \in Nat /\ read_offset \in Nat /\ t \in Nat /\ n2 \in Nat /\ l2 = n2 + t2
        /\ q > 0 => read_offset = n
    <2>1. n \in Nat /\ t \in Nat /\ read_offset \in Nat
      BY FlashTotalIs DEF IInv, TypeOK
    <2>2. n2 \in Nat /\ l2 = n2 + t2
      BY PendingFormNext DEF PendingForm
    <2>3. q > 0 => read_offset = n
      BY DEF SessInv, SessForm
    <2> QED BY <2>1, <2>2, <2>3
  <1>6. t2 = IF t <= l2 THEN t ELSE l2
    <2> HIDE DEF n, n2, q, t, t2, l2
    <2>1. CASE q = 0
      BY <1>4, <1>5, <2>1
    <2>2. CASE q # 0
      <3>1. n2 = 0
        BY <1>3, <1>4, <1>5, <2>2
      <3> QED BY <1>4, <1>5, <2>2, <3>1
    <2> QED BY <2>1, <2>2
  <1>7. Len(promised') = 0
    BY <1>1
  <1>8. Q!Confirm
    BY <1>1, <1>2, <1>6, <1>7 DEF Q!Confirm, Q!Keep, Q!Least, Q!Closed
  <1>9. Q!Operation
    BY <1>8 DEF Q!Operation
  <1> QED BY <1>1, <1>9, ReadyOperation

\* my_flash_store_clear empties the queue.
LEMMA ClearRefines ==
  ASSUME IInv', MarkInv', NEW m \in BOOLEAN, my_flash_store_clear(m)
  PROVE  Q!Next
  <1> DEFINE n2 == FlashTotal'
  <1>1. /\ s_inited /\ s_inited' = s_inited /\ upload_active' = FALSE /\ session' = <<>>
        /\ promised' = <<>> /\ staging' = <<>> /\ valid_sectors' = 0 /\ rd_rec_idx' = 0
    BY DEF my_flash_store_clear, RegionReset, ResetSession, CloseHistory
  <1>2. /\ Pending' \in Seq(Rec) /\ Len(Pending') = n2 + Len(staging') /\ n2 \in Nat
        /\ rd_rec_idx' + n2 = valid_sectors' * RecPerSector
    BY PendingFormNext DEF PendingForm
  <1>3. Len(staging') = 0 /\ Len(promised') = 0
    BY <1>1
  <1> HIDE DEF n2
  <1>4. n2 = 0
    <2>1. 0 + n2 = 0 * RecPerSector
      BY <1>1, <1>2
    <2> QED BY <1>2, <2>1, SizeAssumption
  <1>5. Len(Pending') = 0
    BY <1>2, <1>3, <1>4
  <1>6. Pending' = <<>>
    BY <1>2, <1>5, EmptySeq
  <1>7. Q!Clear
    BY <1>1, <1>3, <1>6 DEF Q!Clear, Q!Closed
  <1>8. Q!Operation
    BY <1>7 DEF Q!Operation
  <1> QED BY <1>1, <1>8, ReadyOperation

\* The region starts as an empty queue that is not ready.
LEMMA InitRefines == Init => Q!Init
  <1> SUFFICES ASSUME Init PROVE Q!Init
    OBVIOUS
  <1>1. /\ s_inited = FALSE /\ staging = <<>> /\ upload_active = FALSE
        /\ session = <<>> /\ promised = <<>> /\ meta = NoMeta
    BY DEF Init
  <1>2. DurablePending \in Seq(Rec) /\ Len(DurablePending) = 0
    <2>1. IInv /\ MarkInv
      BY InitIInv, InitMark
    <2>2. meta.valid = 0 /\ meta.idx = 0
      BY <1>1 DEF NoMeta
    <2>3. meta.valid * RecPerSector - meta.idx = 0
      BY <2>2, SizeAssumption
    <2> QED BY <2>1, <2>3, DurableIs
  <1>3. DurablePending = <<>>
    BY <1>2, EmptySeq
  <1>4. Len(staging) = 0 /\ Len(promised) = 0
    BY <1>1
  <1> QED BY <1>1, <1>3, <1>4 DEF Q!Init

\* Every step of the region is a step of the record queue, or none.
LEMMA NextRefines ==
  ~Faults /\ IInv /\ MarkInv /\ SessInv /\ SavedInv /\ [Next]_vars => [Q!Next]_Q!qvars
  <1> SUFFICES ASSUME ~Faults, IInv, MarkInv, SessInv, SavedInv, [Next]_vars
               PROVE  [Q!Next]_Q!qvars
    OBVIOUS
  <1>Z. \A m \in ZmsOutcome : m = TRUE /\ m \in BOOLEAN
    BY DEF ZmsOutcome
  <1>I. IInv' /\ MarkInv'
    BY NextIInv, NextMark
  <1>1. ASSUME NEW ok \in ZmsOutcome, my_flash_store_init(ok) PROVE Q!Next
    <2>1. my_flash_store_init(TRUE)
      BY <1>1, <1>Z
    <2> QED BY <1>I, <2>1, LoadRefines
  <1>2. CASE PushDropped
    BY <1>2, UnseenStep DEF PushDropped, PushStep, sessv, hist
  <1>3. CASE PushStaged
    BY <1>3, <1>I, StagedRefines
  <1>4. ASSUME NEW m \in ZmsOutcome, PushFlushed(m) PROVE Q!Next
    BY <1>4, <1>I, <1>Z, FlushRefines
  <1>5. CASE my_flash_store_upload_begin
    <2>1. /\ s_inited /\ UNCHANGED <<s_inited, flash, ptrs, staging>> /\ upload_active' = TRUE
          /\ session' = <<>> /\ promised' = Pending
      BY <1>5 DEF my_flash_store_upload_begin
    <2>2. Pending' = Pending
      BY <2>1, QuietPending
    <2>3. Q!Begin
      BY <2>1, <2>2 DEF Q!Begin
    <2>4. Q!Operation
      BY <2>3 DEF Q!Operation
    <2> QED BY <2>1, <2>4, ReadyOperation
  <1>6. CASE ReadFlash
    BY <1>6, ReadFlashRefines
  <1>7. CASE ReadError
    BY <1>7, GiveNothingRefines DEF ReadError
  <1>8. CASE ReadStaging
    BY <1>8, ReadStagingRefines
  <1>9. CASE my_flash_store_rewind
    <2>1. /\ s_inited /\ UNCHANGED <<s_inited, flash, ptrs, staging>> /\ upload_active' = FALSE
          /\ session' = <<>> /\ promised' = <<>>
      BY <1>9 DEF my_flash_store_rewind, ResetSession, CloseHistory
    <2>2. Pending' = Pending
      BY <2>1, QuietPending
    <2>3. Len(promised') = 0
      BY <2>1
    <2>4. Q!Abort
      BY <2>1, <2>2, <2>3 DEF Q!Abort, Q!Closed
    <2>5. Q!Operation
      BY <2>4 DEF Q!Operation
    <2> QED BY <2>1, <2>5, ReadyOperation
  <1>10. ASSUME NEW m \in ZmsOutcome, my_flash_store_commit(m) PROVE Q!Next
    BY <1>10, <1>I, <1>Z, CommitRefines
  <1>11. ASSUME NEW m \in ZmsOutcome, my_flash_store_clear(m) PROVE Q!Next
    BY <1>11, <1>I, <1>Z, ClearRefines
  <1>12. CASE PowerLoss
    BY <1>12, PowerLossRefines
  <1>13. ASSUME NEW k \in 0 .. RecPerSector, PowerLossInFlush(k) PROVE FALSE
    BY <1>13 DEF PowerLossInFlush
  <1>14. ASSUME NEW k \in 0 .. RecPerSector, PushFailed(k) PROVE UNCHANGED Q!qvars
    <2>1. /\ s_inited /\ pushed < MaxRec /\ (k = 0 \/ wr_sector \notin Held)
          /\ UNCHANGED <<s_inited, upload_active, session, promised>>
      BY <1>14 DEF PushFailed, PushStep, sessv, hist
    <2>2. FlushFails(Append(staging, NewRec), k)
      BY <1>14 DEF PushFailed
    <2>3. Pending' = Pending /\ staging' = staging
      BY <2>1, <2>2, FailedPending, FailedFlush
    <2> QED BY <2>1, <2>3 DEF Q!qvars
  <1>15. CASE UNCHANGED vars
    <2>1. Pending' = Pending /\ DurablePending' = DurablePending
      BY <1>15, QuietPending DEF vars, ptrs, DurablePending
    <2> QED BY <1>15, <2>1 DEF vars, sessv, hist, Q!qvars
  <1> QED
    BY <1>1, <1>2, <1>3, <1>4, <1>5, <1>6, <1>7, <1>8, <1>9, <1>10, <1>11,
       <1>12, <1>13, <1>14, <1>15 DEF Next

\* A region of my_flash_store.c is a record queue, for every sector size and
\* number of sectors: records leave in arrival order, a session hands out what
\* was queued when it opened, only a confirmation or a full ring removes
\* records, and a power loss costs only what was still staged.  That needs
\* the ZMS calls to succeed, the power to hold during a flush, and a flash
\* write that fails halfway to do so outside the pending window (a ring with
\* room); without that the records it wrote are pending twice.
THEOREM StoreImplementsQueue ==
  ASSUME ~Faults
  PROVE  Spec => ImplementsQueue
  <1>1. IInv /\ MarkInv /\ SessInv /\ SavedInv /\ [Next]_vars =>
          /\ SavedInv'
          /\ [Q!Next]_Q!qvars
    BY NextSaved, NextRefines
  <1> QED BY <1>1, InitIInv, NextIInv, InitMark, NextMark, InitSess, NextSess,
             InitSaved, InitRefines, PTL DEF Spec, ImplementsQueue, Q!Spec
=============================================================================
