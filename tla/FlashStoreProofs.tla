-------------------------- MODULE FlashStoreProofs --------------------------
(***************************************************************************)
(* Proofs about FlashStore for every region size.  The inductive invariant *)
(* IInv is the conjunction of TypeOK, RingConsistent and CursorsInBounds:  *)
(* the ring pointers stay consistent because commit frees only sectors the *)
(* cursors have passed, the cursors stay in bounds because pointers do not *)
(* move in a session, and both need the ranges of TypeOK.                  *)
(***************************************************************************)
EXTENDS FlashStore, TLAPS

IInv == TypeOK /\ RingConsistent /\ CursorsInBounds

-----------------------------------------------------------------------------
(* Arithmetic of the ring.                                                 *)

\* A record number is its sector times the sector size plus its slot.
LEMMA DivModSplit ==
  ASSUME NEW a \in Nat, NEW r \in Nat \ {0}
  PROVE  /\ a \div r \in Nat
         /\ a % r \in 0 .. r - 1
         /\ a = ((a \div r) * r) + (a % r)
  BY SMT

\* Comparing numbers of full sectors is comparing numbers of records.
LEMMA MulLeCancel ==
  ASSUME NEW c \in Nat, NEW v \in Nat, NEW r \in Nat \ {0}, c * r <= v * r
  PROVE  c <= v
  BY SMT

\* A non-empty ring holds at least one sector of records.
LEMMA MulPositive ==
  ASSUME NEW v \in Nat \ {0}, NEW r \in Nat
  PROVE  v * r \in Nat /\ v * r >= r
  BY SMT

\* A ring index moved by at most one round wraps by one subtraction.
LEMMA ModWrap ==
  ASSUME NEW n \in Nat \ {0}, NEW a \in 0 .. n - 1, NEW b \in 0 .. n
  PROVE  (a + b) % n = IF a + b < n THEN a + b ELSE a + b - n
  BY SMT

\* The whole sectors a commit frees are valid ones, and freeing all of them
\* leaves no partly confirmed sector.
LEMMA CommitArith ==
  ASSUME NEW r \in Nat \ {0}, NEW a \in Nat, NEW v \in Nat, a <= v * r
  PROVE  /\ a \div r \in 0 .. v
         /\ a % r \in 0 .. r - 1
         /\ v - (a \div r) = 0 => a % r = 0
         /\ a % r <= (v - (a \div r)) * r
  <1> DEFINE c == a \div r
             m == a % r
  <1>1. c \in Nat /\ m \in 0 .. r - 1 /\ a = (c * r) + m
    BY DivModSplit
  <1> HIDE DEF c, m
  <1>2. c * r \in Nat /\ v * r \in Nat
    BY <1>1
  <1>3. c * r <= v * r
    BY <1>1, <1>2
  <1>4. c <= v
    BY <1>1, <1>3, MulLeCancel
  <1>5. v - c = 0 => m = 0
    <2> SUFFICES ASSUME v - c = 0 PROVE m = 0
      OBVIOUS
    <2>1. c = v
      BY <1>1
    <2>2. c * r = v * r
      BY <2>1
    <2> QED BY <2>2, <1>1, <1>2
  <1>6. m <= (v - c) * r
    <2>1. CASE v - c = 0
      BY <2>1, <1>5, <1>1
    <2>2. CASE v - c # 0
      <3>1. v - c \in Nat \ {0}
        BY <2>2, <1>1, <1>4
      <3>2. (v - c) * r \in Nat /\ (v - c) * r >= r
        BY <3>1, MulPositive
      <3> QED BY <3>2, <1>1
    <2> QED BY <2>1, <2>2
  <1> QED BY <1>1, <1>4, <1>5, <1>6 DEF c, m

-----------------------------------------------------------------------------
(* Inductive steps.                                                        *)

\* A region starts out empty and consistent.
LEMMA InitIInv == Init => IInv
  <1> SUFFICES ASSUME Init PROVE IInv
    OBVIOUS
  <1> USE SizeAssumption DEF Init
  <1>1. TypeOK
    <2>1. meta \in Meta
      BY DEF Sector, Meta, NoMeta
    <2>2. flash \in [Sector -> [Slot -> Rec \cup {NoRec}]]
      BY DEF NoRec
    <2>3. s_inited \in BOOLEAN /\ upload_active \in BOOLEAN
      OBVIOUS
    <2>4. staging \in Seq(Rec)
      OBVIOUS
    <2>5. 0 \in Sector /\ 0 \in Slot /\ 0 \in 0 .. RegionSectors /\ 0 \in 0 .. MaxRec
      BY DEF Sector, Slot
    <2> QED BY <2>1, <2>2, <2>3, <2>4, <2>5 DEF TypeOK
  <1>2. RingConsistent
    <2>1. 0 % RegionSectors = 0
      OBVIOUS
    <2> QED BY <2>1 DEF RingConsistent, NoMeta
  <1>3. CursorsInBounds
    BY DEF CursorsInBounds
  <1> QED BY <1>1, <1>2, <1>3 DEF IInv

\* A saved meta record is as consistent as the pointers it was saved from.
LEMMA SavedMeta ==
  ASSUME IInv, NEW ok \in BOOLEAN, MetaSave(ok),
         wr_sector' \in Sector, rd_sector' \in Sector,
         valid_sectors' \in 0 .. RegionSectors, rd_rec_idx' \in Slot,
         wr_sector' = (rd_sector' + valid_sectors') % RegionSectors,
         valid_sectors' = 0 => rd_rec_idx' = 0
  PROVE  /\ meta' \in Meta
         /\ RingConsistent'
  <1>1. CASE ok
    <2>1. meta' = [wr |-> wr_sector', rd |-> rd_sector', valid |-> valid_sectors',
                   idx |-> rd_rec_idx', ok |-> TRUE]
      BY <1>1 DEF MetaSave
    <2>2. rd_rec_idx' \in 0 .. RecPerSector /\ rd_rec_idx' < RecPerSector
      BY SizeAssumption DEF Slot
    <2>3. meta' \in Meta
      BY <2>1, <2>2 DEF Meta
    <2>4. RingConsistent'
      BY <2>1, <2>2 DEF RingConsistent
    <2> QED BY <2>3, <2>4
  <1>2. CASE ~ok
    <2>1. meta' = meta
      BY <1>2 DEF MetaSave
    <2> QED BY <2>1 DEF IInv, TypeOK, RingConsistent
  <1> QED BY <1>1, <1>2

\* The zeroed region is consistent, with the old or a newly saved meta record.
LEMMA ResetRegion ==
  ASSUME IInv, RegionReset
  PROVE  /\ wr_sector' = (rd_sector' + valid_sectors') % RegionSectors
         /\ wr_sector' \in Sector /\ rd_sector' \in Sector
         /\ valid_sectors' \in 0 .. RegionSectors /\ rd_rec_idx' \in Slot
         /\ valid_sectors' = 0 => rd_rec_idx' = 0
         /\ staging' \in Seq(Rec)
         /\ CursorsInBounds'
         /\ read_offset' \in Nat /\ staging_read_idx' \in Nat
         /\ upload_staging_snap' \in Nat /\ upload_active' \in BOOLEAN
  <1>1. 0 % RegionSectors = 0
    BY SizeAssumption
  <1>2. 0 \in Sector /\ 0 \in Slot /\ 0 \in 0 .. RegionSectors
    BY SizeAssumption DEF Sector, Slot
  <1>3. staging' \in Seq(Rec)
    BY DEF RegionReset
  <1>5. upload_active' \in BOOLEAN
    BY DEF RegionReset, ResetSession
  <1>4. CursorsInBounds'
    BY SizeAssumption DEF RegionReset, ResetSession, CursorsInBounds
  <1> QED BY <1>1, <1>2, <1>3, <1>4, <1>5 DEF RegionReset, ResetSession

\* my_flash_store_init: the loaded or reset region satisfies the invariant.
LEMMA LoadIInv ==
  ASSUME IInv, NEW ok \in BOOLEAN, my_flash_store_init(ok)
  PROVE  IInv'
  <1> USE SizeAssumption
  <1>1. CASE ok /\ MetaUsable
    <2>1. meta.idx <= meta.valid * RecPerSector
      <3>1. meta.valid \in Nat /\ meta.idx \in Nat /\ meta.idx < RecPerSector
        BY DEF IInv, TypeOK, RingConsistent, Meta
      <3>2. CASE meta.valid = 0
        BY <3>1, <3>2 DEF IInv, RingConsistent
      <3>3. CASE meta.valid # 0
        BY <3>1, <3>3, MulPositive
      <3> QED BY <3>2, <3>3
    <2>2. /\ wr_sector' = meta.wr /\ rd_sector' = meta.rd
          /\ valid_sectors' = meta.valid /\ rd_rec_idx' = meta.idx
          /\ staging' = <<>> /\ ResetSession /\ s_inited' = TRUE
          /\ UNCHANGED <<flash, meta, pushed>>
      BY <1>1 DEF my_flash_store_init, RegionLoad, hist
    <2>3. TypeOK'
      <3>1. meta.wr \in Sector /\ meta.rd \in Sector /\ meta.valid \in 0 .. RegionSectors
        BY DEF IInv, TypeOK, Meta
      <3>2. meta.idx \in Slot
        BY DEF IInv, TypeOK, RingConsistent, Meta, Slot
      <3>3. staging' \in Seq(Rec)
        BY <2>2
      <3>4. upload_active' \in BOOLEAN /\ s_inited' \in BOOLEAN
        BY <2>2 DEF ResetSession
      <3> QED BY <2>2, <3>1, <3>2, <3>3, <3>4 DEF IInv, TypeOK, ResetSession
    <2>4. RingConsistent'
      BY <2>2 DEF IInv, RingConsistent
    <2>5. CursorsInBounds'
      BY <2>1, <2>2 DEF IInv, TypeOK, Meta, CursorsInBounds, ResetSession
    <2> QED BY <2>3, <2>4, <2>5 DEF IInv
  <1>2. CASE ~(ok /\ MetaUsable)
    <2>1. RegionReset /\ s_inited' = TRUE /\ UNCHANGED <<flash, meta, pushed>>
      BY <1>2 DEF my_flash_store_init, RegionLoad, hist
    <2> QED BY <2>1, ResetRegion DEF IInv, TypeOK, RingConsistent
  <1> QED BY <1>1, <1>2

\* my_flash_store_clear resets the region.
LEMMA ClearIInv ==
  ASSUME IInv, NEW m \in BOOLEAN, my_flash_store_clear(m)
  PROVE  IInv'
  <1>1. RegionReset /\ MetaSave(m) /\ UNCHANGED <<s_inited, flash, pushed>>
    BY DEF my_flash_store_clear
  <1>2. meta' \in Meta /\ RingConsistent'
    BY <1>1, ResetRegion, SavedMeta
  <1> QED BY <1>1, <1>2, ResetRegion DEF IInv, TypeOK

\* A power loss keeps the meta record and zeroes everything else but flash.
LEMMA RamLostIInv ==
  ASSUME IInv, RamLost,
         flash' \in [Sector -> [Slot -> Rec \cup {NoRec}]], pushed' \in 0 .. MaxRec
  PROVE  IInv'
  <1>1. RegionReset /\ meta' = meta
    BY DEF RamLost
  <1>2. s_inited' \in BOOLEAN
    BY DEF RamLost
  <1> QED BY <1>1, <1>2, ResetRegion DEF IInv, TypeOK, RingConsistent

-----------------------------------------------------------------------------
(* Pushing a record.                                                       *)

\* What a push appends is a sequence of records.
LEMMA AppendedOK ==
  ASSUME IInv, pushed < MaxRec
  PROVE  /\ NewRec \in Rec
         /\ Append(staging, NewRec) \in Seq(Rec)
         /\ Len(Append(staging, NewRec)) = Len(staging) + 1
         /\ Len(staging) \in Nat
         /\ pushed + 1 \in 0 .. MaxRec
  BY SizeAssumption DEF IInv, TypeOK, Rec, NewRec

\* The sector written from a full buffer holds records only.
LEMMA SectorOK ==
  ASSUME NEW recs \in Seq(Rec), Len(recs) >= RecPerSector
  PROVE  SectorOf(recs) \in [Slot -> Rec \cup {NoRec}]
  BY SizeAssumption DEF SectorOf, Slot

\* A sector write cut short leaves records and unmarked slots only.
LEMMA TornOK ==
  ASSUME IInv, pushed < MaxRec, Len(staging) + 1 >= RecPerSector,
         NEW k \in 0 .. RecPerSector,
         flash' = [flash EXCEPT ![wr_sector] = SectorTorn(Append(staging, NewRec), k)]
  PROVE  flash' \in [Sector -> [Slot -> Rec \cup {NoRec}]]
  <1> DEFINE recs == Append(staging, NewRec)
             part == SectorTorn(recs, k)
  <1>1. SectorOf(recs) \in [Slot -> Rec \cup {NoRec}]
    BY AppendedOK, SectorOK
  <1>2. flash[wr_sector] \in [Slot -> Rec \cup {NoRec}]
    BY DEF IInv, TypeOK
  <1>3. part \in [Slot -> Rec \cup {NoRec}]
    BY <1>1, <1>2 DEF SectorTorn
  <1> HIDE DEF part
  <1>4. flash' = [flash EXCEPT ![wr_sector] = part]
    BY DEF part
  <1> QED BY <1>3, <1>4 DEF IInv, TypeOK

\* A record dropped during an upload changes nothing.
LEMMA PushDroppedIInv ==
  ASSUME IInv, PushDropped PROVE IInv'
  <1>1. pushed' \in 0 .. MaxRec
    BY SizeAssumption DEF PushDropped, PushStep, IInv, TypeOK
  <1> QED BY <1>1 DEF PushDropped, PushStep, IInv, TypeOK, RingConsistent,
                      CursorsInBounds, ptrs, sessv, hist

\* A record staged without a flush.
LEMMA PushStagedIInv ==
  ASSUME IInv, PushStaged PROVE IInv'
  <1>1. /\ staging' = Append(staging, NewRec) /\ pushed' = pushed + 1
        /\ pushed < MaxRec
        /\ ~DropsRecord /\ ~FlushesNow
        /\ UNCHANGED <<s_inited, sessv, ptrs, flash, meta>>
    BY DEF PushStaged, PushStep
  <1>2. Len(staging) < RecPerSector
    BY <1>1, AppendedOK, SizeAssumption DEF DropsRecord, FlushesNow
  <1>3. TypeOK'
    BY <1>1, AppendedOK DEF IInv, TypeOK, ptrs, sessv
  <1>4. RingConsistent'
    BY <1>1 DEF IInv, RingConsistent, ptrs
  <1>5. CursorsInBounds'
    BY <1>1, <1>2, AppendedOK, SizeAssumption
       DEF IInv, TypeOK, CursorsInBounds, ptrs, sessv
  <1> QED BY <1>3, <1>4, <1>5 DEF IInv

\* Moving the ring forward by one sector keeps the pointers consistent.
LEMMA AdvanceRingOK ==
  ASSUME IInv, AdvanceRing, wr_sector' = NextSector(wr_sector)
  PROVE  /\ wr_sector' \in Sector /\ rd_sector' \in Sector
         /\ valid_sectors' \in 0 .. RegionSectors /\ rd_rec_idx' \in Slot
         /\ wr_sector' = (rd_sector' + valid_sectors') % RegionSectors
         /\ valid_sectors' # 0
         /\ rd_rec_idx' <= valid_sectors' * RecPerSector
  <1> USE SizeAssumption
  <1>0. /\ wr_sector \in 0 .. RegionSectors - 1 /\ rd_sector \in 0 .. RegionSectors - 1
        /\ valid_sectors \in 0 .. RegionSectors
        /\ rd_rec_idx \in 0 .. RecPerSector - 1
        /\ wr_sector = (rd_sector + valid_sectors) % RegionSectors
    BY DEF IInv, TypeOK, RingConsistent, Sector, Slot
  <1>1. wr_sector = IF rd_sector + valid_sectors < RegionSectors
                    THEN rd_sector + valid_sectors
                    ELSE rd_sector + valid_sectors - RegionSectors
    BY <1>0, ModWrap
  <1>2. /\ 1 \in 0 .. RegionSectors
        /\ wr_sector' = (wr_sector + 1) % RegionSectors
    BY DEF NextSector
  <1>5. wr_sector' = IF wr_sector + 1 < RegionSectors THEN wr_sector + 1 ELSE 0
    <2>1. (wr_sector + 1) % RegionSectors = IF wr_sector + 1 < RegionSectors THEN wr_sector + 1
                                            ELSE wr_sector + 1 - RegionSectors
      BY <1>0, <1>2, ModWrap
    <2> QED BY <1>0, <1>2, <2>1
  <1>3. CASE valid_sectors < RegionSectors
    <2>1. valid_sectors' = valid_sectors + 1 /\ rd_sector' = rd_sector /\ rd_rec_idx' = rd_rec_idx
      BY <1>3 DEF AdvanceRing
    <2>2. (rd_sector' + valid_sectors') % RegionSectors
            = IF rd_sector + valid_sectors + 1 < RegionSectors
              THEN rd_sector + valid_sectors + 1
              ELSE rd_sector + valid_sectors + 1 - RegionSectors
      <3>1. valid_sectors' \in 0 .. RegionSectors /\ rd_sector' \in 0 .. RegionSectors - 1
        BY <1>0, <1>3, <2>1
      <3>2. (rd_sector' + valid_sectors') % RegionSectors
              = IF rd_sector' + valid_sectors' < RegionSectors THEN rd_sector' + valid_sectors'
                ELSE rd_sector' + valid_sectors' - RegionSectors
        BY <3>1, ModWrap
      <3> QED BY <1>0, <3>1, <3>2, <2>1
    <2>3. valid_sectors' \in Nat \ {0}
      BY <2>1, <1>0
    <2>4. valid_sectors' * RecPerSector >= RecPerSector /\ valid_sectors' * RecPerSector \in Nat
      BY <2>3, MulPositive
    <2> QED BY <1>0, <1>1, <1>5, <1>3, <2>1, <2>2, <2>4 DEF Sector, Slot
  <1>4. CASE ~(valid_sectors < RegionSectors)
    <2>1. valid_sectors' = valid_sectors /\ rd_sector' = NextSector(rd_sector) /\ rd_rec_idx' = 0
      BY <1>4 DEF AdvanceRing
    <2>2. rd_sector' = IF rd_sector + 1 < RegionSectors THEN rd_sector + 1 ELSE 0
      <3>1. (rd_sector + 1) % RegionSectors = IF rd_sector + 1 < RegionSectors THEN rd_sector + 1
                                              ELSE rd_sector + 1 - RegionSectors
        BY <1>0, <1>2, ModWrap
      <3> QED BY <1>0, <2>1, <3>1 DEF NextSector
    <2>3. valid_sectors = RegionSectors
      BY <1>0, <1>4
    <2>4. (rd_sector' + valid_sectors') % RegionSectors = rd_sector'
      <3>1. rd_sector' \in 0 .. RegionSectors - 1 /\ valid_sectors' \in 0 .. RegionSectors
        BY <1>0, <2>1, <2>2, <2>3
      <3>2. (rd_sector' + valid_sectors') % RegionSectors
              = IF rd_sector' + valid_sectors' < RegionSectors THEN rd_sector' + valid_sectors'
                ELSE rd_sector' + valid_sectors' - RegionSectors
        BY <3>1, ModWrap
      <3> QED BY <3>1, <3>2, <2>1, <2>3
    <2>5. valid_sectors' * RecPerSector >= RecPerSector /\ valid_sectors' * RecPerSector \in Nat
      BY <2>1, <2>3, MulPositive
    <2> QED BY <1>0, <1>1, <1>5, <2>1, <2>2, <2>3, <2>4, <2>5 DEF Sector, Slot
  <1> QED BY <1>3, <1>4

\* A record that fills the staging buffer and flushes it.
LEMMA PushFlushedIInv ==
  ASSUME IInv, NEW m \in BOOLEAN, PushFlushed(m)
  PROVE  IInv'
  <1> DEFINE recs == Append(staging, NewRec)
  <1>1. /\ pushed < MaxRec /\ pushed' = pushed + 1
        /\ ~upload_active /\ Len(staging) + 1 >= RecPerSector
        /\ UNCHANGED <<s_inited, sessv>>
    BY DEF PushFlushed, PushStep, FlushesNow
  <1>2. /\ recs \in Seq(Rec) /\ Len(recs) = Len(staging) + 1 /\ Len(staging) \in Nat
        /\ pushed' \in 0 .. MaxRec
    BY <1>1, AppendedOK
  <1>3. FlushStaging(recs, m)
    BY DEF PushFlushed
  <1>4. AdvanceRing /\ wr_sector' = NextSector(wr_sector) /\ staging' = <<>> /\ MetaSave(m)
    BY <1>3 DEF FlushStaging
  <1>5. flash' \in [Sector -> [Slot -> Rec \cup {NoRec}]]
    <2>1. SectorOf(recs) \in [Slot -> Rec \cup {NoRec}]
      BY <1>1, <1>2, SectorOK
    <2> QED BY <1>3, <2>1 DEF FlushStaging, IInv, TypeOK
  <1>6. meta' \in Meta /\ RingConsistent'
    BY <1>4, AdvanceRingOK, SavedMeta
  <1>7. staging' \in Seq(Rec)
    BY <1>4
  <1>8. TypeOK'
    BY <1>1, <1>2, <1>4, <1>5, <1>6, <1>7, AdvanceRingOK DEF IInv, TypeOK, sessv
  <1>9. CursorsInBounds'
    <2>1. rd_rec_idx' \in Nat /\ rd_rec_idx' <= valid_sectors' * RecPerSector
      BY <1>4, AdvanceRingOK, SizeAssumption DEF Slot
    <2>2. read_offset' = 0 /\ upload_staging_snap' = 0 /\ staging_read_idx' = 0
      BY <1>1 DEF IInv, TypeOK, CursorsInBounds, sessv
    <2>3. Len(staging') = 0
      BY <1>4
    <2> QED BY <2>1, <2>2, <2>3, SizeAssumption DEF CursorsInBounds
  <1> QED BY <1>6, <1>8, <1>9 DEF IInv

\* The same when the sector write fails.
LEMMA PushFailedIInv ==
  ASSUME IInv, NEW k \in 0 .. RecPerSector, PushFailed(k)
  PROVE  IInv'
  <1> DEFINE recs == Append(staging, NewRec)
  <1>1. /\ pushed < MaxRec /\ pushed' = pushed + 1
        /\ ~upload_active /\ Len(staging) + 1 >= RecPerSector
        /\ UNCHANGED <<s_inited, sessv, ptrs, meta>>
        /\ staging' = SubSeq(recs, 1, Len(recs) - 1)
        /\ flash' = [flash EXCEPT ![wr_sector] = SectorTorn(recs, k)]
    BY DEF PushFailed, PushStep, FlushesNow, FlushFails
  <1>2. /\ recs \in Seq(Rec) /\ Len(recs) = Len(staging) + 1 /\ Len(staging) \in Nat
        /\ pushed' \in 0 .. MaxRec
    BY <1>1, AppendedOK
  <1>3. staging' \in Seq(Rec) /\ Len(staging') = Len(staging)
    BY <1>1, <1>2
  <1>4. flash' \in [Sector -> [Slot -> Rec \cup {NoRec}]]
    BY <1>1, TornOK
  <1>5. TypeOK'
    BY <1>1, <1>2, <1>3, <1>4 DEF IInv, TypeOK, ptrs, sessv
  <1>6. RingConsistent' /\ CursorsInBounds'
    BY <1>1, <1>3 DEF IInv, RingConsistent, CursorsInBounds, ptrs, sessv
  <1> QED BY <1>5, <1>6 DEF IInv

-----------------------------------------------------------------------------
(* Sessions.                                                               *)

\* The flash part of the pending records, without the underflow guard.
LEMMA FlashTotalIs ==
  ASSUME IInv
  PROVE  /\ FlashTotal \in Nat
         /\ rd_rec_idx + FlashTotal = valid_sectors * RecPerSector
         /\ valid_sectors * RecPerSector \in Nat
         /\ read_offset <= FlashTotal
  <1>1. valid_sectors \in Nat /\ rd_rec_idx \in Nat /\ read_offset \in Nat
    BY SizeAssumption DEF IInv, TypeOK, Slot
  <1>2. valid_sectors * RecPerSector \in Nat
    BY <1>1, SizeAssumption
  <1>3. rd_rec_idx + read_offset <= valid_sectors * RecPerSector
    BY DEF IInv, CursorsInBounds
  <1> QED BY <1>1, <1>2, <1>3 DEF FlashTotal

\* A step that touches only the cursors keeps the invariant if it keeps the
\* cursors in bounds.
LEMMA CursorStep ==
  ASSUME IInv,
         UNCHANGED <<s_inited, ptrs, staging, flash, meta, pushed>>,
         read_offset' \in Nat, staging_read_idx' \in Nat,
         upload_staging_snap' \in Nat, upload_active' \in BOOLEAN,
         CursorsInBounds'
  PROVE  IInv'
  BY DEF IInv, TypeOK, RingConsistent, ptrs

\* my_flash_store_upload_begin sets the cursors to the oldest record.
LEMMA BeginIInv ==
  ASSUME IInv, my_flash_store_upload_begin PROVE IInv'
  <1>1. Len(staging) \in Nat /\ Len(staging) <= RecPerSector
    BY DEF IInv, TypeOK, CursorsInBounds
  <1>2. CursorsInBounds'
    <2>1. rd_rec_idx \in Nat /\ rd_rec_idx <= valid_sectors * RecPerSector
      BY FlashTotalIs, SizeAssumption DEF IInv, TypeOK, Slot
    <2> QED BY <1>1, <2>1 DEF my_flash_store_upload_begin, CursorsInBounds, ptrs
  <1>3. upload_active' \in BOOLEAN
    BY DEF my_flash_store_upload_begin
  <1> QED BY <1>1, <1>2, <1>3, CursorStep DEF my_flash_store_upload_begin

\* my_flash_store_rewind sets them back.
LEMMA RewindIInv ==
  ASSUME IInv, my_flash_store_rewind PROVE IInv'
  <1>1. ResetSession /\ UNCHANGED <<s_inited, ptrs, staging, flash, meta, pushed>>
    BY DEF my_flash_store_rewind
  <1>2. rd_rec_idx \in Nat /\ rd_rec_idx <= valid_sectors * RecPerSector
    BY FlashTotalIs, SizeAssumption DEF IInv, TypeOK, Slot
  <1>3. CursorsInBounds'
    BY <1>1, <1>2 DEF IInv, TypeOK, CursorsInBounds, ResetSession, ptrs
  <1>4. upload_active' \in BOOLEAN
    BY <1>1 DEF ResetSession
  <1> QED BY <1>1, <1>3, <1>4, CursorStep DEF ResetSession

\* A read that leaves the flash cursor within the flash records and the
\* staging cursor within the session's staged records.
LEMMA ReadIInv ==
  ASSUME IInv, OpensSession, ReadFrame,
         read_offset' \in 0 .. FlashTotal,
         staging_read_idx' \in Nat,
         staging_read_idx' <= upload_staging_snap'
  PROVE  IInv'
  <1>1. UNCHANGED <<s_inited, ptrs, staging, flash, meta, pushed>>
    BY DEF ReadFrame
  <1>2. upload_active' \in BOOLEAN
    BY DEF OpensSession
  <1>3. /\ upload_staging_snap' \in Nat
        /\ upload_staging_snap' <= Len(staging)
        /\ Len(staging) <= RecPerSector
    BY DEF OpensSession, IInv, TypeOK, CursorsInBounds
  <1>4. rd_rec_idx + read_offset' <= valid_sectors * RecPerSector
    <2>1. rd_rec_idx \in Nat
      BY SizeAssumption DEF IInv, TypeOK, Slot
    <2>2. /\ FlashTotal \in Nat /\ valid_sectors * RecPerSector \in Nat
          /\ rd_rec_idx + FlashTotal = valid_sectors * RecPerSector
      BY FlashTotalIs
    <2> HIDE DEF FlashTotal
    <2> QED BY <2>1, <2>2
  <1>5. upload_active' = TRUE
    BY DEF OpensSession
  <1>6. CursorsInBounds'
    BY <1>1, <1>3, <1>4, <1>5 DEF CursorsInBounds, ptrs
  <1> QED BY <1>1, <1>2, <1>3, <1>6, CursorStep, FlashTotalIs

\* Opening a session in a read never shrinks the staged part of it.
LEMMA SnapKept ==
  ASSUME IInv, OpensSession
  PROVE  /\ staging_read_idx \in Nat
         /\ upload_staging_snap' \in Nat
         /\ staging_read_idx <= upload_staging_snap'
  <1>1. /\ staging_read_idx \in Nat /\ upload_staging_snap \in Nat /\ Len(staging) \in Nat
        /\ staging_read_idx <= upload_staging_snap
        /\ ~upload_active => upload_staging_snap = 0
    BY DEF IInv, TypeOK, CursorsInBounds
  <1>2. CASE upload_active
    BY <1>1, <1>2 DEF OpensSession
  <1>3. CASE ~upload_active
    BY <1>1, <1>3 DEF OpensSession
  <1> QED BY <1>2, <1>3

\* A record read from a sector moves the cursor within the ring.
LEMMA ReadFlashIInv ==
  ASSUME IInv, ReadFlash PROVE IInv'
  <1>1. OpensSession /\ ReadFrame /\ staging_read_idx' = staging_read_idx
    BY DEF ReadFlash
  <1>2. PICK k \in read_offset .. FlashTotal - 1 : read_offset' = k + 1
    BY DEF ReadFlash
  <1>3. read_offset' \in 0 .. FlashTotal
    BY <1>2, FlashTotalIs DEF IInv, TypeOK
  <1> QED BY <1>1, <1>3, SnapKept, ReadIInv

\* A failing read leaves the cursors alone.
LEMMA ReadErrorIInv ==
  ASSUME IInv, ReadError PROVE IInv'
  <1>1. OpensSession /\ ReadFrame /\ staging_read_idx' = staging_read_idx
    BY DEF ReadError
  <1>2. PICK k \in read_offset .. FlashTotal - 1 : read_offset' = k
    BY DEF ReadError
  <1>3. read_offset' \in 0 .. FlashTotal
    BY <1>2, FlashTotalIs DEF IInv, TypeOK
  <1> QED BY <1>1, <1>3, SnapKept, ReadIInv

\* A record read from the staging buffer.
LEMMA ReadStagingIInv ==
  ASSUME IInv, ReadStaging PROVE IInv'
  <1>1. OpensSession /\ ReadFrame /\ read_offset' = FlashTotal
    BY DEF ReadStaging
  <1>2. read_offset' \in 0 .. FlashTotal
    BY <1>1, FlashTotalIs
  <1>3. staging_read_idx' = IF staging_read_idx < upload_staging_snap'
                            THEN staging_read_idx + 1 ELSE staging_read_idx
    BY DEF ReadStaging
  <1>4. staging_read_idx' \in Nat /\ staging_read_idx' <= upload_staging_snap'
    BY <1>1, <1>3, SnapKept
  <1> QED BY <1>1, <1>2, <1>4, ReadIInv

\* my_flash_store_commit removes what was read and no more.
LEMMA CommitIInv ==
  ASSUME IInv, NEW m \in BOOLEAN, my_flash_store_commit(m)
  PROVE  IInv'
  <1> DEFINE a == rd_rec_idx + read_offset
             c == a \div RecPerSector
  <1> USE SizeAssumption
  <1>0. /\ rd_sector \in 0 .. RegionSectors - 1 /\ valid_sectors \in 0 .. RegionSectors
        /\ wr_sector \in 0 .. RegionSectors - 1
        /\ wr_sector = (rd_sector + valid_sectors) % RegionSectors
        /\ a \in Nat /\ a <= valid_sectors * RecPerSector
    BY DEF IInv, TypeOK, RingConsistent, CursorsInBounds, Sector, Slot
  <1> HIDE DEF a
  <1>1. /\ c \in 0 .. valid_sectors
        /\ a % RecPerSector \in 0 .. RecPerSector - 1
        /\ valid_sectors - c = 0 => a % RecPerSector = 0
        /\ a % RecPerSector <= (valid_sectors - c) * RecPerSector
    <2>1. valid_sectors \in Nat /\ a \in Nat /\ a <= valid_sectors * RecPerSector
      BY <1>0
    <2> QED BY <2>1, CommitArith
  <1>2. /\ rd_sector' = (rd_sector + c) % RegionSectors
        /\ valid_sectors' = IF valid_sectors >= c THEN valid_sectors - c ELSE 0
        /\ rd_rec_idx' = a % RecPerSector
        /\ staging' = StagingRemain
        /\ ResetSession /\ MetaSave(m)
        /\ UNCHANGED <<wr_sector, s_inited, flash, pushed>>
    BY DEF my_flash_store_commit, ConsumedSectors, a
  <1> HIDE DEF c
  <1>3. valid_sectors' = valid_sectors - c
    BY <1>0, <1>1, <1>2
  <1>4. c \in 0 .. RegionSectors /\ valid_sectors' \in 0 .. RegionSectors
    BY <1>0, <1>1, <1>3
  <1>5. rd_sector' = IF rd_sector + c < RegionSectors THEN rd_sector + c
                     ELSE rd_sector + c - RegionSectors
    BY <1>0, <1>2, <1>4, ModWrap
  <1>6. rd_sector' \in 0 .. RegionSectors - 1
    BY <1>0, <1>4, <1>5
  <1>7. wr_sector' = (rd_sector' + valid_sectors') % RegionSectors
    <2>1. (rd_sector' + valid_sectors') % RegionSectors
            = IF rd_sector' + valid_sectors' < RegionSectors THEN rd_sector' + valid_sectors'
              ELSE rd_sector' + valid_sectors' - RegionSectors
      BY <1>4, <1>6, ModWrap
    <2>2. wr_sector = IF rd_sector + valid_sectors < RegionSectors THEN rd_sector + valid_sectors
                      ELSE rd_sector + valid_sectors - RegionSectors
      BY <1>0, ModWrap
    <2> QED BY <1>0, <1>2, <1>3, <1>4, <1>5, <1>6, <2>1, <2>2
  <1>8. /\ wr_sector' \in Sector /\ rd_sector' \in Sector /\ rd_rec_idx' \in Slot
        /\ valid_sectors' = 0 => rd_rec_idx' = 0
    BY <1>0, <1>1, <1>2, <1>3, <1>6 DEF Sector, Slot
  <1>9. meta' \in Meta /\ RingConsistent'
    BY <1>2, <1>4, <1>7, <1>8, SavedMeta
  <1>10. staging' \in Seq(Rec) /\ Len(staging') \in Nat /\ Len(staging') <= RecPerSector
    <2>1. staging \in Seq(Rec) /\ Len(staging) \in Nat /\ Len(staging) <= RecPerSector
      BY DEF IInv, TypeOK, CursorsInBounds
    <2>2. staging_read_idx \in Nat /\ staging_read_idx <= Len(staging)
      BY <2>1 DEF IInv, TypeOK, CursorsInBounds
    <2>3. staging' = SubSeq(staging, staging_read_idx + 1, Len(staging))
      BY <1>2, <2>2 DEF StagingRemain
    <2> QED BY <2>1, <2>2, <2>3
  <1>11. upload_active' \in BOOLEAN
    BY <1>2 DEF ResetSession
  <1>12. TypeOK'
    BY <1>2, <1>4, <1>8, <1>9, <1>10, <1>11 DEF IInv, TypeOK, ResetSession
  <1>13. CursorsInBounds'
    BY <1>1, <1>2, <1>3, <1>10 DEF CursorsInBounds, ResetSession
  <1> QED BY <1>9, <1>12, <1>13 DEF IInv

\* A power loss between two calls.
LEMMA PowerLossIInv ==
  ASSUME IInv, PowerLoss PROVE IInv'
  BY RamLostIInv DEF PowerLoss, IInv, TypeOK

\* A power loss in the middle of a sector write.
LEMMA PowerLossInFlushIInv ==
  ASSUME IInv, NEW k \in 0 .. RecPerSector, PowerLossInFlush(k)
  PROVE  IInv'
  <1>1. /\ pushed < MaxRec /\ pushed' = pushed + 1 /\ RamLost
        /\ flash' = [flash EXCEPT ![wr_sector] = SectorTorn(Append(staging, NewRec), k)]
        /\ Len(staging) + 1 >= RecPerSector
    BY DEF PowerLossInFlush, FlushesNow
  <1>2. flash' \in [Sector -> [Slot -> Rec \cup {NoRec}]]
    BY <1>1, TornOK
  <1>3. pushed' \in 0 .. MaxRec
    BY <1>1, AppendedOK
  <1> QED BY <1>1, <1>2, <1>3, RamLostIInv

-----------------------------------------------------------------------------
\* Every step of the store, faults and power losses included, keeps IInv.
THEOREM NextIInv == IInv /\ [Next]_vars => IInv'
  <1> SUFFICES ASSUME IInv, [Next]_vars PROVE IInv'
    OBVIOUS
  <1> USE DEF ZmsOutcome
  <1>1. ASSUME NEW ok \in ZmsOutcome, my_flash_store_init(ok) PROVE IInv'
    BY <1>1, LoadIInv
  <1>2. CASE PushDropped
    BY <1>2, PushDroppedIInv
  <1>3. CASE PushStaged
    BY <1>3, PushStagedIInv
  <1>4. ASSUME NEW m \in ZmsOutcome, PushFlushed(m) PROVE IInv'
    BY <1>4, PushFlushedIInv
  <1>5. CASE my_flash_store_upload_begin
    BY <1>5, BeginIInv
  <1>6. CASE ReadFlash
    BY <1>6, ReadFlashIInv
  <1>7. CASE ReadError
    BY <1>7, ReadErrorIInv
  <1>8. CASE ReadStaging
    BY <1>8, ReadStagingIInv
  <1>9. CASE my_flash_store_rewind
    BY <1>9, RewindIInv
  <1>10. ASSUME NEW m \in ZmsOutcome, my_flash_store_commit(m) PROVE IInv'
    BY <1>10, CommitIInv
  <1>11. ASSUME NEW m \in ZmsOutcome, my_flash_store_clear(m) PROVE IInv'
    BY <1>11, ClearIInv
  <1>12. CASE PowerLoss
    BY <1>12, PowerLossIInv
  <1>13. ASSUME NEW k \in 0 .. RecPerSector, PowerLossInFlush(k) PROVE IInv'
    BY <1>13, PowerLossInFlushIInv
  <1>14. ASSUME NEW k \in 0 .. RecPerSector, PushFailed(k) PROVE IInv'
    BY <1>14, PushFailedIInv
  <1>15. CASE UNCHANGED vars
    BY <1>15 DEF vars, ptrs, sessv, hist, IInv, TypeOK, RingConsistent, CursorsInBounds
  <1> QED
    BY <1>1, <1>2, <1>3, <1>4, <1>5, <1>6, <1>7, <1>8, <1>9, <1>10, <1>11,
       <1>12, <1>13, <1>14, <1>15 DEF Next

\* The region's variables keep their ranges, whatever the sector size, the
\* number of sectors and the number of records.
THEOREM TypeCorrect == Spec => []TypeOK
  <1>1. IInv => TypeOK
    BY DEF IInv
  <1> QED BY <1>1, InitIInv, NextIInv, PTL DEF Spec

\* The ring pointers in RAM and in ZMS agree in every reachable state.
THEOREM RingStaysConsistent == Spec => []RingConsistent
  <1>1. IInv => RingConsistent
    BY DEF IInv
  <1> QED BY <1>1, InitIInv, NextIInv, PTL DEF Spec

\* The clamps of pending_count, read_next and commit are never needed.
THEOREM CursorsStayInBounds == Spec => []CursorsInBounds
  <1>1. IInv => CursorsInBounds
    BY DEF IInv
  <1> QED BY <1>1, InitIInv, NextIInv, PTL DEF Spec
=============================================================================
