-------------------------- MODULE ScanUploadProofs --------------------------
(***************************************************************************)
(* Scanning and uploading, for all bounds, with losses and failing calls.  *)
(*                                                                         *)
(*   UploadInv  which upload is under way, which sessions are open and     *)
(*              whether scanning waits (three properties at once);         *)
(*   DataInv    what tables and regions hold: captures that were made, in  *)
(*              the order of their times;                                  *)
(*   LinkInv    the form of what is under way to and from the 4G module;   *)
(*   LockInv    one packet or answer at most is under way, none when no   *)
(*              upload is, until the module is reconfigured;               *)
(*   GotInv     until then, what a session handed out has reached the      *)
(*              module, or is in the packet under way;                     *)
(*   SendInv    without failing calls, what a round has left to send is    *)
(*              what it announced;                                         *)
(*   PlainInv   types of what is left (with UnsentInv).                    *)
(*                                                                         *)
(* That tables can be put into the order of time at all, for every table,  *)
(* is proved by the least length without such an order (LeastNat).         *)
(***************************************************************************)
EXTENDS ScanUpload, SequenceTheorems, WellFoundedInduction, TLAPS

\* A store is four records; what the regions hold does not matter here.
StoreForm(st) ==
  st = [t \in Types |-> [q |-> st[t].q, given |-> st[t].given,
                         open |-> st[t].open, lim |-> st[t].lim]]

\* The control state has the form the code gives it.
ControlForm ==
  /\ StoreForm(store)
  /\ \A t \in Types : store[t].open \in BOOLEAN
  /\ up = [st |-> up.st, seq |-> up.seq, flash |-> up.flash, snap |-> up.snap]
  /\ up.st \in UpStates
  /\ sens = [st |-> sens.st, type |-> sens.type,
             total |-> sens.total, next |-> sens.next]
  /\ sens.st \in SensStates
  /\ InCdata => sens.type \in SensorTypes
  /\ scanner = [state |-> scanner.state, radio |-> scanner.radio,
                timer |-> scanner.timer]
  /\ scanner.state \in ScanStates

\* The inductive invariant.
UploadInv == /\ ControlForm
             /\ OneUploadAtATime
             /\ SessionsClosed
             /\ ScanPausedIffUploading

\* Region r of type u, after the session of type t became b.
Opened(r, st, u, t, b) == /\ u = t => r.open = b
                          /\ u # t => r.open = st[u].open

-----------------------------------------------------------------------------
(* What the operations of the store do to its sessions.                    *)

\* Pushing records leaves every session as it is.
LEMMA PushSessions ==
  ASSUME NEW st, StoreForm(st), NEW t \in Types, NEW recs
  PROVE  /\ StoreForm(Push(st, t, recs))
         /\ \A u \in Types : Push(st, t, recs)[u].open = st[u].open
PROOF
  <1> DEFINE longer == st[t].q \o recs
  <1>1. Push(st, t, recs) = [st EXCEPT ![t].q = longer]
    BY DEF Push
  <1> HIDE DEF longer
  <1> QED BY <1>1, SMTT(40) DEF StoreForm

\* my_flash_store_upload_begin opens the session of its type only.
LEMMA BeginSessions ==
  ASSUME NEW st, StoreForm(st), NEW t \in Types
  PROVE  /\ StoreForm(UploadBegin(st, t))
         /\ \A u \in Types : Opened(UploadBegin(st, t)[u], st, u, t, TRUE)
  BY DEF StoreForm, UploadBegin, Region, Opened

\* my_flash_store_rewind closes the session of its type only.
LEMMA RewindSessions ==
  ASSUME NEW st, StoreForm(st), NEW t \in Types
  PROVE  /\ StoreForm(Rewind(st, t))
         /\ \A u \in Types : Opened(Rewind(st, t)[u], st, u, t, FALSE)
  BY DEF StoreForm, Rewind, Region, Opened

\* my_flash_store_commit closes the session of its type only.
LEMMA CommitSessions ==
  ASSUME NEW st, StoreForm(st), NEW t \in Types
  PROVE  /\ StoreForm(Commit(st, t))
         /\ \A u \in Types : Opened(Commit(st, t)[u], st, u, t, FALSE)
  BY DEF StoreForm, Commit, Region, Opened

\* Reading leaves every session as it is.
LEMMA ReadSessions ==
  ASSUME NEW st, StoreForm(st), NEW t \in Types, NEW n
  PROVE  /\ StoreForm(ReadMore(st, t, n))
         /\ \A u \in Types : ReadMore(st, t, n)[u].open = st[u].open
  BY DEF StoreForm, ReadMore

\* Moving both tables to the store leaves every session as it is.
LEMMA FlushSessions ==
  ASSUME NEW st, StoreForm(st)
  PROVE  /\ StoreForm(FlushTables(st))
         /\ \A u \in Types : FlushTables(st)[u].open = st[u].open
PROOF
  <1>1. "TAG" \in Types /\ "MAC" \in Types
    BY DEF Types, ScanTypes
  <1> DEFINE mid == FlushTable(st, "TAG")
  <1>2. StoreForm(mid) /\ \A u \in Types : mid[u].open = st[u].open
    BY <1>1, PushSessions DEF FlushTable
  <1> HIDE DEF mid
  <1>3. /\ StoreForm(FlushTable(mid, "MAC"))
        /\ \A u \in Types : FlushTable(mid, "MAC")[u].open = mid[u].open
    BY <1>1, <1>2, PushSessions DEF FlushTable
  <1>4. FlushTables(st) = FlushTable(mid, "MAC")
    BY DEF FlushTables, mid
  <1> QED BY <1>2, <1>3, <1>4

\* sensor_cached_upload_try_start either leaves things as they were, or
\* opens the session of the sensor whose upload it starts.
LEMMA TryStart ==
  ASSUME NEW st, StoreForm(st), NEW busy, NEW idle,
         ~busy => \A t \in SensorTypes : st[t].open = FALSE,
         sensor_cached_upload_try_start(st, busy, idle)
  PROVE  /\ StoreForm(store')
         /\ \/ /\ sens' = idle \/ (~busy /\ sens' = IdleSens)
               /\ \A u \in Types : store'[u].open = st[u].open
            \/ /\ ~busy
               /\ \E t \in SensorTypes :
                    /\ \E n : sens' = [st |-> "CDATA_START", type |-> t,
                                       total |-> n, next |-> 1]
                    /\ \A u \in Types : Opened(store'[u], st, u, t, TRUE)
PROOF
  <1> DEFINE waiting == {t \in SensorTypes : Pending(st, t) > 0}
             t == IF "TH" \in waiting THEN "TH" ELSE "BP"
             n == Packets(Pending(st, t))
  <1>0. t \in SensorTypes /\ t \in Types
    BY DEF SensorTypes, Types
  <1>1. \/ store' = st /\ sens' = idle
        \/ ~busy /\ store' = UploadBegin(st, t)
           /\ sens' = [st |-> "CDATA_START", type |-> t, total |-> n, next |-> 1]
        \/ ~busy /\ store' = Rewind(st, t) /\ sens' = IdleSens
    BY DEF sensor_cached_upload_try_start
  <1> HIDE DEF t, n, waiting
  <1>2. CASE store' = st /\ sens' = idle
    BY <1>2
  <1>3. CASE ~busy /\ store' = UploadBegin(st, t)
           /\ sens' = [st |-> "CDATA_START", type |-> t, total |-> n, next |-> 1]
    <2>1. /\ StoreForm(store')
          /\ \A u \in Types : Opened(store'[u], st, u, t, TRUE)
      BY <1>0, <1>3, BeginSessions
    <2>2. \E m : sens' = [st |-> "CDATA_START", type |-> t, total |-> m, next |-> 1]
      BY <1>3
    <2> QED BY <1>0, <1>3, <2>1, <2>2
  <1>4. CASE ~busy /\ store' = Rewind(st, t) /\ sens' = IdleSens
    <2>1. /\ StoreForm(store')
          /\ \A u \in Types : Opened(store'[u], st, u, t, FALSE)
      BY <1>0, <1>4, RewindSessions
    <2>2. st[t].open = FALSE
      BY <1>0, <1>4
    <2> QED BY <1>4, <2>1, <2>2 DEF Opened
  <1> QED BY <1>1, <1>2, <1>3, <1>4

-----------------------------------------------------------------------------
(* Each step preserves the invariant.                                      *)

\* Steps that move records but no session, upload or scan state.
LEMMA QuietStep ==
  ASSUME UploadInv, StoreForm(store'),
         \A u \in Types : store'[u].open = store[u].open,
         up' = up, sens' = sens,
         scanner' = [state |-> scanner'.state, radio |-> scanner'.radio,
                     timer |-> scanner'.timer],
         scanner'.state \in ScanStates,
         scanner'.state = "WAITING" <=> scanner.state = "WAITING"
  PROVE  UploadInv'
  BY DEF UploadInv, ControlForm, OneUploadAtATime, SessionsClosed,
         ScanPausedIffUploading, InCdata, sensor_upload_busy, Types,
         ScanTypes, SensorTypes

\* scan_stop_internal ends a scan and nothing else.
LEMMA StopForm ==
  ASSUME UploadInv, NEW ok
  PROVE  LET sc == StopScan(scanner, ok) IN
         /\ sc = [state |-> sc.state, radio |-> sc.radio, timer |-> sc.timer]
         /\ sc.state \in ScanStates
         /\ sc.state = "WAITING" <=> scanner.state = "WAITING"
  BY DEF UploadInv, ControlForm, StopScan, ScanStates

\* An advertisement reaches its table; a full TAG table goes to the store.
LEMMA ProcessAdvInv ==
  ASSUME UploadInv, NEW t \in ScanTypes, ProcessAdv(t)
  PROVE  UploadInv'
PROOF
  <1>1. t \in Types /\ StoreForm(store)
    BY DEF Types, UploadInv, ControlForm
  <1>2. store' = store \/ store' = Push(store, t, TimeOrder(table[t]))
    BY DEF ProcessAdv, UpdateKnown, AddNew, AddToFull, FlushTable
  <1>3. StoreForm(store') /\ \A u \in Types : store'[u].open = store[u].open
    BY <1>1, <1>2, PushSessions
  <1>4. up' = up /\ sens' = sens /\ scanner' = scanner
    BY DEF ProcessAdv
  <1>5. /\ scanner = [state |-> scanner.state, radio |-> scanner.radio,
                      timer |-> scanner.timer]
        /\ scanner.state \in ScanStates
    BY DEF UploadInv, ControlForm
  <1> QED BY <1>3, <1>4, <1>5, QuietStep

\* A scan starts only when no round is under way.
LEMMA ScanIntervalInv ==
  ASSUME UploadInv, MSG_SCAN_INTERVAL
  PROVE  UploadInv'
PROOF
  <1>1. /\ scanner.state = "IDLE"
        /\ \/ scanner' = scanner
           \/ scanner' = [state |-> "SCANNING", radio |-> TRUE, timer |-> TRUE]
    BY DEF MSG_SCAN_INTERVAL, StartScan
  <1>2. /\ scanner = [state |-> scanner.state, radio |-> scanner.radio,
                      timer |-> scanner.timer]
        /\ StoreForm(store)
    BY DEF UploadInv, ControlForm
  <1>3. /\ scanner' = [state |-> scanner'.state, radio |-> scanner'.radio,
                       timer |-> scanner'.timer]
        /\ scanner'.state \in ScanStates
        /\ scanner'.state # "WAITING"
    BY <1>1, <1>2 DEF ScanStates
  <1>4. up' = up /\ sens' = sens /\ store' = store
    BY DEF MSG_SCAN_INTERVAL, upload
  <1> QED BY <1>1, <1>2, <1>3, <1>4, QuietStep

\* The timer that ends a scan only posts a message.
LEMMA LengthTimerInv ==
  ASSUME UploadInv, scan_length_timer_cb
  PROVE  UploadInv'
PROOF
  <1>1. /\ scanner = [state |-> scanner.state, radio |-> scanner.radio,
                      timer |-> scanner.timer]
        /\ scanner.state \in ScanStates
        /\ StoreForm(store)
    BY DEF UploadInv, ControlForm
  <1>2. scanner' = [scanner EXCEPT !.timer = FALSE]
    BY DEF scan_length_timer_cb
  <1>3. scanner' = [state |-> scanner.state, radio |-> scanner.radio, timer |-> FALSE]
    BY <1>1, <1>2
  <1>4. up' = up /\ sens' = sens /\ store' = store
    BY DEF scan_length_timer_cb, upload
  <1> QED BY <1>1, <1>3, <1>4, QuietStep

\* The end of a scan, even one handled late, in the middle of a round.
LEMMA ScanLengthInv ==
  ASSUME UploadInv, MSG_SCAN_LENGTH
  PROVE  UploadInv'
PROOF
  <1>1. StoreForm(store)
    BY DEF UploadInv, ControlForm
  <1>2. StoreForm(store') /\ \A u \in Types : store'[u].open = store[u].open
    BY <1>1, FlushSessions DEF MSG_SCAN_LENGTH
  <1>3. PICK ok : scanner' = StopScan(scanner, ok)
    BY DEF MSG_SCAN_LENGTH
  <1>4. up' = up /\ sens' = sens
    BY DEF MSG_SCAN_LENGTH
  <1> QED BY <1>2, <1>3, <1>4, StopForm, QuietStep

\* What a step of a round sees: sensors idle, sensor sessions closed.
LEMMA RoundFacts ==
  ASSUME UploadInv
  PROVE  /\ StoreForm(store)
         /\ up.st # "IDLE" => /\ sens.st = "IDLE"
                              /\ \A t \in SensorTypes : store[t].open = FALSE
  BY DEF UploadInv, ControlForm, OneUploadAtATime, SessionsClosed, InCdata,
         sensor_upload_busy, SensorTypes, Types

\* While no data is being sent no session is open, except a sensor's.
LEMMA ClosedFacts ==
  ASSUME UploadInv
  PROVE  /\ \A t \in Types : store[t].open \in BOOLEAN
         /\ up.st # "TAG_START" => store["TAG"].open = FALSE
         /\ up.st # "MAC_START" => store["MAC"].open = FALSE
         /\ up.st = "TAG_START" => store["TAG"].open = TRUE
         /\ up.st = "MAC_START" => store["MAC"].open = TRUE
  BY DEF UploadInv, ControlForm, SessionsClosed, Types, ScanTypes

\* The scanner's record; and the scanner after a possible stop.
ScanRecord(sc) ==
  /\ sc = [state |-> sc.state, radio |-> sc.radio, timer |-> sc.timer]
  /\ sc.state \in ScanStates
ScanForm(sc) ==
  /\ ScanRecord(sc)
  /\ sc.state = "WAITING" <=> scanner.state = "WAITING"

\* A round starts with the session of its type as the only open one.
LEMMA StartRoundInv ==
  ASSUME UploadInv, NEW t \in ScanTypes, StartRound(t), sens.st = "IDLE",
         up.st \in {"IDLE", "TAG_END"},
         ScanRecord(scanner'), scanner'.state = "WAITING"
  PROVE  UploadInv'
PROOF
  <1>1. StoreForm(store) /\ t \in Types
    BY RoundFacts DEF Types
  <1>2. /\ StoreForm(store')
        /\ \A u \in Types : Opened(store'[u], store, u, t, TRUE)
    BY <1>1, BeginSessions DEF StartRound
  <1>3. /\ store["TAG"].open = FALSE /\ store["MAC"].open = FALSE
        /\ store["TH"].open = FALSE /\ store["BP"].open = FALSE
    BY ClosedFacts DEF UploadInv, ControlForm, SessionsClosed, InCdata,
       Types, SensorTypes
  <1>4. /\ up'.st = IF t = "TAG" THEN "TAG_START" ELSE "MAC_START"
        /\ up' = [st |-> up'.st, seq |-> up'.seq, flash |-> up'.flash,
                  snap |-> up'.snap]
    BY DEF StartRound
  <1>5. sens' = sens
    BY DEF StartRound
  <1>6. /\ store'["TAG"].open = (t = "TAG") /\ store'["MAC"].open = (t = "MAC")
        /\ store'["TH"].open = FALSE /\ store'["BP"].open = FALSE
    BY <1>2, <1>3 DEF Opened, Types, ScanTypes, SensorTypes
  <1>7. ControlForm'
    <2>1. up'.st \in UpStates
      BY <1>4 DEF UpStates
    <2>2. \A u \in Types : store'[u].open \in BOOLEAN
      BY <1>6 DEF Types, ScanTypes, SensorTypes
    <2> QED BY <1>2, <1>4, <1>5, <2>1, <2>2
            DEF UploadInv, ControlForm, ScanRecord, InCdata
  <1>8. SessionsClosed'
    BY <1>4, <1>5, <1>6 DEF SessionsClosed, InCdata, ScanTypes, SensorTypes
  <1>9. OneUploadAtATime' /\ ScanPausedIffUploading'
    BY <1>4, <1>5 DEF OneUploadAtATime, ScanPausedIffUploading,
       sensor_upload_busy, ScanTypes
  <1> QED BY <1>7, <1>8, <1>9 DEF UploadInv

\* Sending a record keeps the session open, the end of the data closes it.
LEMMA SendNextInv ==
  ASSUME UploadInv, NEW t \in ScanTypes, SendNext(t),
         up.st = IF t = "TAG" THEN "TAG_START" ELSE "MAC_START",
         ScanForm(scanner')
  PROVE  UploadInv'
PROOF
  <1>1. /\ StoreForm(store) /\ t \in Types
        /\ up = [st |-> up.st, seq |-> up.seq, flash |-> up.flash, snap |-> up.snap]
        /\ sens.st = "IDLE" /\ up.st # "IDLE"
    BY RoundFacts DEF Types, UploadInv, ControlForm
  <1>2. CASE SendStored(t) \/ SendEntry(t)
    <2>1. StoreForm(store') /\ \A u \in Types : store'[u].open = store[u].open
      BY <1>1, <1>2, ReadSessions DEF SendStored, SendEntry
    <2>2. /\ sens' = sens /\ up'.st = up.st
          /\ up' = [st |-> up'.st, seq |-> up'.seq, flash |-> up'.flash,
                    snap |-> up'.snap]
      BY <1>1, <1>2 DEF SendStored, SendEntry
    <2> QED BY <2>1, <2>2
            DEF UploadInv, ControlForm, OneUploadAtATime, SessionsClosed,
            ScanPausedIffUploading, InCdata, sensor_upload_busy, Types,
            ScanTypes, SensorTypes, ScanForm, ScanRecord
  <1>3. CASE EndRound(t)
    <2>1. /\ StoreForm(store')
          /\ \A u \in Types : Opened(store'[u], store, u, t, FALSE)
      BY <1>1, <1>3, CommitSessions DEF EndRound
    <2>2. /\ up' = [up EXCEPT !.st = IF t = "TAG" THEN "TAG_END" ELSE "MAC_END",
                              !.seq = 0, !.flash = 0]
          /\ sens' = sens
      BY <1>3 DEF EndRound
    <2>3. /\ up'.st = IF t = "TAG" THEN "TAG_END" ELSE "MAC_END"
          /\ up' = [st |-> up'.st, seq |-> up'.seq, flash |-> up'.flash,
                    snap |-> up'.snap]
      BY <1>1, <2>2
    <2>4. \A u \in Types : store[u].open = (u = t)
      BY <1>1, ClosedFacts, RoundFacts DEF Types, ScanTypes, SensorTypes
    <2>5. \A u \in Types : store'[u].open = FALSE
      BY <2>1, <2>4 DEF Opened
    <2>6. ControlForm'
      <3>1. up'.st \in UpStates
        BY <2>3 DEF UpStates
      <3> QED BY <2>1, <2>2, <2>3, <2>5, <3>1
              DEF UploadInv, ControlForm, ScanForm, ScanRecord, InCdata
    <2>7. SessionsClosed'
      BY <1>1, <2>2, <2>3, <2>5 DEF SessionsClosed, InCdata, Types, ScanTypes, SensorTypes
    <2>8. OneUploadAtATime' /\ ScanPausedIffUploading'
      BY <1>1, <2>2, <2>3 DEF OneUploadAtATime, ScanPausedIffUploading,
         sensor_upload_busy, ScanForm, UploadInv
    <2> QED BY <2>6, <2>7, <2>8 DEF UploadInv
  <1> QED BY <1>2, <1>3 DEF SendNext

\* A sensor upload that starts on a free link is the only one, and its session
\* the only open one; one that does not start leaves everything idle.
LEMMA SensorStartInv ==
  ASSUME NEW st, StoreForm(st), \A u \in Types : st[u].open = FALSE,
         NEW idle, idle.st = "IDLE",
         idle = [st |-> idle.st, type |-> idle.type,
                 total |-> idle.total, next |-> idle.next],
         sensor_cached_upload_try_start(st, FALSE, idle),
         up'.st = "IDLE",
         up' = [st |-> up'.st, seq |-> up'.seq, flash |-> up'.flash,
                snap |-> up'.snap],
         ScanRecord(scanner'), scanner'.state # "WAITING"
  PROVE  UploadInv'
PROOF
  <1>0. /\ "TAG" \in Types /\ "MAC" \in Types /\ "TH" \in Types /\ "BP" \in Types
        /\ SensorTypes = {"TH", "BP"}
    BY DEF Types, ScanTypes, SensorTypes
  <1>1. \A t \in SensorTypes : st[t].open = FALSE
    BY <1>0
  <1>2. /\ StoreForm(store')
        /\ \/ /\ sens' = idle \/ sens' = IdleSens
              /\ \A u \in Types : store'[u].open = st[u].open
           \/ \E t \in SensorTypes :
                /\ \E n : sens' = [st |-> "CDATA_START", type |-> t,
                                   total |-> n, next |-> 1]
                /\ \A u \in Types : Opened(store'[u], st, u, t, TRUE)
    BY <1>1, TryStart
  <1>3. /\ up'.st \in UpStates
        /\ OneUploadAtATime' /\ ScanPausedIffUploading'
    BY DEF UpStates, OneUploadAtATime, ScanPausedIffUploading
  <1>4. CASE /\ sens' = idle \/ sens' = IdleSens
             /\ \A u \in Types : store'[u].open = st[u].open
    <2>1. /\ sens' = [st |-> sens'.st, type |-> sens'.type,
                      total |-> sens'.total, next |-> sens'.next]
          /\ sens'.st = "IDLE"
      BY <1>4 DEF IdleSens
    <2>2. \A u \in Types : store'[u].open = FALSE
      BY <1>4
    <2>3. SessionsClosed'
      BY <1>0, <2>1, <2>2 DEF SessionsClosed, InCdata
    <2>4. ControlForm'
      BY <1>2, <1>3, <2>1, <2>2 DEF ControlForm, ScanRecord, InCdata, SensStates
    <2> QED BY <1>3, <2>3, <2>4 DEF UploadInv
  <1>5. ASSUME NEW t \in SensorTypes, NEW n,
               sens' = [st |-> "CDATA_START", type |-> t, total |-> n, next |-> 1],
               \A u \in Types : Opened(store'[u], st, u, t, TRUE)
        PROVE  UploadInv'
    <2>1. /\ sens' = [st |-> sens'.st, type |-> sens'.type,
                      total |-> sens'.total, next |-> sens'.next]
          /\ sens'.st = "CDATA_START" /\ sens'.type = t
      BY <1>5
    <2>2. \A u \in Types : store'[u].open = (u = t)
      BY <1>5 DEF Opened
    <2>3. SessionsClosed'
      BY <1>0, <2>1, <2>2 DEF SessionsClosed, InCdata
    <2>4. ControlForm'
      BY <1>2, <1>3, <2>1, <2>2 DEF ControlForm, ScanRecord, InCdata, SensStates
    <2> QED BY <1>3, <2>3, <2>4 DEF UploadInv
  <1> QED BY <1>2, <1>4, <1>5

\* While neither a round sends data nor a sensor upload runs, no session is open.
LEMMA AllClosed ==
  ASSUME UploadInv, up.st \notin {"TAG_START", "MAC_START"}, ~InCdata
  PROVE  \A u \in Types : store[u].open = FALSE
  BY ClosedFacts DEF UploadInv, SessionsClosed, Types, ScanTypes, SensorTypes

\* The end of a round gives the link to the sensors.
LEMMA RoundOverInv ==
  ASSUME UploadInv, RoundOver, up.st \in {"TAG_END", "MAC_END"},
         NEW sc, ScanForm(sc), Resumed(sc)
  PROVE  UploadInv'
PROOF
  <1>1. /\ StoreForm(store) /\ sens.st = "IDLE"
        /\ up = [st |-> up.st, seq |-> up.seq, flash |-> up.flash, snap |-> up.snap]
        /\ sens = [st |-> sens.st, type |-> sens.type,
                   total |-> sens.total, next |-> sens.next]
    BY RoundFacts DEF UploadInv, ControlForm
  <1>2. \A u \in Types : store[u].open = FALSE
    BY <1>1, AllClosed DEF InCdata
  <1>3. /\ sensor_upload_busy = FALSE
        /\ sensor_cached_upload_try_start(store, sensor_upload_busy, sens)
        /\ up' = [up EXCEPT !.st = "IDLE", !.seq = 0, !.flash = 0]
    BY <1>1 DEF RoundOver, sensor_upload_busy
  <1>4. sensor_cached_upload_try_start(store, FALSE, sens)
    BY <1>3
  <1>5. /\ up'.st = "IDLE"
        /\ up' = [st |-> up'.st, seq |-> up'.seq, flash |-> up'.flash,
                  snap |-> up'.snap]
    BY <1>1, <1>3
  <1>6. ScanRecord(scanner') /\ scanner'.state # "WAITING"
    BY DEF Resumed, ScanForm, ScanRecord, ScanStates
  <1> QED BY <1>1, <1>2, <1>4, <1>5, <1>6, SensorStartInv

\* One call of the round's state machine.
LEMMA RoundStepInv ==
  ASSUME UploadInv, NEW sc, ScanForm(sc), tag_mac_scan_upload_data(sc)
  PROVE  UploadInv'
PROOF
  <1>0. "TAG" \in ScanTypes /\ "MAC" \in ScanTypes
    BY DEF ScanTypes
  <1>1. CASE /\ up.st = "IDLE"
             /\ StartRound(IF Total("TAG") > 0 THEN "TAG" ELSE "MAC")
             /\ Waiting(sc)
    <2>1. sens.st = "IDLE"
      BY <1>1 DEF tag_mac_scan_upload_data, ReturnsAtOnce, sensor_upload_busy
    <2>2. ScanRecord(scanner') /\ scanner'.state = "WAITING"
      BY <1>1 DEF Waiting, ScanForm, ScanRecord, ScanStates
    <2>3. PICK t \in ScanTypes : StartRound(t)
      BY <1>0, <1>1
    <2> QED BY <1>1, <2>1, <2>2, <2>3, StartRoundInv
  <1>2. CASE up.st = "TAG_START" /\ SendNext("TAG") /\ scanner' = sc
    BY <1>0, <1>2, SendNextInv
  <1>3. CASE up.st = "TAG_END" /\ StartRound("MAC") /\ scanner' = sc
    <2>1. sens.st = "IDLE" /\ up.st \in {"IDLE", "TAG_END"}
      BY <1>3, RoundFacts
    <2>2. ScanRecord(scanner') /\ scanner'.state = "WAITING"
      BY <1>3 DEF ScanForm, UploadInv, ScanPausedIffUploading
    <2> QED BY <1>0, <1>3, <2>1, <2>2, StartRoundInv
  <1>4. CASE up.st \in {"TAG_END", "MAC_END"} /\ RoundOver /\ Resumed(sc)
    BY <1>4, RoundOverInv
  <1>5. CASE up.st = "MAC_START" /\ SendNext("MAC") /\ scanner' = sc
    BY <1>0, <1>5, SendNextInv
  <1> QED BY <1>1, <1>2, <1>3, <1>4, <1>5 DEF tag_mac_scan_upload_data

\* Calls that return at once leave everything but perhaps the scan.
LEMMA ReturnInv ==
  ASSUME UploadInv, ScanForm(scanner'), UNCHANGED <<store, up, sens>>
  PROVE  UploadInv'
PROOF
  <1>1. StoreForm(store') /\ \A u \in Types : store'[u].open = store[u].open
    BY RoundFacts
  <1> QED BY <1>1, QuietStep DEF ScanForm, ScanRecord

\* The scanner, and the scanner after a stop, are what the calls above expect.
LEMMA ScanForms ==
  ASSUME UploadInv
  PROVE  /\ ScanForm(scanner)
         /\ \A ok : ScanForm(StopScan(scanner, ok))
  BY StopForm DEF ScanForm, ScanRecord, UploadInv, ControlForm

\* An acknowledgement of a TAG or MACINFO command, wanted or not.
LEMMA TagMacAckInv ==
  ASSUME UploadInv, MSG_UPLOAD_TAG_AND_MAC
  PROVE  UploadInv'
PROOF
  <1>1. ScanForm(scanner)
    BY ScanForms
  <1>2. CASE tag_mac_scan_upload_data(scanner)
    BY <1>1, <1>2, RoundStepInv
  <1>3. CASE UNCHANGED <<scanner, store, up, sens>>
    <2>1. ScanForm(scanner')
      BY <1>1, <1>3 DEF ScanForm, ScanRecord
    <2> QED BY <1>3, <2>1, ReturnInv
  <1> QED BY <1>2, <1>3 DEF MSG_UPLOAD_TAG_AND_MAC, upload

\* The upload timer of mode 2.
LEMMA ScanUploadInv ==
  ASSUME UploadInv, MSG_SCAN_UPLOAD
  PROVE  UploadInv'
PROOF
  <1>1. PICK ok : \/ tag_mac_scan_upload_data(StopScan(scanner, ok))
                  \/ /\ scanner' = StopScan(scanner, ok)
                     /\ UNCHANGED <<store, up, sens>>
    BY DEF MSG_SCAN_UPLOAD, scan_trigger_upload
  <1> DEFINE sc == StopScan(scanner, ok)
  <1>2. ScanForm(sc)
    BY ScanForms
  <1>3. CASE tag_mac_scan_upload_data(sc)
    BY <1>2, <1>3, RoundStepInv
  <1>4. CASE scanner' = sc /\ UNCHANGED <<store, up, sens>>
    BY <1>2, <1>4, ReturnInv
  <1> QED BY <1>1, <1>3, <1>4

\* The 4G module came up: a round, or the stored samples, or neither.
LEMMA WakeupInv ==
  ASSUME UploadInv, MSG_UPLOAD_WAKEUP
  PROVE  UploadInv'
PROOF
  <1>1. PICK sc : /\ sc = scanner \/ \E ok : sc = StopScan(scanner, ok)
                  /\ \/ tag_mac_scan_upload_data(sc)
                     \/ /\ scanner' = sc /\ up' = up
                        /\ sensor_cached_upload_try_start(store,
                             sensor_upload_busy \/ up.st # "IDLE", sens)
    BY DEF MSG_UPLOAD_WAKEUP
  <1>2. ScanForm(sc)
    BY <1>1, ScanForms
  <1>3. CASE tag_mac_scan_upload_data(sc)
    BY <1>2, <1>3, RoundStepInv
  <1>4. CASE /\ scanner' = sc /\ up' = up
             /\ sensor_cached_upload_try_start(store,
                  sensor_upload_busy \/ up.st # "IDLE", sens)
    <2>1. /\ StoreForm(store)
          /\ up = [st |-> up.st, seq |-> up.seq, flash |-> up.flash, snap |-> up.snap]
          /\ sens = [st |-> sens.st, type |-> sens.type,
                     total |-> sens.total, next |-> sens.next]
      BY DEF UploadInv, ControlForm
    <2>2. CASE sensor_upload_busy \/ up.st # "IDLE"
      <3>1. store' = store /\ sens' = sens
        BY <1>4, <2>2 DEF sensor_cached_upload_try_start
      <3> QED BY <1>2, <1>4, <3>1, ReturnInv
    <2>3. CASE ~(sensor_upload_busy \/ up.st # "IDLE")
      <3>1. sensor_cached_upload_try_start(store, FALSE, sens)
        BY <1>4, <2>3
      <3>2. \A u \in Types : store[u].open = FALSE
        BY <2>3, AllClosed DEF InCdata, sensor_upload_busy
      <3>3. ScanRecord(scanner') /\ scanner'.state # "WAITING"
        BY <1>2, <1>4, <2>3 DEF ScanForm, UploadInv, ScanPausedIffUploading
      <3>4. up'.st = "IDLE" /\ sens.st = "IDLE"
        BY <1>4, <2>3 DEF sensor_upload_busy
      <3> QED BY <1>4, <2>1, <3>1, <3>2, <3>3, <3>4, SensorStartInv
    <2> QED BY <2>2, <2>3
  <1> QED BY <1>1, <1>3, <1>4

\* Sensor steps that leave rounds and scanning alone: the link stays with one
\* upload and the sensor sessions stay with the sensors.
LEMMA SensorStepInv ==
  ASSUME UploadInv, UNCHANGED <<up, scanner>>,
         StoreForm(store'), \A u \in Types : store'[u].open \in BOOLEAN,
         \A u \in ScanTypes : store'[u].open = store[u].open,
         \A u \in SensorTypes : store'[u].open <=> (InCdata' /\ sens'.type = u),
         sens' = [st |-> sens'.st, type |-> sens'.type,
                  total |-> sens'.total, next |-> sens'.next],
         sens'.st \in SensStates, InCdata' => sens'.type \in SensorTypes,
         up.st # "IDLE" => sens'.st = "IDLE"
  PROVE  UploadInv'
  BY DEF UploadInv, ControlForm, OneUploadAtATime, SessionsClosed,
         ScanPausedIffUploading, sensor_upload_busy, ScanTypes

\* A sample is sent on a free link, or stored.
LEMMA SampleInv ==
  ASSUME UploadInv, NEW t \in SensorTypes, MSG_SENSOR_SAMPLE(t)
  PROVE  UploadInv'
PROOF
  <1> DEFINE free == lteReady /\ ~sensor_upload_busy /\ up.st = "IDLE"
             live == [st |-> IF t = "TH" THEN "TH_WAIT" ELSE "BP_WAIT",
                      type |-> t, total |-> 0, next |-> 0]
  <1>0. /\ t \in Types /\ StoreForm(store)
        /\ sens = [st |-> sens.st, type |-> sens.type,
                   total |-> sens.total, next |-> sens.next]
        /\ sens.st \in SensStates /\ (InCdata => sens.type \in SensorTypes)
        /\ \A u \in Types : store[u].open \in BOOLEAN
        /\ \A u \in SensorTypes : store[u].open <=> (InCdata /\ sens.type = u)
        /\ up.st # "IDLE" => sens.st = "IDLE"
    BY RoundFacts DEF Types, UploadInv, ControlForm, SessionsClosed
  <1>1. /\ UNCHANGED <<up, scanner>>
        /\ store' = store \/ store' = Push(store, t, <<NewRec(t)>>)
        /\ \/ free /\ sens' = live
           \/ free /\ sens' = IdleSens
           \/ sens' = sens
    BY DEF MSG_SENSOR_SAMPLE, upload
  <1>2. StoreForm(store') /\ \A u \in Types : store'[u].open = store[u].open
    BY <1>0, <1>1, PushSessions
  <1>3. CASE sens' = sens
    <2>1. ScanForm(scanner')
      BY <1>1, ScanForms DEF ScanForm, ScanRecord
    <2> QED BY <1>1, <1>2, <1>3, <2>1, QuietStep DEF ScanForm, ScanRecord
  <1>4. CASE /\ free
             /\ sens' = live \/ sens' = IdleSens
    <2>1. /\ sens' = [st |-> sens'.st, type |-> sens'.type,
                      total |-> sens'.total, next |-> sens'.next]
          /\ sens'.st \in {"IDLE", "TH_WAIT", "BP_WAIT"}
      BY <1>4 DEF IdleSens
    <2>2. up.st = "IDLE" /\ ~InCdata /\ ~InCdata'
      BY <1>4, <2>1 DEF InCdata, sensor_upload_busy
    <2>3. \A u \in SensorTypes : store'[u].open <=> (InCdata' /\ sens'.type = u)
      BY <1>0, <1>2, <2>2 DEF Types
    <2>4. /\ \A u \in Types : store'[u].open \in BOOLEAN
          /\ \A u \in ScanTypes : store'[u].open = store[u].open
          /\ sens'.st \in SensStates
      BY <1>0, <1>2, <2>1 DEF Types, SensStates
    <2> QED BY <1>1, <1>2, <2>1, <2>2, <2>3, <2>4, SensorStepInv
  <1> QED BY <1>1, <1>3, <1>4

\* sensor_upload_reset(true) in a CDATA upload closes its session.
LEMMA ResetInv ==
  ASSUME UploadInv, SensorReset, InCdata, UNCHANGED <<up, scanner>>
  PROVE  UploadInv'
PROOF
  <1>1. /\ StoreForm(store) /\ sens.type \in SensorTypes /\ sens.type \in Types
        /\ \A u \in Types : store[u].open \in BOOLEAN
        /\ \A u \in SensorTypes : store[u].open <=> (InCdata /\ sens.type = u)
    BY DEF UploadInv, ControlForm, SessionsClosed, Types
  <1>2. store' = Rewind(store, sens.type) /\ sens' = IdleSens
    BY <1>1 DEF SensorReset, ResetStore
  <1>3. /\ StoreForm(store')
        /\ \A u \in Types : Opened(store'[u], store, u, sens.type, FALSE)
    BY <1>1, <1>2, RewindSessions
  <1>4. /\ sens'.st = "IDLE" /\ ~InCdata'
        /\ sens' = [st |-> sens'.st, type |-> sens'.type,
                    total |-> sens'.total, next |-> sens'.next]
        /\ sens'.st \in SensStates
    BY <1>2 DEF IdleSens, InCdata, SensStates
  <1>5. /\ \A u \in Types : store'[u].open \in BOOLEAN
        /\ \A u \in ScanTypes : store'[u].open = store[u].open
        /\ \A u \in SensorTypes : store'[u].open <=> (InCdata' /\ sens'.type = u)
    BY <1>1, <1>3, <1>4 DEF Opened, Types, ScanTypes, SensorTypes
  <1> QED BY <1>3, <1>4, <1>5, SensorStepInv

\* The next packet of a CDATA upload, or a reset.
LEMMA PacketInv ==
  ASSUME UploadInv, InCdata, NEW nx, sensor_cdata_send_next_packet(nx),
         UNCHANGED <<up, scanner>>
  PROVE  UploadInv'
PROOF
  <1>1. /\ StoreForm(store) /\ sens.type \in SensorTypes /\ sens.type \in Types
        /\ \A u \in Types : store[u].open \in BOOLEAN
        /\ \A u \in SensorTypes : store[u].open <=> (InCdata /\ sens.type = u)
        /\ sens = [st |-> sens.st, type |-> sens.type,
                   total |-> sens.total, next |-> sens.next]
    BY DEF UploadInv, ControlForm, SessionsClosed, Types
  <1>2. up.st = "IDLE"
    BY RoundFacts DEF InCdata
  <1>3. \/ SensorReset
        \/ /\ \E n : store' = ReadMore(store, sens.type, n)
           /\ sens' = [sens EXCEPT !.st = "CDATA_DATA", !.next = nx]
    BY DEF sensor_cdata_send_next_packet
  <1>4. CASE SensorReset
    BY <1>4, ResetInv
  <1>5. CASE /\ \E n : store' = ReadMore(store, sens.type, n)
             /\ sens' = [sens EXCEPT !.st = "CDATA_DATA", !.next = nx]
    <2>1. StoreForm(store') /\ \A u \in Types : store'[u].open = store[u].open
      BY <1>1, <1>5, ReadSessions
    <2>2. /\ sens' = [st |-> "CDATA_DATA", type |-> sens.type,
                      total |-> sens.total, next |-> nx]
      BY <1>1, <1>5
    <2>3. InCdata' /\ sens'.type = sens.type /\ sens'.st \in SensStates
      BY <2>2 DEF InCdata, SensStates
    <2>4. /\ \A u \in Types : store'[u].open \in BOOLEAN
          /\ \A u \in ScanTypes : store'[u].open = store[u].open
          /\ \A u \in SensorTypes : store'[u].open <=> (InCdata' /\ sens'.type = u)
      BY <1>1, <2>1, <2>3 DEF Types
    <2>5. sens' = [st |-> sens'.st, type |-> sens'.type,
                   total |-> sens'.total, next |-> sens'.next]
      BY <2>2
    <2> QED BY <1>1, <1>2, <2>1, <2>3, <2>4, <2>5, SensorStepInv
  <1> QED BY <1>3, <1>4, <1>5

\* The END of a CDATA upload is sent; its session stays open until the answer.
LEMMA SendEndInv ==
  ASSUME UploadInv, InCdata, UNCHANGED <<up, scanner, store>>,
         sens' = [sens EXCEPT !.st = "CDATA_END"]
  PROVE  UploadInv'
PROOF
  <1>1. /\ StoreForm(store) /\ sens.type \in SensorTypes
        /\ \A u \in Types : store[u].open \in BOOLEAN
        /\ \A u \in SensorTypes : store[u].open <=> (InCdata /\ sens.type = u)
        /\ sens = [st |-> sens.st, type |-> sens.type,
                   total |-> sens.total, next |-> sens.next]
    BY DEF UploadInv, ControlForm, SessionsClosed, Types
  <1>2. up.st = "IDLE"
    BY RoundFacts DEF InCdata
  <1>3. sens' = [st |-> "CDATA_END", type |-> sens.type,
                 total |-> sens.total, next |-> sens.next]
    BY <1>1
  <1>4. /\ sens' = [st |-> sens'.st, type |-> sens'.type,
                    total |-> sens'.total, next |-> sens'.next]
        /\ InCdata' /\ sens'.type = sens.type /\ sens'.st \in SensStates
    BY <1>3 DEF InCdata, SensStates
  <1>5. StoreForm(store')
    BY <1>1 DEF StoreForm
  <1>6. \A u \in SensorTypes : store'[u].open <=> (InCdata' /\ sens'.type = u)
    BY <1>1, <1>4
  <1>7. /\ \A u \in Types : store'[u].open \in BOOLEAN
        /\ \A u \in ScanTypes : store'[u].open = store[u].open
    BY <1>1
  <1> QED BY <1>1, <1>2, <1>4, <1>5, <1>6, <1>7, SensorStepInv

\* An upload that has ended gives the link to the next sensor.
LEMMA SensorDoneInv ==
  ASSUME UploadInv, sensor_upload_busy, UNCHANGED <<up, scanner>>,
         NEW st, StoreForm(st), \A u \in Types : st[u].open = FALSE,
         sensor_cached_upload_try_start(st, up.st # "IDLE", IdleSens)
  PROVE  UploadInv'
PROOF
  <1>1. /\ up.st = "IDLE" /\ scanner.state # "WAITING"
        /\ up = [st |-> up.st, seq |-> up.seq, flash |-> up.flash, snap |-> up.snap]
    BY DEF UploadInv, OneUploadAtATime, ControlForm, ScanPausedIffUploading
  <1>2. sensor_cached_upload_try_start(st, FALSE, IdleSens)
    BY <1>1
  <1>3. /\ IdleSens.st = "IDLE"
        /\ IdleSens = [st |-> IdleSens.st, type |-> IdleSens.type,
                       total |-> IdleSens.total, next |-> IdleSens.next]
    BY DEF IdleSens
  <1>4. ScanRecord(scanner') /\ scanner'.state # "WAITING"
    BY <1>1, ScanForms DEF ScanForm, ScanRecord
  <1> QED BY <1>1, <1>2, <1>3, <1>4, SensorStartInv

\* An acknowledgement for the sensors, possibly misread or unexpected.
LEMMA SensorAckInv ==
  ASSUME UploadInv, MSG_SENSOR_LTE_ACK
  PROVE  UploadInv'
PROOF
  <1>0. UNCHANGED <<up, scanner>> /\ StoreForm(store)
    BY RoundFacts DEF MSG_SENSOR_LTE_ACK, upload
  <1>1. CASE CdataAck
    <2>1. CASE /\ sens.st \in {"CDATA_START", "CDATA_DATA"}
               /\ \E nx : sensor_cdata_send_next_packet(nx)
      BY <1>0, <2>1, PacketInv DEF InCdata
    <2>2. CASE sens.st = "CDATA_DATA" /\ SensorReset
      BY <1>0, <2>2, ResetInv DEF InCdata
    <2>3. CASE /\ sens.st = "CDATA_DATA" /\ UNCHANGED store
               /\ sens' = [sens EXCEPT !.st = "CDATA_END"]
      BY <1>0, <2>3, SendEndInv DEF InCdata
    <2>4. CASE /\ sens.st = "CDATA_END"
               /\ sensor_cached_upload_try_start(Commit(store, sens.type),
                                                 up.st # "IDLE", IdleSens)
      <3> DEFINE st == Commit(store, sens.type)
      <3>1. /\ InCdata /\ sensor_upload_busy
            /\ sens.type \in SensorTypes /\ sens.type \in Types
            /\ \A u \in SensorTypes : store[u].open <=> sens.type = u
            /\ \A u \in Types : store[u].open \in BOOLEAN
        BY <2>4 DEF InCdata, sensor_upload_busy, UploadInv, ControlForm,
           SessionsClosed, Types
      <3>2. /\ StoreForm(st)
            /\ \A u \in Types : Opened(st[u], store, u, sens.type, FALSE)
        BY <1>0, <3>1, CommitSessions
      <3>3. up.st = "IDLE"
        BY <3>1 DEF UploadInv, OneUploadAtATime
      <3>4. store["TAG"].open = FALSE /\ store["MAC"].open = FALSE
        BY <3>3, ClosedFacts
      <3> HIDE DEF st
      <3>5. \A u \in Types : st[u].open = FALSE
        BY <3>1, <3>2, <3>4 DEF Opened, Types, ScanTypes, SensorTypes
      <3>6. sensor_cached_upload_try_start(st, up.st # "IDLE", IdleSens)
        BY <2>4 DEF st
      <3> QED BY <1>0, <3>1, <3>2, <3>5, <3>6, SensorDoneInv
    <2> QED BY <1>1, <2>1, <2>2, <2>3, <2>4 DEF CdataAck
  <1>2. ASSUME NEW t \in SensorTypes, LiveAck(t)
        PROVE  UploadInv'
    <2>1. ~InCdata /\ sensor_upload_busy
      BY <1>2 DEF LiveAck, InCdata, sensor_upload_busy, SensorTypes
    <2>2. \A u \in Types : store[u].open = FALSE
      BY <2>1, AllClosed DEF UploadInv, OneUploadAtATime
    <2>3. sensor_cached_upload_try_start(store, up.st # "IDLE", IdleSens)
      BY <1>2 DEF LiveAck
    <2> QED BY <1>0, <2>1, <2>2, <2>3, SensorDoneInv
  <1>3. CASE Unexpected(sensRsp)
    <2>1. ScanForm(scanner')
      BY <1>0, ScanForms DEF ScanForm, ScanRecord
    <2> QED BY <1>0, <1>3, <2>1, ReturnInv DEF Unexpected
  <1> QED BY <1>1, <1>2, <1>3 DEF MSG_SENSOR_LTE_ACK

\* scan_start_internal, called on an idle scanner.
LEMMA StartForm ==
  ASSUME NEW radio, NEW m, NEW ok
  PROVE  LET sc == StartScan([state |-> "IDLE", radio |-> radio, timer |-> FALSE],
                             m, ok)
         IN  ScanRecord(sc) /\ sc.state # "WAITING"
PROOF
  <1>1. CASE m # 0 /\ ~radio /\ ok
    <2>1. StartScan([state |-> "IDLE", radio |-> radio, timer |-> FALSE], m, ok)
            = [state |-> "SCANNING", radio |-> TRUE, timer |-> TRUE]
      BY <1>1 DEF StartScan
    <2> QED BY <2>1 DEF ScanRecord, ScanStates
  <1>2. CASE ~(m # 0 /\ ~radio /\ ok)
    <2>1. StartScan([state |-> "IDLE", radio |-> radio, timer |-> FALSE], m, ok)
            = [state |-> "IDLE", radio |-> radio, timer |-> FALSE]
      BY <1>2 DEF StartScan
    <2> QED BY <2>1 DEF ScanRecord, ScanStates
  <1> QED BY <1>1, <1>2

\* my_scan_set_config drops all upload state and closes every session.
LEMMA SetConfigInv ==
  ASSUME UploadInv, NEW m, my_scan_set_config(m)
  PROVE  UploadInv'
PROOF
  <1> DEFINE s1 == FlushTables(store)
             s2 == Rewind(s1, "TAG")
             s3 == Rewind(s2, "MAC")
  <1>0. /\ "TAG" \in Types /\ "MAC" \in Types /\ "TH" \in Types /\ "BP" \in Types
        /\ Types = {"TAG", "MAC", "TH", "BP"} /\ SensorTypes = {"TH", "BP"}
    BY DEF Types, ScanTypes, SensorTypes
  <1>1. /\ StoreForm(s1)
        /\ \A u \in Types : s1[u].open = store[u].open
    BY RoundFacts, FlushSessions
  <1>2. StoreForm(s2) /\ \A u \in Types : Opened(s2[u], s1, u, "TAG", FALSE)
    <2> HIDE DEF s1
    <2> QED BY <1>0, <1>1, RewindSessions
  <1>3. StoreForm(s3) /\ \A u \in Types : Opened(s3[u], s2, u, "MAC", FALSE)
    <2> HIDE DEF s2
    <2> QED BY <1>0, <1>2, RewindSessions
  <1>4. /\ store' = ResetStore(s3, TRUE)
        /\ up' = IdleUp /\ sens' = IdleSens
    BY DEF my_scan_set_config
  <1> HIDE DEF s1, s2, s3
  <1>5. /\ s3["TAG"].open = FALSE /\ s3["MAC"].open = FALSE
        /\ \A u \in SensorTypes : s3[u].open = store[u].open
    BY <1>0, <1>1, <1>2, <1>3 DEF Opened
  <1>6. /\ \A u \in SensorTypes : store[u].open <=> (InCdata /\ sens.type = u)
        /\ \A u \in Types : store[u].open \in BOOLEAN
        /\ InCdata => sens.type \in SensorTypes
    BY DEF UploadInv, ControlForm, SessionsClosed
  <1>7. StoreForm(store') /\ \A u \in Types : store'[u].open = FALSE
    <2>1. CASE InCdata
      <3>1. /\ sens.type \in SensorTypes /\ sens.type \in Types
            /\ store' = Rewind(s3, sens.type)
        BY <1>4, <1>6, <2>1 DEF ResetStore, Types
      <3>2. /\ StoreForm(store')
            /\ \A u \in Types : Opened(store'[u], s3, u, sens.type, FALSE)
        BY <1>3, <3>1, RewindSessions
      <3>3. \A u \in SensorTypes : u # sens.type => s3[u].open = FALSE
        BY <1>0, <1>5, <1>6
      <3>4. \A u \in Types : u # sens.type => s3[u].open = FALSE
        BY <1>0, <1>5, <3>3
      <3> QED BY <3>2, <3>4 DEF Opened
    <2>2. CASE ~InCdata
      <3>1. store' = s3
        BY <1>4, <2>2 DEF ResetStore
      <3>2. \A u \in SensorTypes : s3[u].open = FALSE
        BY <1>0, <1>5, <1>6, <2>2
      <3> QED BY <1>0, <1>3, <1>5, <3>1, <3>2
    <2> QED BY <2>1, <2>2
  <1>8. ScanRecord(scanner') /\ scanner'.state # "WAITING"
    <2>1. PICK radio, ok :
            scanner' = StartScan([state |-> "IDLE", radio |-> radio,
                                  timer |-> FALSE], m, ok)
      BY DEF my_scan_set_config
    <2> QED BY <2>1, StartForm
  <1>9. /\ up'.st = "IDLE" /\ sens'.st = "IDLE" /\ ~InCdata'
        /\ up' = [st |-> up'.st, seq |-> up'.seq, flash |-> up'.flash,
                  snap |-> up'.snap]
        /\ sens' = [st |-> sens'.st, type |-> sens'.type,
                    total |-> sens'.total, next |-> sens'.next]
    BY <1>4 DEF IdleUp, IdleSens, InCdata
  <1>10. ControlForm'
    BY <1>7, <1>8, <1>9 DEF ControlForm, ScanRecord, UpStates, SensStates
  <1>11. SessionsClosed' /\ OneUploadAtATime' /\ ScanPausedIffUploading'
    BY <1>0, <1>7, <1>8, <1>9 DEF SessionsClosed, OneUploadAtATime, ScanPausedIffUploading
  <1> QED BY <1>10, <1>11 DEF UploadInv

\* The radio, the LTE thread and the 4G module touch none of this state.
LEMMA OutsideInv ==
  ASSUME UploadInv, UNCHANGED <<store, up, sens, scanner>>
  PROVE  UploadInv'
PROOF
  <1>1. ScanForm(scanner')
    BY ScanForms DEF ScanForm, ScanRecord
  <1> QED BY <1>1, ReturnInv

-----------------------------------------------------------------------------
(* The theorems.                                                           *)

\* my_scan_init leaves no upload under way.
LEMMA InitInv == Init => UploadInv
PROOF
  <1> SUFFICES ASSUME Init PROVE UploadInv
    OBVIOUS
  <1>1. StoreForm(store) /\ \A u \in Types : store[u].open = FALSE
    BY DEF Init, EmptyStore, StoreForm
  <1>2. ScanRecord(scanner) /\ scanner.state # "WAITING"
    <2>1. PICK ok : scanner = StartScan([state |-> "IDLE", radio |-> FALSE,
                                         timer |-> FALSE], mode, ok)
      BY DEF Init
    <2> QED BY <2>1, StartForm
  <1>3. /\ up = IdleUp /\ sens = IdleSens
        /\ up.st = "IDLE" /\ sens.st = "IDLE" /\ ~InCdata
    BY DEF Init, IdleUp, IdleSens, InCdata
  <1>4. ControlForm
    BY <1>1, <1>2, <1>3 DEF ControlForm, ScanRecord, IdleUp, IdleSens, UpStates, SensStates
  <1>5. SessionsClosed /\ OneUploadAtATime /\ ScanPausedIffUploading
    BY <1>1, <1>2, <1>3 DEF SessionsClosed, OneUploadAtATime,
       ScanPausedIffUploading, Types, ScanTypes, SensorTypes
  <1> QED BY <1>4, <1>5 DEF UploadInv

\* Every step of the system preserves the invariant.
LEMMA NextInv == UploadInv /\ [Next]_vars => UploadInv'
PROOF
  <1> SUFFICES ASSUME UploadInv, [Next]_vars PROVE UploadInv'
    OBVIOUS
  <1>1. CASE \E t \in ScanTypes : scan_recv_cb(t)
    BY <1>1, OutsideInv DEF scan_recv_cb, upload
  <1>2. CASE \E t \in ScanTypes : ProcessAdv(t)
    BY <1>2, ProcessAdvInv
  <1>3. CASE MSG_SCAN_INTERVAL
    BY <1>3, ScanIntervalInv
  <1>4. CASE scan_length_timer_cb
    BY <1>4, LengthTimerInv
  <1>5. CASE MSG_SCAN_LENGTH
    BY <1>5, ScanLengthInv
  <1>6. CASE MSG_UPLOAD_TAG_AND_MAC
    BY <1>6, TagMacAckInv
  <1>7. CASE MSG_SCAN_UPLOAD
    BY <1>7, ScanUploadInv
  <1>8. CASE MSG_UPLOAD_WAKEUP
    BY <1>8, WakeupInv
  <1>9. CASE \E t \in SensorTypes : MSG_SENSOR_SAMPLE(t)
    BY <1>9, SampleInv
  <1>10. CASE MSG_SENSOR_LTE_ACK
    BY <1>10, SensorAckInv
  <1>11. CASE \E m \in 0 .. 2 : my_scan_set_config(m)
    BY <1>11, SetConfigInv
  <1>12. CASE my_ble_handle
    BY <1>12, OutsideInv DEF my_ble_handle, upload
  <1>13. CASE LoseCommand \/ LoseAck
    BY <1>13, OutsideInv DEF LoseCommand, LoseAck, upload
  <1>14. CASE my_lte_pwroff_handle \/ my_lte_handle_power_on \/ my_scan_upload_on_lte_wakeup
    BY <1>14, OutsideInv DEF my_lte_pwroff_handle, my_lte_handle_power_on,
                             my_scan_upload_on_lte_wakeup, upload
  <1>15. CASE UNCHANGED vars
    BY <1>15, OutsideInv DEF vars
  <1> QED BY <1>1, <1>2, <1>3, <1>4, <1>5, <1>6, <1>7, <1>8, <1>9, <1>10,
             <1>11, <1>12, <1>13, <1>14, <1>15 DEF Next

\* The TAG/MAC round and the sensor upload never hold the link together, for
\* all bounds, with lost and stale acknowledgements and failing calls.
THEOREM UploadsNeverOverlap == Spec => []OneUploadAtATime
PROOF
  <1>1. UploadInv => OneUploadAtATime
    BY DEF UploadInv
  <1> QED BY <1>1, InitInv, NextInv, PTL DEF Spec

\* No path through the upload code leaves a store session open.
THEOREM SessionsNeverLeak == Spec => []SessionsClosed
PROOF
  <1>1. UploadInv => SessionsClosed
    BY DEF UploadInv
  <1> QED BY <1>1, InitInv, NextInv, PTL DEF Spec

\* Scanning is suspended during a round and at no other time.
THEOREM ScanningPausesOnlyForRounds == Spec => []ScanPausedIffUploading
PROOF
  <1>1. UploadInv => ScanPausedIffUploading
    BY DEF UploadInv
  <1> QED BY <1>1, InitInv, NextInv, PTL DEF Spec


-----------------------------------------------------------------------------
(* Sorting a table.                                                        *)

\* Every set of natural numbers that is not empty has a least member.
LEMMA LeastNat ==
  ASSUME NEW T, T \subseteq Nat, T # {}
  PROVE  \E x \in T : \A y \in T : x <= y
  <1>1. PICK x \in T : \A y \in T : <<y, x>> \notin OpToRel(<, Nat)
    BY WFMin, NatLessThanWellFounded, Zenon
  <1>2. \A y \in T : ~(y < x)
    BY <1>1, Zenon DEF OpToRel
  <1> QED BY <1>2

\* A last entry finds its place among entries that are sorted.
LEMMA SortInsert ==
  ASSUME NEW n \in Nat \ {0}, NEW tab \in [1 .. n -> Nat],
         NEW p \in [1 .. n - 1 -> 1 .. n - 1],
         \A i, j \in 1 .. n - 1 : i < j => p[i] # p[j] /\ tab[p[i]] <= tab[p[j]]
  PROVE  \E f \in [1 .. n -> 1 .. n] : Sorts(f, tab)
  <1> DEFINE K == {k \in 1 .. n : k = n \/ tab[p[k]] > tab[n]}
  <1>1. n \in K /\ K \subseteq 1 .. n
    OBVIOUS
  <1>K. \A y \in 1 .. n : y \in K <=> y = n \/ tab[p[y]] > tab[n]
    OBVIOUS
  <1> HIDE DEF K
  <1>2. PICK k \in K : \A y \in K : k <= y
    <2>1. K \subseteq Nat /\ K # {}
      BY <1>1
    <2> QED BY <2>1, LeastNat
  <1>3. k \in 1 .. n /\ k \in Nat /\ (k = n \/ tab[p[k]] > tab[n])
    BY <1>1, <1>K
  <1> DEFINE f == [i \in 1 .. n |-> IF i < k THEN p[i] ELSE IF i = k THEN n ELSE p[i - 1]]
  <1>F. DOMAIN f = 1 .. n /\ f = [i \in 1 .. n |-> f[i]]
    OBVIOUS
  <1>G. \A i \in 1 .. n : f[i] = IF i < k THEN p[i] ELSE IF i = k THEN n ELSE p[i - 1]
    OBVIOUS
  <1> HIDE DEF f
  <1>4. ASSUME NEW i \in 1 .. n, i < k
        PROVE  i \in 1 .. n - 1 /\ f[i] = p[i] /\ p[i] \in 1 .. n - 1 /\ tab[p[i]] <= tab[n]
    <2>1. i \in 1 .. n - 1 /\ i # n /\ ~(k <= i)
      BY <1>3, <1>4
    <2>2. ~(tab[p[i]] > tab[n])
      BY <1>2, <1>K, <2>1
    <2>3. p[i] \in 1 .. n - 1 /\ f[i] = p[i]
      BY <1>4, <1>G, <2>1
    <2>4. tab[p[i]] \in Nat /\ tab[n] \in Nat
      BY <2>3
    <2> QED BY <2>1, <2>2, <2>3, <2>4
  <1>5. f[k] = n
    BY <1>3, <1>G
  <1>6. ASSUME NEW i \in 1 .. n, i > k
        PROVE  /\ i - 1 \in 1 .. n - 1 /\ f[i] = p[i - 1] /\ p[i - 1] \in 1 .. n - 1
               /\ tab[n] <= tab[p[i - 1]]
    <2>1. /\ i - 1 \in 1 .. n - 1 /\ k \in 1 .. n - 1 /\ k <= i - 1 /\ k # n
          /\ ~(i < k) /\ i # k
      BY <1>3, <1>6
    <2>2. p[i - 1] \in 1 .. n - 1 /\ p[k] \in 1 .. n - 1 /\ f[i] = p[i - 1]
      BY <1>G, <2>1
    <2>3. tab[p[k]] > tab[n] /\ tab[n] \in Nat /\ tab[p[k]] \in Nat /\ tab[p[i - 1]] \in Nat
      BY <1>3, <2>1, <2>2, SMTT(30)
    <2>4. tab[p[k]] <= tab[p[i - 1]]
      <3>1. CASE k = i - 1
        BY <2>3, <3>1
      <3>2. CASE k # i - 1
        <4>1. k < i - 1
          BY <2>1, <3>2
        <4> QED BY <2>1, <4>1
      <3> QED BY <3>1, <3>2
    <2> QED BY <2>1, <2>2, <2>3, <2>4, SMTT(40)
  <1>7. f \in [1 .. n -> 1 .. n]
    <2>1. ASSUME NEW i \in 1 .. n PROVE f[i] \in 1 .. n
      <3>1. CASE i < k
        <4>1. f[i] \in 1 .. n - 1
          BY <1>4, <3>1
        <4> QED BY <4>1
      <3>2. CASE i = k
        BY <1>5, <3>2
      <3>3. CASE i > k
        <4>1. f[i] \in 1 .. n - 1
          BY <1>6, <3>3
        <4> QED BY <4>1
      <3> QED BY <1>3, <3>1, <3>2, <3>3
    <2> QED BY <1>F, <2>1
  <1>8. ASSUME NEW i \in 1 .. n, NEW j \in 1 .. n, i < j
        PROVE  f[i] # f[j] /\ tab[f[i]] <= tab[f[j]]
    <2>1. CASE i < k /\ j < k
      BY <1>4, <1>8, <2>1
    <2>2. CASE i < k /\ j = k
      <3>1. f[i] = p[i] /\ p[i] \in 1 .. n - 1 /\ tab[p[i]] <= tab[n] /\ f[j] = n
        BY <1>4, <1>5, <2>2
      <3> QED BY <3>1
    <2>3. CASE i < k /\ j > k
      <3>1. i < j - 1
        BY <1>3, <2>3
      <3>2. i \in 1 .. n - 1 /\ f[i] = p[i] /\ j - 1 \in 1 .. n - 1 /\ f[j] = p[j - 1]
        BY <1>4, <1>6, <2>3
      <3> QED BY <3>1, <3>2
    <2>4. CASE i = k
      <3>1. j > k
        BY <1>3, <1>8, <2>4
      <3>2. /\ f[i] = n /\ f[j] = p[j - 1] /\ p[j - 1] \in 1 .. n - 1
            /\ tab[n] <= tab[p[j - 1]]
        BY <1>5, <1>6, <2>4, <3>1
      <3> QED BY <3>2
    <2>5. CASE i > k
      <3>1. j > k /\ i - 1 < j - 1
        BY <1>3, <1>8, <2>5
      <3>2. /\ i - 1 \in 1 .. n - 1 /\ f[i] = p[i - 1]
            /\ j - 1 \in 1 .. n - 1 /\ f[j] = p[j - 1]
        BY <1>6, <2>5, <3>1
      <3> QED BY <3>1, <3>2
    <2> QED BY <1>3, <1>8, <2>1, <2>2, <2>3, <2>4, <2>5
  <1>9. Sorts(f, tab)
    BY <1>8 DEF Sorts
  <1> QED BY <1>7, <1>9

\* Every table can be sorted: there is no shortest one that cannot.
LEMMA SortExists ==
  ASSUME NEW n \in Nat, NEW tab \in [1 .. n -> Nat]
  PROVE  \E f \in [1 .. n -> 1 .. n] : Sorts(f, tab)
  <1> DEFINE Bad == {m \in Nat : \E g \in [1 .. m -> Nat] :
                                   ~ \E f \in [1 .. m -> 1 .. m] : Sorts(f, g)}
  <1>1. ASSUME Bad # {} PROVE FALSE
    <2>1. PICK m \in Bad : \A y \in Bad : m <= y
      <3>1. Bad \subseteq Nat
        OBVIOUS
      <3> HIDE DEF Bad
      <3> QED BY <1>1, <3>1, LeastNat
    <2>2. m \in Nat
      OBVIOUS
    <2>3. PICK g \in [1 .. m -> Nat] : ~ \E f \in [1 .. m -> 1 .. m] : Sorts(f, g)
      OBVIOUS
    <2>4. m # 0
      <3> SUFFICES ASSUME m = 0 PROVE FALSE
        OBVIOUS
      <3>1. DOMAIN g = {}
        OBVIOUS
      <3>2. [i \in 1 .. m |-> i] \in [1 .. m -> 1 .. m]
        OBVIOUS
      <3>3. Sorts([i \in 1 .. m |-> i], g)
        BY <3>1 DEF Sorts
      <3> QED BY <2>3, <3>2, <3>3
    <2>5. m - 1 \in Nat /\ ~(m <= m - 1)
      BY <2>2, <2>4
    <2>6. m - 1 \notin Bad
      BY <2>1, <2>5
    <2> DEFINE h == [i \in 1 .. m - 1 |-> g[i]]
    <2>7. h \in [1 .. m - 1 -> Nat] /\ \A i \in 1 .. m - 1 : h[i] = g[i]
      BY <2>2
    <2>8. \E f \in [1 .. m - 1 -> 1 .. m - 1] : Sorts(f, h)
      <3> HIDE DEF h
      <3> QED BY <2>5, <2>6, <2>7
    <2>9. PICK p \in [1 .. m - 1 -> 1 .. m - 1] : Sorts(p, h)
      BY <2>8
    <2>10. \A i, j \in 1 .. m - 1 : i < j => p[i] # p[j] /\ g[p[i]] <= g[p[j]]
      <3>1. DOMAIN h = 1 .. m - 1
        OBVIOUS
      <3> HIDE DEF h
      <3> QED BY <2>7, <2>9, <3>1 DEF Sorts
    <2> QED BY <2>2, <2>3, <2>4, <2>10, SortInsert
  <1> QED BY <1>1

\* What a flush writes: the entries of the table, the older ones first.
LEMMA TimeOrderIs ==
  ASSUME NEW tab \in Seq(Nat)
  PROVE  /\ TimeOrder(tab) \in Seq(Nat) /\ Len(TimeOrder(tab)) = Len(tab)
         /\ \A i \in 1 .. Len(tab) : \E j \in 1 .. Len(tab) : TimeOrder(tab)[i] = tab[j]
         /\ (\A i, j \in 1 .. Len(tab) : i # j => tab[i] # tab[j]) =>
               \A i, j \in 1 .. Len(tab) : i < j => TimeOrder(tab)[i] < TimeOrder(tab)[j]
  <1> DEFINE n == Len(tab)
             p == CHOOSE f \in [DOMAIN tab -> DOMAIN tab] : Sorts(f, tab)
             T == TimeOrder(tab)
  <1>1. n \in Nat /\ tab \in [1 .. n -> Nat] /\ DOMAIN tab = 1 .. n
    BY LenProperties
  <1> HIDE DEF n
  <1>2. \E f \in [1 .. n -> 1 .. n] : Sorts(f, tab)
    BY <1>1, SortExists
  <1>3. p \in [1 .. n -> 1 .. n] /\ Sorts(p, tab)
    BY <1>1, <1>2
  <1>4. T = [i \in 1 .. n |-> tab[p[i]]]
    BY <1>1 DEF TimeOrder
  <1> HIDE DEF p, T
  <1>5. \A i \in 1 .. n : p[i] \in 1 .. n /\ T[i] = tab[p[i]] /\ T[i] \in Nat
    BY <1>1, <1>3, <1>4
  <1>6. T \in [1 .. n -> Nat]
    BY <1>4, <1>5
  <1>7. T \in Seq(Nat) /\ Len(T) = n
    <2>1. T \in Seq(Nat)
      BY <1>1, <1>6, SeqDef
    <2>2. DOMAIN T = 1 .. n /\ DOMAIN T = 1 .. Len(T) /\ Len(T) \in Nat
      BY <1>6, <2>1, LenProperties
    <2> QED BY <1>1, <2>1, <2>2
  <1>8. ASSUME \A i, j \in 1 .. n : i # j => tab[i] # tab[j],
               NEW i \in 1 .. n, NEW j \in 1 .. n, i < j
        PROVE  T[i] < T[j]
    <2>1. p[i] # p[j] /\ tab[p[i]] <= tab[p[j]]
      BY <1>1, <1>3, <1>8 DEF Sorts
    <2>2. tab[p[i]] # tab[p[j]] /\ tab[p[i]] \in Nat /\ tab[p[j]] \in Nat
      BY <1>1, <1>5, <1>8, <2>1
    <2> QED BY <1>5, <2>1, <2>2
  <1> QED BY <1>5, <1>7, <1>8 DEF n, T

-----------------------------------------------------------------------------
(* What the tables and the store hold.                                     *)

\* Region r holds captures up to number c; its session, if it has one, is
\* within it.
RegionOK(r, c) ==
  /\ r.q \in Seq(Nat) /\ \A i \in 1 .. Len(r.q) : r.q[i] \in 1 .. c
  /\ r.lim \in 0 .. Len(r.q)
  /\ r.given \in 0 .. r.lim
  /\ r.open \in BOOLEAN
  /\ ~r.open => r.lim = 0

\* A queue is in time order, and older than a table.
InOrder(q) == \A i, j \in 1 .. Len(q) : i < j => q[i] < q[j]
Older(q, tab) == \A i \in 1 .. Len(q), j \in 1 .. Len(tab) : q[i] < tab[j]

\* The store st, beside tables tab and cap captures.
StoreOK(st, tab, cap) ==
  /\ \A t \in Types : RegionOK(st[t], cap[t])
  /\ \A t \in ScanTypes : InOrder(st[t].q) /\ Older(st[t].q, tab[t])

\* A table of captures up to number c, each in it once.
TableOK(tab, c, max) ==
  /\ tab \in Seq(Nat) /\ Len(tab) <= max
  /\ \A i \in 1 .. Len(tab) : tab[i] \in 1 .. c
  /\ \A i, j \in 1 .. Len(tab) : i # j => tab[i] # tab[j]

\* Region t of st became r, and the others are as they were.
Became(st2, st, t, r) == /\ st2[t] = r
                         /\ \A u \in Types : u # t => st2[u] = st[u]

\* The operations of the store, region by region.
LEMMA RegionAfter ==
  ASSUME NEW st, StoreForm(st), NEW t \in Types
  PROVE  /\ Became(UploadBegin(st, t), st, t, Region(st[t].q, TRUE, Len(st[t].q)))
         /\ Became(Rewind(st, t), st, t, Region(st[t].q, FALSE, 0))
         /\ Became(Commit(st, t), st, t,
                   Region(SubSeq(st[t].q, st[t].given + 1, Len(st[t].q)), FALSE, 0))
  BY DEF StoreForm, UploadBegin, Rewind, Commit, Became

\* Reading on, region by region.
LEMMA RegionAfterRead ==
  ASSUME NEW st, StoreForm(st), NEW t \in Types, NEW n
  PROVE  Became(ReadMore(st, t, n), st, t,
                [q |-> st[t].q, given |-> st[t].given + n,
                 open |-> st[t].open, lim |-> st[t].lim])
  BY DEF StoreForm, ReadMore, Became

\* Pushing, region by region.
LEMMA RegionAfterPush ==
  ASSUME NEW st, StoreForm(st), NEW t \in Types, NEW recs
  PROVE  Became(Push(st, t, recs), st, t,
                [q |-> st[t].q \o recs, given |-> st[t].given,
                 open |-> st[t].open, lim |-> st[t].lim])
  <1> DEFINE longer == st[t].q \o recs
  <1>1. Push(st, t, recs) = [st EXCEPT ![t].q = longer]
    BY DEF Push
  <1> HIDE DEF longer
  <1>2. Became(Push(st, t, recs), st, t,
               [q |-> longer, given |-> st[t].given,
                open |-> st[t].open, lim |-> st[t].lim])
    BY <1>1, SMTT(40) DEF StoreForm, Became
  <1> QED BY <1>2 DEF longer

\* A region with a part of the records it had.
LEMMA RegionReplaced ==
  ASSUME NEW st, NEW st2, NEW tab, NEW cap, StoreOK(st, tab, cap), NEW t \in Types,
         NEW r, Became(st2, st, t, r), RegionOK(r, cap[t]),
         t \in ScanTypes => InOrder(r.q) /\ Older(r.q, tab[t])
  PROVE  StoreOK(st2, tab, cap)
  BY DEF StoreOK, Became, Types

\* The records a commit leaves.
LEMMA QueueAfter ==
  ASSUME NEW q \in Seq(Nat), NEW d \in 0 .. Len(q)
  PROVE  /\ SubSeq(q, d + 1, Len(q)) \in Seq(Nat)
         /\ Len(SubSeq(q, d + 1, Len(q))) = Len(q) - d
         /\ \A i \in 1 .. Len(q) - d :
              d + i \in 1 .. Len(q) /\ SubSeq(q, d + 1, Len(q))[i] = q[d + i]
  <1> DEFINE l == Len(q)
             P == SubSeq(q, d + 1, Len(q))
  <1>1. l \in Nat /\ d \in Nat /\ d <= l /\ \A i \in d + 1 .. l : q[i] \in Nat
    BY ElementOfSeq
  <1>2. P = SubSeq(q, d + 1, l)
    OBVIOUS
  <1> HIDE DEF l, P
  <1>3. d + 1 \in Int /\ l \in Int
    BY <1>1
  <1>4. /\ P \in Seq(Nat) /\ Len(P) = (IF d + 1 <= l THEN l - (d + 1) + 1 ELSE 0)
        /\ \A i \in 1 .. l - (d + 1) + 1 : P[i] = q[(d + 1) + i - 1]
    BY <1>1, <1>2, <1>3, SubSeqProperties
  <1>5. Len(P) = l - d /\ l - (d + 1) + 1 = l - d
        /\ \A i \in 1 .. l - d : (d + 1) + i - 1 = d + i /\ d + i \in 1 .. l
    BY <1>1, <1>4
  <1>6. \A i \in 1 .. l - d : P[i] = q[d + i]
    BY <1>4, <1>5
  <1> QED BY <1>4, <1>5, <1>6 DEF l, P

\* Opening and closing a session leaves what is stored in order.
LEMMA SessionOK ==
  ASSUME NEW st, StoreForm(st), NEW tab, NEW cap, StoreOK(st, tab, cap), NEW t \in Types
  PROVE  /\ StoreOK(UploadBegin(st, t), tab, cap)
         /\ StoreOK(Rewind(st, t), tab, cap)
  <1>1. RegionOK(st[t], cap[t]) /\ (t \in ScanTypes => InOrder(st[t].q) /\ Older(st[t].q, tab[t]))
    BY DEF StoreOK
  <1>2. Len(st[t].q) \in Nat
    BY <1>1 DEF RegionOK
  <1>3. ASSUME NEW r, r = Region(st[t].q, TRUE, Len(st[t].q)) \/ r = Region(st[t].q, FALSE, 0)
        PROVE  RegionOK(r, cap[t]) /\ r.q = st[t].q
    <2>1. CASE r = Region(st[t].q, TRUE, Len(st[t].q))
      <3>1. r.q = st[t].q /\ r.given = 0 /\ r.open = TRUE /\ r.lim = Len(st[t].q)
        BY <2>1 DEF Region
      <3>2. r.lim \in 0 .. Len(r.q) /\ r.given \in 0 .. r.lim
        BY <1>2, <3>1
      <3> QED BY <1>1, <3>1, <3>2 DEF RegionOK
    <2>2. CASE r = Region(st[t].q, FALSE, 0)
      <3>1. r.q = st[t].q /\ r.given = 0 /\ r.open = FALSE /\ r.lim = 0
        BY <2>2 DEF Region
      <3>2. r.lim \in 0 .. Len(r.q) /\ r.given \in 0 .. r.lim
        BY <1>2, <3>1
      <3> QED BY <1>1, <3>1, <3>2 DEF RegionOK
    <2> QED BY <1>3, <2>1, <2>2
  <1> QED BY <1>1, <1>3, RegionAfter, RegionReplaced

\* Reading within the session.
LEMMA ReadOK ==
  ASSUME NEW st, StoreForm(st), NEW tab, NEW cap, StoreOK(st, tab, cap), NEW t \in Types,
         NEW n \in 0 .. Readable(st, t)
  PROVE  StoreOK(ReadMore(st, t, n), tab, cap)
  <1> DEFINE r == [q |-> st[t].q, given |-> st[t].given + n,
                   open |-> st[t].open, lim |-> st[t].lim]
  <1>1. RegionOK(st[t], cap[t]) /\ (t \in ScanTypes => InOrder(st[t].q) /\ Older(st[t].q, tab[t]))
    BY DEF StoreOK
  <1>2. RegionOK(r, cap[t]) /\ r.q = st[t].q
    BY <1>1 DEF RegionOK, Readable
  <1>3. Became(ReadMore(st, t, n), st, t, r)
    BY RegionAfterRead
  <1> HIDE DEF r
  <1> QED BY <1>1, <1>2, <1>3, RegionReplaced

\* A commit removes the oldest records.
LEMMA CommitOK ==
  ASSUME NEW st, StoreForm(st), NEW tab, NEW cap, StoreOK(st, tab, cap), NEW t \in Types
  PROVE  StoreOK(Commit(st, t), tab, cap)
  <1> DEFINE q == st[t].q
             d == st[t].given
             P == SubSeq(q, d + 1, Len(q))
             r == Region(P, FALSE, 0)
  <1>1. RegionOK(st[t], cap[t]) /\ (t \in ScanTypes => InOrder(q) /\ Older(q, tab[t]))
    BY DEF StoreOK
  <1>2. q \in Seq(Nat) /\ d \in 0 .. Len(q) /\ \A i \in 1 .. Len(q) : q[i] \in 1 .. cap[t]
    BY <1>1 DEF RegionOK
  <1>3. Became(Commit(st, t), st, t, r)
    BY RegionAfter
  <1> HIDE DEF q, d
  <1>4. /\ P \in Seq(Nat) /\ Len(P) = Len(q) - d
        /\ \A i \in 1 .. Len(P) : d + i \in 1 .. Len(q) /\ P[i] = q[d + i]
    BY <1>2, QueueAfter
  <1>5. r.q = P /\ r.lim = 0 /\ r.given = 0 /\ r.open = FALSE
    BY DEF Region
  <1> HIDE DEF P, r
  <1>6. RegionOK(r, cap[t])
    <2>1. \A i \in 1 .. Len(P) : P[i] \in 1 .. cap[t]
      BY <1>2, <1>4
    <2>2. 0 \in 0 .. Len(P) /\ 0 \in 0 .. 0
      BY <1>4
    <2> QED BY <1>4, <1>5, <2>1, <2>2 DEF RegionOK
  <1>7. ASSUME t \in ScanTypes PROVE InOrder(P) /\ Older(P, tab[t])
    <2>1. Older(P, tab[t])
      BY <1>1, <1>4, <1>7 DEF Older
    <2>2. ASSUME NEW i \in 1 .. Len(P), NEW j \in 1 .. Len(P), i < j PROVE P[i] < P[j]
      <3>1. d + i \in 1 .. Len(q) /\ d + j \in 1 .. Len(q) /\ P[i] = q[d + i] /\ P[j] = q[d + j]
        BY <1>4
      <3>2. d + i < d + j
        BY <1>2, <2>2
      <3> QED BY <1>1, <1>7, <3>1, <3>2 DEF InOrder
    <2> QED BY <2>1, <2>2 DEF InOrder
  <1> QED BY <1>3, <1>5, <1>6, <1>7, RegionReplaced

\* More captures: what is stored stays older than what comes.
LEMMA MoreCaptured ==
  ASSUME NEW st, NEW tab, NEW cap, NEW cap2, StoreOK(st, tab, cap),
         \A t \in Types : cap[t] \in Nat /\ cap2[t] \in Nat /\ cap[t] <= cap2[t]
  PROVE  StoreOK(st, tab, cap2)
  <1>1. ASSUME NEW t \in Types PROVE RegionOK(st[t], cap2[t])
    <2>1. RegionOK(st[t], cap[t])
      BY DEF StoreOK
    <2>2. \A x \in 1 .. cap[t] : x \in 1 .. cap2[t]
      OBVIOUS
    <2> QED BY <2>1, <2>2 DEF RegionOK
  <1> QED BY <1>1 DEF StoreOK

\* A table goes to the store in time order; what comes after it is younger.
LEMMA FlushOK ==
  ASSUME NEW st, StoreForm(st), NEW tab, NEW tab2, NEW cap, StoreOK(st, tab, cap),
         NEW t \in ScanTypes, NEW max, TableOK(tab[t], cap[t], max), cap[t] \in Nat,
         \A u \in ScanTypes : u # t => tab2[u] = tab[u],
         \A j \in 1 .. Len(tab2[t]) : tab2[t][j] \in Nat /\ tab2[t][j] > cap[t]
  PROVE  StoreOK(Push(st, t, TimeOrder(tab[t])), tab2, cap)
  <1> DEFINE q == st[t].q
             T == TimeOrder(tab[t])
             m == Len(tab[t])
             P == q \o T
             r == [q |-> P, given |-> st[t].given, open |-> st[t].open, lim |-> st[t].lim]
             st2 == Push(st, t, T)
  <1>0. t \in Types
    BY DEF Types
  <1>1. RegionOK(st[t], cap[t]) /\ InOrder(q) /\ Older(q, tab[t])
    BY <1>0 DEF StoreOK
  <1>2. q \in Seq(Nat) /\ Len(q) \in Nat /\ \A i \in 1 .. Len(q) : q[i] \in 1 .. cap[t]
    BY <1>1 DEF RegionOK
  <1>3. /\ T \in Seq(Nat) /\ Len(T) = m /\ m \in Nat
        /\ \A i \in 1 .. m : \E j \in 1 .. m : T[i] = tab[t][j]
        /\ \A i, j \in 1 .. m : i < j => T[i] < T[j]
    <2>1. tab[t] \in Seq(Nat) /\ m \in Nat /\ \A i, j \in 1 .. m : i # j => tab[t][i] # tab[t][j]
      BY DEF TableOK
    <2> QED BY <2>1, TimeOrderIs
  <1>4. \A i \in 1 .. m : tab[t][i] \in 1 .. cap[t]
    BY DEF TableOK
  <1>5. Became(st2, st, t, r)
    BY <1>0, RegionAfterPush
  <1>6. r.q = P /\ r.lim = st[t].lim /\ r.given = st[t].given /\ r.open = st[t].open
    OBVIOUS
  <1> HIDE DEF q, T, m, r, st2
  <1>7. /\ P \in Seq(Nat) /\ Len(P) = Len(q) + m
        /\ \A i \in 1 .. Len(q) + m : P[i] = IF i <= Len(q) THEN q[i] ELSE T[i - Len(q)]
    <2>1. q \in Seq(Nat) /\ T \in Seq(Nat)
      BY <1>2, <1>3
    <2>2. /\ P \in Seq(Nat) /\ Len(P) = Len(q) + Len(T)
          /\ \A i \in 1 .. Len(q) + Len(T) : P[i] = IF i <= Len(q) THEN q[i] ELSE T[i - Len(q)]
      BY <2>1, ConcatProperties
    <2> QED BY <1>3, <2>2
  <1> HIDE DEF P
  <1>8. ASSUME NEW i \in 1 .. Len(P)
        PROVE  \/ i \in 1 .. Len(q) /\ P[i] = q[i]
               \/ i - Len(q) \in 1 .. m /\ i > Len(q) /\ P[i] = T[i - Len(q)]
    BY <1>2, <1>3, <1>7
  <1>9. \A i \in 1 .. m : T[i] \in 1 .. cap[t]
    BY <1>3, <1>4
  <1>10. RegionOK(r, cap[t])
    <2>1. \A i \in 1 .. Len(P) : P[i] \in 1 .. cap[t]
      BY <1>2, <1>8, <1>9
    <2>2. Len(q) <= Len(P) /\ Len(P) \in Nat
      BY <1>2, <1>3, <1>7
    <2>3. st[t].lim \in 0 .. Len(q)
      BY <1>1 DEF RegionOK, q
    <2>4. st[t].lim \in 0 .. Len(P)
      BY <1>2, <2>2, <2>3
    <2> QED BY <1>1, <1>6, <1>7, <2>1, <2>4 DEF RegionOK
  <1>11. ASSUME NEW i \in 1 .. Len(P), NEW j \in 1 .. Len(P), i < j PROVE P[i] < P[j]
    <2>1. CASE i \in 1 .. Len(q) /\ P[i] = q[i] /\ j \in 1 .. Len(q) /\ P[j] = q[j]
      BY <1>1, <1>11, <2>1 DEF InOrder
    <2>2. CASE /\ i \in 1 .. Len(q) /\ P[i] = q[i]
               /\ j - Len(q) \in 1 .. m /\ P[j] = T[j - Len(q)]
      <3>1. PICK k \in 1 .. m : T[j - Len(q)] = tab[t][k]
        BY <1>3, <2>2
      <3>2. q[i] < tab[t][k]
        BY <1>1, <2>2, <3>1 DEF Older, m
      <3> QED BY <2>2, <3>1, <3>2
    <2>3. CASE /\ i - Len(q) \in 1 .. m /\ P[i] = T[i - Len(q)]
               /\ j - Len(q) \in 1 .. m /\ P[j] = T[j - Len(q)]
      <3>1. i - Len(q) < j - Len(q)
        BY <1>2, <1>11
      <3> QED BY <1>3, <2>3, <3>1
    <2>4. CASE i > Len(q) /\ j \in 1 .. Len(q)
      BY <1>2, <1>11, <2>4
    <2> QED BY <1>8, <2>1, <2>2, <2>3, <2>4
  <1>12. ASSUME NEW i \in 1 .. Len(P), NEW j \in 1 .. Len(tab2[t]) PROVE P[i] < tab2[t][j]
    <2>1. P[i] \in 1 .. cap[t] /\ tab2[t][j] > cap[t] /\ tab2[t][j] \in Nat
      BY <1>6, <1>10 DEF RegionOK
    <2>2. P[i] \in Nat /\ P[i] <= cap[t]
      BY <2>1
    <2> QED BY <2>1, <2>2
  <1>13. ASSUME NEW u \in Types PROVE RegionOK(st2[u], cap[u])
    <2>1. CASE u = t
      BY <1>5, <1>10, <2>1 DEF Became
    <2>2. CASE u # t
      BY <1>5, <2>2 DEF Became, StoreOK
    <2> QED BY <2>1, <2>2
  <1>14. ASSUME NEW u \in ScanTypes PROVE InOrder(st2[u].q) /\ Older(st2[u].q, tab2[u])
    <2>1. CASE u = t
      <3>1. st2[u].q = P
        BY <1>5, <1>6, <2>1 DEF Became
      <3> QED BY <1>11, <1>12, <2>1, <3>1 DEF InOrder, Older
    <2>2. CASE u # t
      BY <1>5, <2>2 DEF Became, StoreOK, Types
    <2> QED BY <2>1, <2>2
  <1> QED BY <1>13, <1>14 DEF StoreOK, st2, T

-----------------------------------------------------------------------------
(* Every step, seen from the tables, the store, the uploads and the link.  *)

Started(t) == IF t = "TAG" THEN "TAG_START" ELSE "MAC_START"

\* What a step of an upload leaves alone.
Around == UNCHANGED <<heard, captured, sensRsp, got, reconfigs>>

\* Nothing here changes.
Aside == UNCHANGED <<heard, table, store, up, sens, wire, acks, sensRsp, captured,
                     announced, got, reconfigs>>

\* A message other than an acknowledgement finds the link free, and an upload
\* starts on it, or does not.
FreeStart ==
  /\ up.st = "IDLE" /\ sens.st = "IDLE" /\ acks' = acks /\ Around
  /\ \/ \E t \in ScanTypes : StartRound(t)
     \/ /\ sensor_cached_upload_try_start(store, FALSE, sens)
        /\ UNCHANGED <<up, table, announced>>

\* The next step of a TAG or MAC round.
RoundStep ==
  \/ /\ up.st = "IDLE" \/ up.st = "TAG_END"
     /\ sens.st = "IDLE"
     /\ \E t \in ScanTypes : StartRound(t)
  \/ \E t \in ScanTypes :
       /\ up.st = Started(t)
       /\ \/ SendStored(t)
          \/ (Readable(store, t) = 0 \/ Faults) /\ (SendEntry(t) \/ EndRound(t))
  \/ /\ up.st = "TAG_END" \/ up.st = "MAC_END"
     /\ sens.st = "IDLE"
     /\ up' = [up EXCEPT !.st = "IDLE", !.seq = 0, !.flash = 0]
     /\ sensor_cached_upload_try_start(store, FALSE, sens)
     /\ UNCHANGED <<table, announced>>

\* The next step of a sensor upload.
SensorStep ==
  /\ up.st = "IDLE" /\ UNCHANGED <<up, table, announced>>
  /\ \/ /\ InCdata /\ sens.type \in SensorTypes
        /\ \/ \E nx : /\ \/ sens.st = "CDATA_START" /\ nx = sens.next
                         \/ /\ sens.st = "CDATA_DATA" /\ nx = sens.next + 1
                            /\ sens.next < sens.total
                      /\ sensor_cdata_send_next_packet(nx)
           \/ SensorReset
           \/ /\ Send(Cmd(sens.type, "END", 0, <<>>))
              /\ sens' = [sens EXCEPT !.st = "CDATA_END"]
              /\ UNCHANGED store
           \/ sensor_cached_upload_try_start(Commit(store, sens.type), FALSE, IdleSens)
     \/ ~InCdata /\ sens.st # "IDLE" /\ sensor_cached_upload_try_start(store, FALSE, IdleSens)

\* An acknowledgement moves an upload on, or finds nobody waiting.
AckStep ==
  /\ acks # <<>> /\ acks' = Tail(acks) /\ Around
  /\ \/ RoundStep
     \/ SensorStep
     \/ UNCHANGED <<table, store, up, sens, wire, announced>>

StepCases ==
  \/ Aside
  \/ \E t \in ScanTypes : scan_recv_cb(t) \/ ProcessAdv(t)
  \/ MSG_SCAN_LENGTH
  \/ FreeStart \/ AckStep
  \/ \E t \in SensorTypes : MSG_SENSOR_SAMPLE(t)
  \/ \E m \in 0 .. 2 : my_scan_set_config(m)
  \/ my_ble_handle \/ LoseCommand \/ LoseAck \/ my_lte_pwroff_handle

\* One call of tag_mac_scan_upload_data is a step of a round.
LEMMA RoundCases ==
  ASSUME UploadInv, NEW sc, tag_mac_scan_upload_data(sc)
  PROVE  RoundStep
  <1>0. "TAG" \in ScanTypes /\ "MAC" \in ScanTypes /\ Started("TAG") = "TAG_START"
        /\ Started("MAC") = "MAC_START"
    BY DEF ScanTypes, Started
  <1>1. up.st # "IDLE" => sens.st = "IDLE"
    BY RoundFacts
  <1>2. CASE up.st = "IDLE" /\ StartRound(IF Total("TAG") > 0 THEN "TAG" ELSE "MAC")
    <2>1. sens.st = "IDLE"
      BY <1>2 DEF tag_mac_scan_upload_data, ReturnsAtOnce, sensor_upload_busy
    <2>2. PICK t \in ScanTypes : StartRound(t)
      BY <1>0, <1>2
    <2> QED BY <1>2, <2>1, <2>2 DEF RoundStep
  <1>3. ASSUME NEW t \in ScanTypes, up.st = Started(t), SendNext(t) PROVE RoundStep
    BY <1>3 DEF RoundStep, SendNext
  <1>4. CASE up.st = "TAG_END" /\ StartRound("MAC")
    BY <1>0, <1>1, <1>4 DEF RoundStep
  <1>5. CASE up.st \in {"TAG_END", "MAC_END"} /\ RoundOver
    <2>1. sens.st = "IDLE" /\ sensor_upload_busy = FALSE
      BY <1>1, <1>5 DEF sensor_upload_busy
    <2>2. sensor_cached_upload_try_start(store, sensor_upload_busy, sens)
      BY <1>5 DEF RoundOver
    <2>3. sensor_cached_upload_try_start(store, FALSE, sens)
      BY <2>1, <2>2
    <2>4. /\ up' = [up EXCEPT !.st = "IDLE", !.seq = 0, !.flash = 0]
          /\ UNCHANGED <<table, announced>>
      BY <1>5 DEF RoundOver
    <2> QED BY <1>5, <2>1, <2>3, <2>4 DEF RoundStep
  <1> QED BY <1>0, <1>2, <1>3, <1>4, <1>5 DEF tag_mac_scan_upload_data

\* A call outside a round can only start one.
LEMMA FreeRound ==
  ASSUME UploadInv, NEW sc, tag_mac_scan_upload_data(sc), up.st = "IDLE",
         acks' = acks, Around
  PROVE  FreeStart
  <1>1. /\ sens.st = "IDLE" /\ StartRound(IF Total("TAG") > 0 THEN "TAG" ELSE "MAC")
    BY DEF tag_mac_scan_upload_data, ReturnsAtOnce, sensor_upload_busy
  <1>2. PICK t \in ScanTypes : StartRound(t)
    BY <1>1 DEF ScanTypes
  <1> QED BY <1>1, <1>2 DEF FreeStart

\* The timer and the wake-up message only use a free link.
LEMMA FreeCases ==
  ASSUME UploadInv, MSG_SCAN_UPLOAD \/ MSG_UPLOAD_WAKEUP
  PROVE  Aside \/ FreeStart
  <1>0. /\ scanner.state = "WAITING" <=> up.st # "IDLE"
        /\ \A ok : (StopScan(scanner, ok).state = "WAITING" <=> scanner.state = "WAITING")
    BY StopForm DEF UploadInv, ScanPausedIffUploading
  <1>1. CASE MSG_SCAN_UPLOAD
    <2>1. up.st = "IDLE" /\ UNCHANGED <<heard, acks, sensRsp, captured, got, reconfigs>>
      BY <1>0, <1>1 DEF MSG_SCAN_UPLOAD, RoundUnderWay, answers, bounds
    <2>2. PICK ok : \/ tag_mac_scan_upload_data(StopScan(scanner, ok))
                    \/ UNCHANGED <<table, store, up, sens, wire, announced>>
      BY <1>1 DEF MSG_SCAN_UPLOAD, scan_trigger_upload
    <2> QED BY <2>1, <2>2, FreeRound DEF Aside, Around
  <1>2. CASE MSG_UPLOAD_WAKEUP
    <2>1. UNCHANGED <<heard, acks, sensRsp, captured, got, reconfigs>>
      BY <1>2 DEF MSG_UPLOAD_WAKEUP, answers, bounds
    <2>2. PICK sc : /\ sc = scanner \/ \E ok : sc = StopScan(scanner, ok)
                    /\ \/ ~RoundUnderWay(sc) /\ tag_mac_scan_upload_data(sc)
                       \/ /\ UNCHANGED <<table, up, announced>>
                          /\ sensor_cached_upload_try_start(store,
                               sensor_upload_busy \/ up.st # "IDLE", sens)
      BY <1>2 DEF MSG_UPLOAD_WAKEUP
    <2>3. CASE ~RoundUnderWay(sc) /\ tag_mac_scan_upload_data(sc)
      <3>1. up.st = "IDLE"
        BY <1>0, <2>2, <2>3 DEF RoundUnderWay
      <3> QED BY <2>1, <2>3, <3>1, FreeRound DEF Around
    <2>4. CASE /\ UNCHANGED <<table, up, announced>>
               /\ sensor_cached_upload_try_start(store,
                    sensor_upload_busy \/ up.st # "IDLE", sens)
      <3>1. CASE sensor_upload_busy \/ up.st # "IDLE"
        <4>1. store' = store /\ sens' = sens /\ wire' = wire
          BY <2>4, <3>1 DEF sensor_cached_upload_try_start
        <4> QED BY <2>1, <2>4, <4>1 DEF Aside
      <3>2. CASE ~(sensor_upload_busy \/ up.st # "IDLE")
        <4>1. sensor_cached_upload_try_start(store, FALSE, sens)
          BY <2>4, <3>2
        <4>2. up.st = "IDLE" /\ sens.st = "IDLE"
          BY <3>2 DEF sensor_upload_busy
        <4> QED BY <2>1, <2>4, <4>1, <4>2 DEF FreeStart, Around
      <3> QED BY <3>1, <3>2
    <2> QED BY <2>2, <2>3, <2>4
  <1> QED BY <1>1, <1>2

\* An acknowledgement for the sensors moves their upload on, or nothing.
LEMMA SensorCases ==
  ASSUME UploadInv, MSG_SENSOR_LTE_ACK
  PROVE  AckStep
  <1>1. /\ acks # <<>> /\ acks' = Tail(acks) /\ Around
        /\ UNCHANGED <<up, table, announced>>
    BY DEF MSG_SENSOR_LTE_ACK, Around, upload, bounds
  <1>2. sens.st # "IDLE" => up.st = "IDLE"
    BY RoundFacts
  <1>3. InCdata => sens.type \in SensorTypes
    BY DEF UploadInv, ControlForm
  <1>4. CASE CdataAck
    <2>1. InCdata /\ sens.st # "IDLE" /\ up.st = "IDLE" /\ sens.type \in SensorTypes
      BY <1>2, <1>3, <1>4 DEF CdataAck, InCdata
    <2>2. CASE /\ sens.st = "CDATA_END"
               /\ sensor_cached_upload_try_start(Commit(store, sens.type),
                                                 up.st # "IDLE", IdleSens)
      <3>1. sensor_cached_upload_try_start(Commit(store, sens.type), FALSE, IdleSens)
        BY <2>1, <2>2
      <3> QED BY <1>1, <2>1, <3>1 DEF AckStep, SensorStep
    <2>3. CASE ~(sens.st = "CDATA_END")
      <3>1. \/ \E nx : /\ \/ sens.st = "CDATA_START" /\ nx = sens.next
                          \/ /\ sens.st = "CDATA_DATA" /\ nx = sens.next + 1
                             /\ sens.next < sens.total
                       /\ sensor_cdata_send_next_packet(nx)
            \/ SensorReset
            \/ /\ Send(Cmd(sens.type, "END", 0, <<>>))
               /\ sens' = [sens EXCEPT !.st = "CDATA_END"]
               /\ UNCHANGED store
        BY <1>4, <2>3 DEF CdataAck
      <3> QED BY <1>1, <2>1, <3>1 DEF AckStep, SensorStep
    <2> QED BY <1>4, <2>2, <2>3 DEF CdataAck
  <1>5. ASSUME NEW t \in SensorTypes, LiveAck(t) PROVE AckStep
    <2>1. sens.st # "IDLE" /\ ~InCdata
      BY <1>5 DEF LiveAck, InCdata
    <2>2. sensor_cached_upload_try_start(store, up.st # "IDLE", IdleSens)
      BY <1>5 DEF LiveAck
    <2>3. sensor_cached_upload_try_start(store, FALSE, IdleSens)
      BY <1>2, <2>1, <2>2
    <2> QED BY <1>1, <1>2, <2>1, <2>3 DEF AckStep, SensorStep
  <1>6. CASE Unexpected(sensRsp)
    BY <1>1, <1>6 DEF Unexpected, AckStep
  <1> QED BY <1>4, <1>5, <1>6 DEF MSG_SENSOR_LTE_ACK

\* Every step is one of these.
LEMMA CasesOfNext == UploadInv /\ [Next]_vars => StepCases
  <1> SUFFICES ASSUME UploadInv, [Next]_vars PROVE StepCases
    OBVIOUS
  <1>1. CASE \/ MSG_SCAN_INTERVAL \/ scan_length_timer_cb
             \/ my_lte_handle_power_on \/ my_scan_upload_on_lte_wakeup
    BY <1>1 DEF MSG_SCAN_INTERVAL, scan_length_timer_cb, my_lte_handle_power_on,
                my_scan_upload_on_lte_wakeup, StepCases, Aside, upload, answers, bounds
  <1>2. CASE MSG_UPLOAD_TAG_AND_MAC
    <2>1. acks # <<>> /\ acks' = Tail(acks) /\ Around
      BY <1>2 DEF MSG_UPLOAD_TAG_AND_MAC, Around, bounds
    <2>2. CASE tag_mac_scan_upload_data(scanner)
      BY <2>1, <2>2, RoundCases DEF AckStep, StepCases
    <2>3. CASE ~tag_mac_scan_upload_data(scanner)
      <3>1. UNCHANGED <<table, store, up, sens, wire, announced>>
        BY <1>2, <2>3 DEF MSG_UPLOAD_TAG_AND_MAC, upload
      <3> QED BY <2>1, <3>1 DEF AckStep, StepCases
    <2> QED BY <2>2, <2>3
  <1>3. CASE MSG_SCAN_UPLOAD \/ MSG_UPLOAD_WAKEUP
    BY <1>3, FreeCases DEF StepCases
  <1>4. CASE MSG_SENSOR_LTE_ACK
    BY <1>4, SensorCases DEF StepCases
  <1>5. CASE UNCHANGED vars
    BY <1>5 DEF vars, StepCases, Aside
  <1> QED BY <1>1, <1>2, <1>3, <1>4, <1>5 DEF Next, StepCases

-----------------------------------------------------------------------------
(* Captures, tables and store.                                             *)

DataInv ==
  /\ heard \in [ScanTypes -> 0 .. HeardMax]
  /\ captured \in [Types -> Nat] /\ \A t \in Types : captured[t] <= MaxRec[t]
  /\ \A t \in ScanTypes : captured[t] + heard[t] <= MaxRec[t]
  /\ table \in [ScanTypes -> Seq(Nat)]
  /\ \A t \in ScanTypes : TableOK(table[t], captured[t], TableMax[t])
  /\ StoreOK(store, table, captured)

\* Emptying tables takes nothing from the store.
LEMMA EmptiedTables ==
  ASSUME NEW st, NEW tab, NEW tab2, NEW cap, StoreOK(st, tab, cap),
         \A t \in ScanTypes : tab2[t] = tab[t] \/ tab2[t] = <<>>
  PROVE  StoreOK(st, tab2, cap)
  <1>1. ASSUME NEW t \in ScanTypes PROVE Older(st[t].q, tab2[t])
    <2>1. CASE tab2[t] = tab[t]
      BY <2>1 DEF StoreOK
    <2>2. CASE tab2[t] = <<>>
      <3>1. Len(tab2[t]) = 0
        BY <2>2
      <3> QED BY <3>1 DEF Older
    <2> QED BY <2>1, <2>2
  <1> QED BY <1>1 DEF StoreOK

\* An empty table is a table.
LEMMA EmptyTableOK ==
  ASSUME NEW c, NEW max \in Nat
  PROVE  TableOK(<<>>, c, max)
  <1>1. <<>> \in Seq(Nat) /\ Len(<<>>) = 0
    OBVIOUS
  <1> QED BY <1>1 DEF TableOK

\* The room of a table.
LEMMA TableRoom ==
  ASSUME NEW t \in ScanTypes
  PROVE  TableMax[t] \in Nat /\ TableMax[t] >= 1 /\ t \in Types
  BY BoundAssumption DEF Types

\* Steps that leave captures and tables alone.
LEMMA SameTables ==
  ASSUME DataInv, UNCHANGED <<heard, captured, table>>, StoreOK(store', table, captured)
  PROVE  DataInv'
  BY DEF DataInv

\* sensor_cached_upload_try_start opens or closes a session.
LEMMA TryStartOK ==
  ASSUME NEW st, StoreForm(st), NEW tab, NEW cap, StoreOK(st, tab, cap),
         NEW busy, NEW idle, sensor_cached_upload_try_start(st, busy, idle)
  PROVE  StoreOK(store', tab, cap)
  <1> DEFINE waiting == {t \in SensorTypes : Pending(st, t) > 0}
             t == IF "TH" \in waiting THEN "TH" ELSE "BP"
  <1>1. t \in Types
    BY DEF SensorTypes, Types
  <1>2. store' = st \/ store' = UploadBegin(st, t) \/ store' = Rewind(st, t)
    BY DEF sensor_cached_upload_try_start
  <1> HIDE DEF t, waiting
  <1> QED BY <1>1, <1>2, SessionOK

\* A round: its session opens, is read and is committed.
LEMMA RoundData ==
  ASSUME UploadInv, DataInv, RoundStep, Around
  PROVE  DataInv'
  <1>0. StoreForm(store) /\ StoreOK(store, table, captured) /\ UNCHANGED <<heard, captured>>
        /\ \A t \in ScanTypes : t \in Types
    BY RoundFacts DEF DataInv, Around, Types
  <1>1. ASSUME NEW t \in ScanTypes, StartRound(t) PROVE DataInv'
    <2>1. store' = UploadBegin(store, t) /\ table' = table
      BY <1>1 DEF StartRound
    <2> QED BY <1>0, <2>1, SessionOK, SameTables
  <1>2. ASSUME NEW t \in ScanTypes, SendStored(t) PROVE DataInv'
    <2>1. store' = ReadMore(store, t, 1) /\ table' = table /\ Readable(store, t) > 0
      BY <1>2 DEF SendStored
    <2>2. RegionOK(store[t], captured[t])
      BY <1>0 DEF StoreOK
    <2>3. Readable(store, t) \in Int
      BY <2>2 DEF RegionOK, Readable
    <2>4. 1 \in 0 .. Readable(store, t)
      BY <2>1, <2>3
    <2> QED BY <1>0, <2>1, <2>4, ReadOK, SameTables
  <1>3. ASSUME NEW t \in ScanTypes, SendEntry(t) PROVE DataInv'
    BY <1>0, <1>3, SameTables DEF SendEntry
  <1>4. ASSUME NEW t \in ScanTypes, EndRound(t) PROVE DataInv'
    <2>1. store' = Commit(store, t) /\ table' = [table EXCEPT ![t] = <<>>]
      BY <1>4 DEF EndRound
    <2>2. table \in [ScanTypes -> Seq(Nat)] /\ <<>> \in Seq(Nat)
      BY DEF DataInv
    <2>3. /\ table' \in [ScanTypes -> Seq(Nat)] /\ table'[t] = <<>>
          /\ \A u \in ScanTypes : u # t => table'[u] = table[u]
      BY <2>1, <2>2
    <2>4. StoreOK(store', table, captured)
      BY <1>0, <2>1, CommitOK
    <2>5. StoreOK(store', table', captured)
      BY <2>3, <2>4, EmptiedTables
    <2>6. \A u \in ScanTypes : TableOK(table'[u], captured[u], TableMax[u])
      BY <2>3, EmptyTableOK, TableRoom DEF DataInv
    <2> QED BY <1>0, <2>3, <2>5, <2>6 DEF DataInv
  <1>5. CASE sensor_cached_upload_try_start(store, FALSE, sens) /\ UNCHANGED table
    BY <1>0, <1>5, TryStartOK, SameTables
  <1> QED BY <1>1, <1>2, <1>3, <1>4, <1>5 DEF RoundStep

\* A packet is read from the session it belongs to.
LEMMA PacketData ==
  ASSUME UploadInv, DataInv, sens.type \in SensorTypes,
         NEW nx, sensor_cdata_send_next_packet(nx)
  PROVE  StoreOK(store', table, captured)
  <1> DEFINE t == sens.type
             a == Readable(store, t)
             most == IF a < PacketMax THEN a ELSE PacketMax
  <1>0. StoreForm(store) /\ StoreOK(store, table, captured) /\ t \in Types
    BY RoundFacts DEF DataInv, Types
  <1>1. RegionOK(store[t], captured[t])
    BY <1>0 DEF StoreOK
  <1>2. a \in Nat /\ PacketMax \in Nat
    BY <1>1, BoundAssumption DEF RegionOK, Readable
  <1>3. \/ SensorReset
        \/ \E n \in 0 .. most : store' = ReadMore(store, t, n)
    <2>1. most \in 0 .. most
      <3> HIDE DEF a
      <3> QED BY <1>2
    <2>2. PICK n \in (IF Faults THEN 0 .. most ELSE {most}) :
             SensorReset \/ store' = ReadMore(store, t, n)
      BY DEF sensor_cdata_send_next_packet
    <2> QED BY <2>1, <2>2
  <1>4. CASE SensorReset
    <2>1. store' = Rewind(store, t) \/ store' = store
      BY <1>4 DEF SensorReset, ResetStore
    <2> QED BY <1>0, <2>1, SessionOK
  <1>5. ASSUME NEW n \in 0 .. most, store' = ReadMore(store, t, n)
        PROVE  StoreOK(store', table, captured)
    <2>1. n \in 0 .. Readable(store, t)
      <3>1. n \in 0 .. a
        <4> HIDE DEF a
        <4> QED BY <1>2
      <3> QED BY <3>1
    <2> QED BY <1>0, <1>5, <2>1, ReadOK
  <1> QED BY <1>3, <1>4, <1>5

\* A sensor upload: its session opens, is read, rewound or committed.
LEMMA SensorData ==
  ASSUME UploadInv, DataInv, SensorStep, Around
  PROVE  DataInv'
  <1>0. /\ StoreForm(store) /\ StoreOK(store, table, captured)
        /\ UNCHANGED <<heard, captured, table>>
    BY RoundFacts DEF DataInv, Around, SensorStep
  <1> SUFFICES StoreOK(store', table, captured)
    BY <1>0, SameTables
  <1>1. ASSUME NEW nx, sensor_cdata_send_next_packet(nx), sens.type \in SensorTypes
        PROVE  StoreOK(store', table, captured)
    BY <1>1, PacketData
  <1>2. CASE SensorReset /\ sens.type \in SensorTypes
    <2>1. store' = Rewind(store, sens.type) \/ store' = store
      BY <1>2 DEF SensorReset, ResetStore
    <2> QED BY <1>0, <1>2, <2>1, SessionOK DEF Types
  <1>3. CASE /\ sens.type \in SensorTypes
             /\ sensor_cached_upload_try_start(Commit(store, sens.type), FALSE, IdleSens)
    <2>1. sens.type \in Types
      BY <1>3 DEF Types
    <2>2. StoreForm(Commit(store, sens.type)) /\ StoreOK(Commit(store, sens.type), table, captured)
      BY <1>0, <2>1, CommitSessions, CommitOK
    <2> QED BY <1>3, <2>2, TryStartOK
  <1>4. CASE sensor_cached_upload_try_start(store, FALSE, IdleSens)
    BY <1>0, <1>4, TryStartOK
  <1>5. CASE UNCHANGED store
    BY <1>0, <1>5
  <1> QED BY <1>1, <1>2, <1>3, <1>4, <1>5 DEF SensorStep

\* One more capture of type t.
LEMMA Counted ==
  ASSUME DataInv, NEW t \in Types, captured' = [captured EXCEPT ![t] = @ + 1]
  PROVE  /\ captured \in [Types -> Nat] /\ captured' \in [Types -> Nat]
         /\ captured'[t] = captured[t] + 1 /\ captured[t] \in Nat
         /\ \A u \in Types : u # t => captured'[u] = captured[u]
         /\ \A u \in Types : /\ captured[u] \in Nat /\ captured'[u] \in Nat
                             /\ captured[u] <= captured'[u]
  BY DEF DataInv

\* An advertisement reaches its table: the newest capture of its type.
LEMMA ProcessAdvData ==
  ASSUME UploadInv, DataInv, NEW t \in ScanTypes, ProcessAdv(t)
  PROVE  DataInv'
  <1> DEFINE c == captured[t]
             r == c + 1
             tab == table[t]
             l == Len(tab)
             tab2 == table'[t]
             max == TableMax[t]
  <1>0. /\ StoreForm(store) /\ StoreOK(store, table, captured) /\ t \in Types
        /\ max \in Nat /\ max >= 1 /\ MaxRec[t] \in Nat
    BY RoundFacts, TableRoom, BoundAssumption DEF DataInv
  <1>1. /\ heard[t] > 0 /\ heard' = [heard EXCEPT ![t] = @ - 1]
        /\ captured' = [captured EXCEPT ![t] = @ + 1]
    BY DEF ProcessAdv
  <1>2. /\ captured' \in [Types -> Nat] /\ captured'[t] = r /\ c \in Nat
        /\ \A u \in Types : u # t => captured'[u] = captured[u]
        /\ \A u \in Types : /\ captured[u] \in Nat /\ captured'[u] \in Nat
                            /\ captured[u] <= captured'[u]
    BY <1>0, <1>1, Counted
  <1>3. /\ heard \in [ScanTypes -> 0 .. HeardMax] /\ HeardMax \in Nat
        /\ c + heard[t] <= MaxRec[t]
    BY BoundAssumption DEF DataInv
  <1>4. /\ heard' \in [ScanTypes -> 0 .. HeardMax]
        /\ heard'[t] = heard[t] - 1 /\ heard[t] \in Nat
        /\ \A u \in ScanTypes : u # t => heard'[u] = heard[u]
    <2>1. heard[t] \in 0 .. HeardMax /\ heard[t] - 1 \in 0 .. HeardMax
      BY <1>1, <1>3
    <2> QED BY <1>1, <1>3, <2>1
  <1>5. /\ \A u \in Types : captured'[u] <= MaxRec[u]
        /\ \A u \in ScanTypes : captured'[u] + heard'[u] <= MaxRec[u]
    <2>1. captured'[t] <= MaxRec[t] /\ captured'[t] + heard'[t] <= MaxRec[t]
      <3> HIDE DEF c
      <3> QED BY <1>0, <1>1, <1>2, <1>3, <1>4
    <2>2. \A u \in ScanTypes : u \in Types
      BY DEF Types
    <2> QED BY <1>2, <1>4, <2>1, <2>2 DEF DataInv
  <1>6. /\ table \in [ScanTypes -> Seq(Nat)] /\ tab \in Seq(Nat) /\ l \in Nat /\ l <= max
        /\ \A i \in 1 .. l : tab[i] \in 1 .. c
        /\ \A i, j \in 1 .. l : i # j => tab[i] # tab[j]
    BY DEF DataInv, TableOK
  <1>7. StoreOK(store, table, captured')
    BY <1>0, <1>2, MoreCaptured
  <1>8. r \in Nat /\ r > c /\ \A x \in 1 .. c : x \in 1 .. r /\ x < r /\ x # r
    BY <1>2
  <1>9. InOrder(store[t].q) /\ Older(store[t].q, tab) /\ RegionOK(store[t], c)
    BY <1>0 DEF StoreOK
  <1> SUFFICES ASSUME table' \in [ScanTypes -> Seq(Nat)],
                      \A u \in ScanTypes : u # t => table'[u] = table[u]
               PROVE  TableOK(tab2, r, max) /\ StoreOK(store', table', captured')
    <2>1. /\ table' \in [ScanTypes -> Seq(Nat)]
          /\ \A u \in ScanTypes : u # t => table'[u] = table[u]
      <3>1. \A i \in DOMAIN tab : [tab EXCEPT ![i] = r] \in Seq(Nat)
        BY <1>6, <1>8
      <3>2. Append(tab, r) \in Seq(Nat) /\ <<r>> \in Seq(Nat)
        BY <1>6, <1>8
      <3>3. \/ \E i \in DOMAIN tab : table' = [table EXCEPT ![t] = [tab EXCEPT ![i] = r]]
            \/ table' = [table EXCEPT ![t] = Append(tab, r)]
            \/ table' = [table EXCEPT ![t] = <<r>>]
            \/ table' = table
        BY DEF ProcessAdv, UpdateKnown, AddNew, AddToFull, NewRec
      <3> QED BY <1>6, <3>1, <3>2, <3>3
    <2> HIDE DEF c, r, tab, l
    <2>2. ASSUME TableOK(tab2, r, max), StoreOK(store', table', captured') PROVE DataInv'
      <3>1. \A u \in ScanTypes : TableOK(table'[u], captured'[u], TableMax[u])
        BY <1>2, <2>1, <2>2 DEF DataInv, Types
      <3> QED BY <1>2, <1>4, <1>5, <2>1, <2>2, <3>1 DEF DataInv
    <2> QED BY <2>1, <2>2
  <1>10. ASSUME store' = store, Older(store[t].q, tab2) PROVE StoreOK(store', table', captured')
    BY <1>7, <1>10 DEF StoreOK
  <1> HIDE DEF c, r, l
  <1>11. CASE UpdateKnown(t)
    <2>1. PICK i \in DOMAIN tab : table' = [table EXCEPT ![t][i] = NewRec(t)]
      BY <1>11 DEF UpdateKnown
    <2>2. tab2 = [tab EXCEPT ![i] = r]
      BY <1>6, <2>1 DEF NewRec, r, c
    <2>3. DOMAIN tab = 1 .. l
      BY <1>6 DEF l
    <2> HIDE DEF tab, tab2
    <2>4. /\ tab2 \in Seq(Nat) /\ Len(tab2) = l /\ i \in 1 .. l /\ tab2[i] = r
          /\ \A j \in 1 .. l : j # i => tab2[j] = tab[j]
      <3>1. tab \in [1 .. l -> Nat]
        BY <1>6, <2>3
      <3> QED BY <1>6, <1>8, <2>2, <2>3, <3>1, ExceptSeq DEF l
    <2>5. \A j \in 1 .. l : tab2[j] \in 1 .. r
      <3>1. r \in 1 .. r
        BY <1>2, <1>8 DEF r
      <3> QED BY <1>6, <1>8, <2>4, <3>1
    <2>6. ASSUME NEW j \in 1 .. l, NEW k \in 1 .. l, j # k PROVE tab2[j] # tab2[k]
      <3>1. tab[j] \in 1 .. c /\ tab[k] \in 1 .. c /\ tab[j] # tab[k]
        BY <1>6, <2>6
      <3>2. tab[j] # r /\ tab[k] # r
        BY <1>8, <3>1
      <3>3. CASE j = i
        BY <2>4, <2>6, <3>2, <3>3
      <3>4. CASE j # i
        BY <2>4, <2>6, <3>1, <3>2, <3>4
      <3> QED BY <3>3, <3>4
    <2>7. TableOK(tab2, r, max)
      BY <1>6, <2>4, <2>5, <2>6 DEF TableOK
    <2>8. Older(store[t].q, tab2)
      BY <1>8, <1>9, <2>4 DEF Older, RegionOK, l
    <2> QED BY <1>10, <1>11, <2>7, <2>8 DEF UpdateKnown, tab2
  <1>12. CASE AddNew(t)
    <2>1. l < max /\ store' = store /\ tab2 = Append(tab, r)
      BY <1>6, <1>12 DEF AddNew, NewRec, r, c, l
    <2> HIDE DEF tab, tab2
    <2>2. /\ tab2 \in Seq(Nat) /\ Len(tab2) = l + 1 /\ tab2[l + 1] = r
          /\ \A j \in 1 .. l : tab2[j] = tab[j]
      BY <1>6, <1>8, <2>1, AppendProperties DEF l
    <2>3. \A j \in 1 .. l + 1 : j \in 1 .. l \/ j = l + 1
      BY <1>6
    <2>4. \A j \in 1 .. l + 1 : tab2[j] \in 1 .. r
      <3>1. r \in 1 .. r
        BY <1>2, <1>8 DEF r
      <3> QED BY <1>6, <1>8, <2>2, <2>3, <3>1
    <2>5. \A j, k \in 1 .. l + 1 : j # k => tab2[j] # tab2[k]
      BY <1>6, <1>8, <2>2, <2>3
    <2>6. l + 1 <= max
      BY <1>0, <1>6, <2>1
    <2>7. TableOK(tab2, r, max)
      BY <2>2, <2>4, <2>5, <2>6 DEF TableOK
    <2>8. Older(store[t].q, tab2)
      BY <1>8, <1>9, <2>2, <2>3 DEF Older, RegionOK, l
    <2> QED BY <1>10, <2>1, <2>7, <2>8 DEF tab2
  <1>13. CASE AddToFull(t) /\ t # "TAG"
    <2>1. table' = table /\ store' = store
      BY <1>13 DEF AddToFull
    <2>2. TableOK(tab2, r, max)
      BY <1>6, <1>8, <2>1 DEF TableOK, l
    <2> QED BY <1>9, <1>10, <2>1, <2>2
  <1>14. CASE AddToFull(t) /\ t = "TAG"
    <2>1. tab2 = <<r>> /\ store' = Push(store, t, TimeOrder(table[t]))
      BY <1>6, <1>14 DEF AddToFull, FlushTable, NewRec, r, c
    <2>2. tab2 \in Seq(Nat) /\ Len(tab2) = 1 /\ tab2[1] = r /\ r \in 1 .. r
      BY <1>2, <1>8, <2>1 DEF r
    <2> HIDE DEF tab2
    <2>3. \A j \in 1 .. Len(tab2) : j = 1
      BY <2>2
    <2>4. TableOK(tab2, r, max)
      BY <1>0, <2>2, <2>3 DEF TableOK
    <2>5. StoreOK(store', table', captured)
      <3>1. \A j \in 1 .. Len(tab2) : tab2[j] \in Nat /\ tab2[j] > captured[t]
        BY <1>8, <2>2, <2>3 DEF c
      <3>2. TableOK(table[t], captured[t], max) /\ captured[t] \in Nat
        BY <1>2 DEF DataInv, c
      <3> QED BY <1>0, <2>1, <3>1, <3>2, FlushOK DEF tab2
    <2>6. StoreOK(store', table', captured')
      BY <1>2, <2>5, MoreCaptured
    <2> QED BY <2>4, <2>6
  <1> QED BY <1>11, <1>12, <1>13, <1>14 DEF ProcessAdv

\* Both tables go to the store.
LEMMA FlushBothOK ==
  ASSUME UploadInv, DataInv
  PROVE  /\ StoreForm(FlushTables(store))
         /\ StoreOK(FlushTables(store), EmptyTable, captured)
  <1> DEFINE tab1 == [table EXCEPT !["TAG"] = <<>>]
             st1 == Push(store, "TAG", TimeOrder(table["TAG"]))
             st2 == Push(st1, "MAC", TimeOrder(table["MAC"]))
  <1>0. /\ StoreForm(store) /\ StoreOK(store, table, captured)
        /\ "TAG" \in ScanTypes /\ "MAC" \in ScanTypes /\ "TAG" \in Types /\ "MAC" \in Types
        /\ \A t \in ScanTypes : t = "TAG" \/ t = "MAC"
    BY RoundFacts DEF DataInv, Types, ScanTypes
  <1>1. \A t \in ScanTypes : TableOK(table[t], captured[t], TableMax[t]) /\ captured[t] \in Nat
    BY DEF DataInv, Types
  <1>2. table \in [ScanTypes -> Seq(Nat)]
    BY DEF DataInv
  <1>3. /\ tab1["TAG"] = <<>> /\ \A u \in ScanTypes : u # "TAG" => tab1[u] = table[u]
    BY <1>0, <1>2
  <1>4. FlushTables(store) = st2
    BY DEF FlushTables, FlushTable
  <1>5. EmptyTable["MAC"] = <<>> /\ EmptyTable["TAG"] = <<>>
    BY <1>0 DEF EmptyTable
  <1>6. \A tab : tab = <<>> => \A j \in 1 .. Len(tab) : FALSE
    OBVIOUS
  <1>7. StoreForm(st1) /\ StoreForm(st2)
    BY <1>0, PushSessions
  <1> HIDE DEF tab1
  <1>8. StoreOK(st1, tab1, captured)
    BY <1>0, <1>1, <1>3, <1>6, FlushOK
  <1>9. TableOK(tab1["MAC"], captured["MAC"], TableMax["MAC"]) /\ tab1["MAC"] = table["MAC"]
    BY <1>0, <1>1, <1>3
  <1>10. \A u \in ScanTypes : u # "MAC" => EmptyTable[u] = tab1[u]
    BY <1>0, <1>3, <1>5
  <1> HIDE DEF st1
  <1>11. StoreOK(st2, EmptyTable, captured)
    <2>1. StoreOK(Push(st1, "MAC", TimeOrder(tab1["MAC"])), EmptyTable, captured)
      BY <1>0, <1>1, <1>5, <1>6, <1>7, <1>8, <1>9, <1>10, FlushOK
    <2> QED BY <1>9, <2>1
  <1> QED BY <1>4, <1>7, <1>11

\* Steps that empty the tables.
LEMMA NoTables ==
  ASSUME DataInv, UNCHANGED <<heard, captured>>, table' = EmptyTable,
         StoreOK(store', EmptyTable, captured)
  PROVE  DataInv'
  <1>1. \A t \in ScanTypes : EmptyTable[t] = <<>>
    BY DEF EmptyTable
  <1>2. EmptyTable \in [ScanTypes -> Seq(Nat)]
    BY DEF EmptyTable
  <1>3. \A t \in ScanTypes : TableOK(EmptyTable[t], captured[t], TableMax[t])
    BY <1>1, EmptyTableOK, TableRoom
  <1> QED BY <1>2, <1>3 DEF DataInv

\* Reconfiguration: everything is in the store, no session is open.
LEMMA SetConfigData ==
  ASSUME UploadInv, DataInv, NEW m, my_scan_set_config(m)
  PROVE  DataInv'
  <1> DEFINE st1 == FlushTables(store)
             st2 == Rewind(Rewind(st1, "TAG"), "MAC")
  <1>0. "TAG" \in Types /\ "MAC" \in Types
    BY DEF Types, ScanTypes
  <1>1. StoreForm(st1) /\ StoreOK(st1, EmptyTable, captured)
    BY FlushBothOK
  <1>2. /\ UNCHANGED <<heard, captured>> /\ table' = EmptyTable
        /\ store' = ResetStore(st2, TRUE)
    BY DEF my_scan_set_config
  <1> HIDE DEF st1
  <1>3. StoreForm(st2) /\ StoreOK(st2, EmptyTable, captured)
    BY <1>0, <1>1, RewindSessions, SessionOK
  <1> HIDE DEF st2
  <1>4. \/ store' = st2
        \/ sens.type \in Types /\ store' = Rewind(st2, sens.type)
    BY <1>2 DEF ResetStore, Types
  <1>5. StoreOK(store', EmptyTable, captured)
    BY <1>3, <1>4, SessionOK
  <1> QED BY <1>2, <1>5, NoTables

\* A sample is sent at once, or stored.
LEMMA SampleData ==
  ASSUME UploadInv, DataInv, NEW t \in SensorTypes, MSG_SENSOR_SAMPLE(t)
  PROVE  DataInv'
  <1> DEFINE c == captured[t]
             r == [q |-> store[t].q \o <<c + 1>>, given |-> store[t].given,
                   open |-> store[t].open, lim |-> store[t].lim]
  <1>0. /\ StoreForm(store) /\ StoreOK(store, table, captured) /\ t \in Types
        /\ t \notin ScanTypes /\ MaxRec[t] \in Nat /\ \A u \in ScanTypes : u \in Types /\ u # t
    BY RoundFacts, BoundAssumption DEF DataInv, Types, ScanTypes, SensorTypes
  <1>1. /\ captured[t] < MaxRec[t] /\ captured' = [captured EXCEPT ![t] = @ + 1]
        /\ UNCHANGED <<heard, table>>
        /\ store' = store \/ store' = Push(store, t, <<NewRec(t)>>)
    BY DEF MSG_SENSOR_SAMPLE, upload
  <1>2. /\ captured' \in [Types -> Nat] /\ captured'[t] = c + 1 /\ c \in Nat
        /\ \A u \in Types : u # t => captured'[u] = captured[u]
        /\ \A u \in Types : /\ captured[u] \in Nat /\ captured'[u] \in Nat
                            /\ captured[u] <= captured'[u]
    BY <1>0, <1>1, Counted
  <1>3. StoreOK(store, table, captured')
    BY <1>0, <1>2, MoreCaptured
  <1>4. /\ \A u \in Types : captured'[u] <= MaxRec[u]
        /\ \A u \in ScanTypes : captured'[u] + heard'[u] <= MaxRec[u]
        /\ \A u \in ScanTypes : TableOK(table'[u], captured'[u], TableMax[u])
    <2>1. captured'[t] <= MaxRec[t]
      BY <1>0, <1>1, <1>2
    <2> QED BY <1>0, <1>1, <1>2, <2>1 DEF DataInv
  <1>5. ASSUME store' = Push(store, t, <<NewRec(t)>>) PROVE StoreOK(store', table, captured')
    <2>1. Became(store', store, t, r)
      BY <1>0, <1>5, RegionAfterPush DEF NewRec
    <2>2. RegionOK(store[t], captured'[t])
      BY <1>0, <1>3 DEF StoreOK
    <2>3. RegionOK(r, captured'[t])
      <3> DEFINE qq == store[t].q
                 P == qq \o <<c + 1>>
      <3>1. qq \in Seq(Nat) /\ Len(qq) \in Nat /\ \A i \in 1 .. Len(qq) : qq[i] \in 1 .. c + 1
        BY <1>2, <2>2 DEF RegionOK
      <3>2. r.q = P /\ r.given = store[t].given /\ r.open = store[t].open /\ r.lim = store[t].lim
        OBVIOUS
      <3>3. store[t].lim \in 0 .. Len(qq)
        BY <2>2 DEF RegionOK
      <3> HIDE DEF qq, r, c
      <3>4. /\ P \in Seq(Nat) /\ Len(P) = Len(qq) + 1
            /\ \A i \in 1 .. Len(qq) : P[i] = qq[i]
            /\ P[Len(qq) + 1] = c + 1
        <4>1. c + 1 \in Nat /\ <<c + 1>> \in Seq(Nat) /\ Len(<<c + 1>>) = 1 /\ <<c + 1>>[1] = c + 1
          BY <1>2
        <4> QED BY <3>1, <4>1, ConcatProperties
      <3> HIDE DEF P
      <3>5. \A i \in 1 .. Len(P) : i \in 1 .. Len(qq) \/ i = Len(qq) + 1
        BY <3>1, <3>4
      <3>6. c + 1 \in 1 .. c + 1
        BY <1>2
      <3>7. \A i \in 1 .. Len(P) : P[i] \in 1 .. c + 1
        BY <3>1, <3>4, <3>5, <3>6
      <3>8. store[t].lim \in 0 .. Len(P)
        BY <3>1, <3>3, <3>4
      <3> QED BY <1>2, <2>2, <3>2, <3>4, <3>7, <3>8 DEF RegionOK
    <2> QED BY <1>0, <1>3, <2>1, <2>3, RegionReplaced
  <1>6. StoreOK(store', table', captured')
    BY <1>1, <1>3, <1>5
  <1> QED BY <1>1, <1>2, <1>4, <1>6 DEF DataInv

\* An advertisement is heard.
LEMMA HeardData ==
  ASSUME DataInv, NEW t \in ScanTypes, scan_recv_cb(t)
  PROVE  DataInv'
  <1>1. /\ heard[t] < HeardMax /\ captured[t] + heard[t] < MaxRec[t]
        /\ heard' = [heard EXCEPT ![t] = @ + 1] /\ UNCHANGED <<captured, table, store>>
    BY DEF scan_recv_cb, upload
  <1>2. /\ heard \in [ScanTypes -> 0 .. HeardMax] /\ HeardMax \in Nat /\ MaxRec[t] \in Nat
        /\ captured[t] \in Nat
    BY BoundAssumption DEF DataInv, Types
  <1>3. heard[t] + 1 \in 0 .. HeardMax /\ captured[t] + (heard[t] + 1) <= MaxRec[t]
    BY <1>1, <1>2
  <1>4. /\ heard' \in [ScanTypes -> 0 .. HeardMax] /\ heard'[t] = heard[t] + 1
        /\ \A u \in ScanTypes : u # t => heard'[u] = heard[u]
    BY <1>1, <1>2, <1>3
  <1>5. \A u \in ScanTypes : captured[u] + heard'[u] <= MaxRec[u]
    BY <1>3, <1>4 DEF DataInv
  <1> QED BY <1>1, <1>4, <1>5 DEF DataInv

\* Init.
LEMMA InitData == Init => DataInv
  <1> SUFFICES ASSUME Init PROVE DataInv
    OBVIOUS
  <1>0. HeardMax \in Nat /\ \A t \in Types : MaxRec[t] \in Nat
    BY BoundAssumption
  <1>1. /\ heard = [t \in ScanTypes |-> 0] /\ table = EmptyTable /\ store = EmptyStore
        /\ captured = [t \in Types |-> 0]
    BY DEF Init
  <1>2. /\ heard \in [ScanTypes -> 0 .. HeardMax] /\ captured \in [Types -> Nat]
        /\ \A t \in Types : captured[t] <= MaxRec[t]
        /\ \A t \in ScanTypes : captured[t] + heard[t] <= MaxRec[t]
    BY <1>0, <1>1 DEF Types
  <1>3. /\ \A t \in ScanTypes : table[t] = <<>>
        /\ table \in [ScanTypes -> Seq(Nat)]
    BY <1>1 DEF EmptyTable
  <1>4. \A t \in ScanTypes : TableOK(table[t], captured[t], TableMax[t])
    BY <1>3, EmptyTableOK, TableRoom
  <1>5. \A t \in Types : store[t] = [q |-> <<>>, given |-> 0, open |-> FALSE, lim |-> 0]
    BY <1>1 DEF EmptyStore
  <1>6. <<>> \in Seq(Nat) /\ Len(<<>>) = 0
    OBVIOUS
  <1>7. ASSUME NEW t \in Types PROVE RegionOK(store[t], captured[t])
    <2>1. /\ store[t].q = <<>> /\ store[t].given = 0 /\ store[t].open = FALSE
          /\ store[t].lim = 0
      BY <1>5
    <2> DEFINE q == store[t].q
    <2>2. q \in Seq(Nat) /\ Len(q) = 0
      BY <1>6, <2>1
    <2> HIDE DEF q
    <2>3. /\ \A i \in 1 .. Len(q) : q[i] \in 1 .. captured[t]
          /\ 0 \in 0 .. Len(q) /\ 0 \in 0 .. 0
      BY <2>2
    <2> QED BY <2>1, <2>2, <2>3 DEF RegionOK, q
  <1>8. \A t \in ScanTypes : InOrder(store[t].q) /\ Older(store[t].q, table[t])
    BY <1>5, <1>6 DEF InOrder, Older, Types
  <1> QED BY <1>2, <1>3, <1>4, <1>7, <1>8 DEF DataInv, StoreOK

\* Every step keeps the tables and the store in order.
LEMMA NextData == UploadInv /\ DataInv /\ [Next]_vars => DataInv'
  <1> SUFFICES ASSUME UploadInv, DataInv, StepCases PROVE DataInv'
    BY CasesOfNext
  <1>1. CASE Aside \/ my_ble_handle \/ LoseCommand \/ LoseAck \/ my_lte_pwroff_handle
    <2>1. UNCHANGED <<heard, captured, table, store>>
      BY <1>1 DEF Aside, my_ble_handle, LoseCommand, LoseAck, my_lte_pwroff_handle, upload
    <2> QED BY <2>1 DEF DataInv
  <1>2. ASSUME NEW t \in ScanTypes, scan_recv_cb(t) \/ ProcessAdv(t) PROVE DataInv'
    BY <1>2, HeardData, ProcessAdvData
  <1>3. CASE MSG_SCAN_LENGTH
    <2>1. /\ UNCHANGED <<heard, captured>> /\ table' = EmptyTable
          /\ store' = FlushTables(store)
      BY <1>3 DEF MSG_SCAN_LENGTH
    <2> QED BY <2>1, FlushBothOK, NoTables
  <1>4. CASE FreeStart
    <2>1. UNCHANGED <<heard, captured>> /\ StoreForm(store) /\ StoreOK(store, table, captured)
      BY <1>4, RoundFacts DEF FreeStart, Around, DataInv
    <2>2. ASSUME NEW t \in ScanTypes, StartRound(t) PROVE DataInv'
      BY <2>1, <2>2, SessionOK, SameTables DEF StartRound, Types
    <2>3. ASSUME sensor_cached_upload_try_start(store, FALSE, sens), table' = table PROVE DataInv'
      BY <2>1, <2>3, TryStartOK, SameTables
    <2> QED BY <1>4, <2>2, <2>3 DEF FreeStart
  <1>5. CASE AckStep
    <2>1. Around
      BY <1>5 DEF AckStep
    <2>2. CASE UNCHANGED <<table, store, up, sens, wire, announced>>
      BY <2>1, <2>2 DEF Around, DataInv
    <2> QED BY <1>5, <2>1, <2>2, RoundData, SensorData DEF AckStep
  <1>6. ASSUME NEW t \in SensorTypes, MSG_SENSOR_SAMPLE(t) PROVE DataInv'
    BY <1>6, SampleData
  <1>7. ASSUME NEW m \in 0 .. 2, my_scan_set_config(m) PROVE DataInv'
    BY <1>7, SetConfigData
  <1> QED BY <1>1, <1>2, <1>3, <1>4, <1>5, <1>6, <1>7 DEF StepCases

\* Stored scan results are in time order: each flush (tag_table_flush_to_flash
\* and its MAC counterpart) sorts its table, and what is captured before a
\* flush is never stored after it.
THEOREM ScanResultsStayInTimeOrder == Spec => []StoredInTimeOrder
PROOF
  <1>1. DataInv => StoredInTimeOrder
    BY DEF DataInv, StoreOK, InOrder, StoredInTimeOrder
  <1> QED BY <1>1, InitInv, NextInv, InitData, NextData, PTL DEF Spec

-----------------------------------------------------------------------------
(* Commands, acknowledgements and what the 4G module has.                  *)

Command ==
  {c \in [type : Types, kind : {"START", "DATA", "END", "LIVE"}, n : Int, recs : Seq(Nat)] :
     \A i \in 1 .. Len(c.recs) : c.recs[i] \in 0 .. MaxRec[c.type]}

UpTyped(u) == u.seq \in Nat /\ u.flash \in 0 .. u.seq /\ u.snap \in Nat
SensTyped(s) == /\ s.type \in SensorTypes \cup {"NONE"}
                /\ s.total \in Nat /\ s.next \in 0 .. s.total

LinkInv ==
  /\ wire \in Seq(Command) /\ acks \in Seq({"TAG_MAC", "SENSOR"})
  /\ sensRsp \in SensorTypes \cup {"NONE", "CDATA"}
  /\ got \in [Types -> SUBSET Nat] /\ \A t \in Types : got[t] \subseteq 0 .. MaxRec[t]
  /\ UpTyped(up) /\ SensTyped(sens)
  /\ reconfigs \in Nat

\* A step of an upload sends one command and is then waiting, or sends none.
Talks ==
  \/ wire' = wire
  \/ /\ \E c \in Command : wire' = Append(wire, c)
     /\ ~(up'.st = "IDLE" /\ sens'.st = "IDLE")

\* What a step of an upload does to the region of type t: it keeps the records
\* and at most resets the session, reads records and sends them (if the command
\* is handed over), or commits.
Kept(q, q2) == /\ q2 \in Seq(Nat) /\ Len(q) <= Len(q2)
               /\ \A i \in 1 .. Len(q) : q2[i] = q[i]
SessionMoves(t) ==
  \/ /\ Kept(store[t].q, store'[t].q)
     /\ store'[t].given = 0 \/ store'[t].given = store[t].given
  \/ /\ store'[t].q = store[t].q
     /\ \/ wire' = wire
        \/ \E c \in Command :
             /\ wire' = Append(wire, c) /\ c.type = t
             /\ \A i \in 1 .. store'[t].given :
                  \/ i \in 1 .. store[t].given
                  \/ \E j \in 1 .. Len(c.recs) : c.recs[j] = store[t].q[i]
  \/ /\ store'[t].q = SubSeq(store[t].q, store[t].given + 1, Len(store[t].q))
     /\ store'[t].given = 0

Moved == /\ Talks /\ UpTyped(up') /\ SensTyped(sens')
         /\ \A t \in Types : SessionMoves(t)

\* Building a command.
LEMMA CmdOK ==
  ASSUME NEW t \in Types, NEW kind \in {"START", "DATA", "END", "LIVE"}, NEW n \in Int,
         NEW recs \in Seq(Nat), \A i \in 1 .. Len(recs) : recs[i] \in 0 .. MaxRec[t]
  PROVE  /\ Cmd(t, kind, n, recs) \in Command
         /\ Cmd(t, kind, n, recs).type = t /\ Cmd(t, kind, n, recs).recs = recs
  <1> DEFINE c == Cmd(t, kind, n, recs)
  <1>1. c.type = t /\ c.recs = recs
    BY DEF Cmd
  <1>2. c \in [type : Types, kind : {"START", "DATA", "END", "LIVE"}, n : Int, recs : Seq(Nat)]
    BY DEF Cmd
  <1> HIDE DEF c
  <1>3. c \in Command
    BY <1>1, <1>2 DEF Command
  <1> QED BY <1>1, <1>3 DEF c

\* A command without records.
LEMMA BareCmd ==
  ASSUME NEW t \in Types, NEW kind \in {"START", "DATA", "END", "LIVE"}, NEW n \in Int
  PROVE  Cmd(t, kind, n, <<>>) \in Command
  <1>1. <<>> \in Seq(Nat) /\ \A i \in 1 .. Len(<<>>) : FALSE
    OBVIOUS
  <1> QED BY <1>1, CmdOK

\* A command with one record.
LEMMA OneRecord ==
  ASSUME NEW t \in Types, NEW kind \in {"START", "DATA", "END", "LIVE"}, NEW n \in Int,
         NEW r \in 0 .. MaxRec[t]
  PROVE  /\ Cmd(t, kind, n, <<r>>) \in Command /\ Cmd(t, kind, n, <<r>>).type = t
         /\ 1 \in 1 .. Len(Cmd(t, kind, n, <<r>>).recs) /\ Cmd(t, kind, n, <<r>>).recs[1] = r
  <1>1. MaxRec[t] \in Nat /\ r \in Nat
    BY BoundAssumption
  <1> DEFINE R == <<r>>
  <1>2. R \in Seq(Nat) /\ Len(R) = 1 /\ R[1] = r
    BY <1>1
  <1> HIDE DEF R
  <1>3. \A i \in 1 .. Len(R) : i = 1 /\ R[i] \in 0 .. MaxRec[t]
    BY <1>2
  <1>4. Cmd(t, kind, n, R) \in Command /\ Cmd(t, kind, n, R).type = t /\ Cmd(t, kind, n, R).recs = R
    BY <1>2, <1>3, CmdOK
  <1>5. 1 \in 1 .. Len(R)
    BY <1>2
  <1> QED BY <1>2, <1>4, <1>5 DEF R

\* An upload of records has at least one packet.
LEMMA PacketsAtLeastOne ==
  ASSUME NEW n \in Nat, n > 0
  PROVE  Packets(n) \in Nat /\ Packets(n) >= 1
  <1> DEFINE p == PacketMax
             a == n + p - 1
  <1>1. p \in Nat /\ p >= 1
    BY BoundAssumption
  <1>2. a \in Nat /\ a >= p
    BY <1>1
  <1>3. Packets(n) = a \div p
    BY DEF Packets
  <1> HIDE DEF a, p
  <1>4. a \div p \in Int /\ a \div p >= 1
    BY <1>1, <1>2
  <1> QED BY <1>3, <1>4

\* A queue keeps its records when nothing or something is added to it.
LEMMA KeptSame ==
  ASSUME NEW q \in Seq(Nat)
  PROVE  Kept(q, q) /\ \A s \in Seq(Nat) : Kept(q, q \o s)
  <1>1. Kept(q, q)
    BY DEF Kept
  <1>2. ASSUME NEW s \in Seq(Nat) PROVE Kept(q, q \o s)
    <2> DEFINE P == q \o s
    <2>1. /\ P \in Seq(Nat) /\ Len(P) = Len(q) + Len(s)
          /\ \A i \in 1 .. Len(q) + Len(s) : P[i] = IF i <= Len(q) THEN q[i] ELSE s[i - Len(q)]
      BY ConcatProperties
    <2> HIDE DEF P
    <2>2. Len(q) \in Nat /\ Len(s) \in Nat
      OBVIOUS
    <2>3. Len(q) <= Len(P) /\ \A i \in 1 .. Len(q) : P[i] = q[i]
      BY <2>1, <2>2
    <2> QED BY <2>1, <2>3 DEF Kept, P
  <1> QED BY <1>1, <1>2

\* Sending one command while an upload is under way.
LEMMA TalksSend ==
  ASSUME NEW c \in Command, Send(c), up'.st # "IDLE" \/ sens'.st # "IDLE"
  PROVE  Talks
  BY DEF Send, Talks

\* What the invariants say of the region of type t.
LEMMA RegionFacts ==
  ASSUME DataInv, NEW t \in Types
  PROVE  /\ store[t].q \in Seq(Nat) /\ Len(store[t].q) \in Nat
         /\ \A i \in 1 .. Len(store[t].q) : store[t].q[i] \in 1 .. MaxRec[t]
         /\ store[t].lim \in 0 .. Len(store[t].q)
         /\ store[t].given \in 0 .. store[t].lim
         /\ store[t].given \in 0 .. Len(store[t].q) /\ store[t].given \in Nat
         /\ ~store[t].open => store[t].given = 0
  <1> DEFINE q == store[t].q
             c == captured[t]
             lim == store[t].lim
             given == store[t].given
  <1>1. RegionOK(store[t], c) /\ c \in Nat /\ c <= MaxRec[t] /\ MaxRec[t] \in Nat
    BY BoundAssumption DEF DataInv, StoreOK
  <1>2. /\ q \in Seq(Nat) /\ lim \in 0 .. Len(q) /\ given \in 0 .. lim
        /\ (~store[t].open => lim = 0) /\ \A i \in 1 .. Len(q) : q[i] \in 1 .. c
    BY <1>1 DEF RegionOK
  <1> HIDE DEF q, c, lim, given
  <1>3. Len(q) \in Nat /\ given \in 0 .. Len(q) /\ given \in Nat /\ (lim = 0 => given = 0)
    BY <1>2
  <1>4. \A x \in 1 .. c : x \in 1 .. MaxRec[t]
    BY <1>1
  <1> QED BY <1>2, <1>3, <1>4 DEF q, c, lim, given

\* Opening, closing and keeping sessions keeps records.
LEMMA SessionKept ==
  ASSUME DataInv, NEW t \in Types,
         store'[t].q = store[t].q, store'[t].given = 0 \/ store'[t].given = store[t].given
  PROVE  SessionMoves(t)
  BY RegionFacts, KeptSame DEF SessionMoves

\* Opening and closing sessions keeps every queue, and reads nothing.
LEMMA SessionAfter ==
  ASSUME NEW st, StoreForm(st), NEW t \in Types, NEW st2,
         st2 = UploadBegin(st, t) \/ st2 = Rewind(st, t), NEW u \in Types
  PROVE  st2[u].q = st[u].q /\ (st2[u].given = 0 \/ st2[u].given = st[u].given)
  <1>1. PICK b, n : Became(st2, st, t, Region(st[t].q, b, n))
    BY RegionAfter
  <1>2. CASE u = t
    <2>1. st2[t] = Region(st[t].q, b, n)
      BY <1>1 DEF Became
    <2>2. Region(st[t].q, b, n).q = st[t].q /\ Region(st[t].q, b, n).given = 0
      BY DEF Region
    <2> QED BY <1>2, <2>1, <2>2
  <1>3. CASE u # t
    BY <1>1, <1>3 DEF Became
  <1> QED BY <1>2, <1>3

\* A commit cuts off what was given.
LEMMA CommitAfter ==
  ASSUME NEW st, StoreForm(st), NEW t \in Types
  PROVE  /\ Commit(st, t)[t].q = SubSeq(st[t].q, st[t].given + 1, Len(st[t].q))
         /\ Commit(st, t)[t].given = 0
         /\ \A u \in Types : u # t => Commit(st, t)[u] = st[u]
  <1> DEFINE Q == SubSeq(st[t].q, st[t].given + 1, Len(st[t].q))
  <1>1. Became(Commit(st, t), st, t, Region(Q, FALSE, 0))
    BY RegionAfter
  <1> HIDE DEF Q
  <1>2. Region(Q, FALSE, 0).q = Q /\ Region(Q, FALSE, 0).given = 0
    BY DEF Region
  <1> QED BY <1>1, <1>2 DEF Became, Q

\* What sensor_cached_upload_try_start does with store st.
LEMMA TryStartMoves ==
  ASSUME DataInv, LinkInv, NEW st, StoreForm(st), \A t \in Types : st[t].q \in Seq(Nat),
         NEW idle, SensTyped(idle), sensor_cached_upload_try_start(st, FALSE, idle)
  PROVE  /\ Talks /\ SensTyped(sens')
         /\ \A u \in Types : /\ store'[u].q = st[u].q
                             /\ store'[u].given = 0 \/ store'[u].given = st[u].given
  <1> DEFINE waiting == {t \in SensorTypes : Pending(st, t) > 0}
             t == IF "TH" \in waiting THEN "TH" ELSE "BP"
             n == Packets(Pending(st, t))
             c == Cmd(t, "START", n, <<>>)
  <1>0. t \in SensorTypes /\ t \in Types
    BY DEF SensorTypes, Types
  <1>1. \/ store' = st /\ sens' = idle /\ wire' = wire
        \/ /\ waiting # {} /\ store' = UploadBegin(st, t) /\ Send(c)
           /\ sens' = [st |-> "CDATA_START", type |-> t, total |-> n, next |-> 1]
        \/ store' = Rewind(st, t) /\ sens' = IdleSens /\ wire' = wire
    BY DEF sensor_cached_upload_try_start
  <1>2. waiting # {} => Pending(st, t) > 0
    BY DEF SensorTypes
  <1> HIDE DEF t, n, c, waiting
  <1>3. ASSUME NEW u \in Types, \/ store' = UploadBegin(st, t) \/ store' = Rewind(st, t)
        PROVE  store'[u].q = st[u].q /\ (store'[u].given = 0 \/ store'[u].given = st[u].given)
    BY <1>0, <1>3, SessionAfter
  <1>4. CASE store' = st /\ sens' = idle /\ wire' = wire
    BY <1>4 DEF Talks
  <1>5. CASE /\ waiting # {} /\ store' = UploadBegin(st, t) /\ Send(c)
             /\ sens' = [st |-> "CDATA_START", type |-> t, total |-> n, next |-> 1]
    <2>1. Pending(st, t) \in Nat
      BY <1>0 DEF Pending
    <2>2. n \in Nat /\ n >= 1
      BY <1>2, <1>5, <2>1, PacketsAtLeastOne DEF n
    <2>3. /\ sens'.st = "CDATA_START" /\ sens'.type = t /\ sens'.total = n /\ sens'.next = 1
      BY <1>5
    <2>4. SensTyped(sens')
      BY <1>0, <2>2, <2>3 DEF SensTyped
    <2>5. c \in Command
      BY <1>0, <2>2, BareCmd DEF c
    <2> QED BY <1>3, <1>5, <2>3, <2>4, <2>5, TalksSend
  <1>6. CASE store' = Rewind(st, t) /\ sens' = IdleSens /\ wire' = wire
    <2>1. SensTyped(IdleSens)
      BY DEF SensTyped, IdleSens
    <2> QED BY <1>3, <1>6, <2>1 DEF Talks
  <1> QED BY <1>1, <1>4, <1>5, <1>6

\* START.
LEMMA StartRoundMoves ==
  ASSUME UploadInv, DataInv, LinkInv, NEW t \in ScanTypes, StartRound(t)
  PROVE  Moved
  <1> DEFINE n == Total(t)
  <1>0. StoreForm(store) /\ t \in Types
    BY RoundFacts DEF Types
  <1>1. /\ up' = [st |-> Started(t), seq |-> 0, flash |-> 0, snap |-> Len(table[t])]
        /\ store' = UploadBegin(store, t) /\ sens' = sens
        /\ Send(Cmd(t, "START", n, <<>>))
    BY DEF StartRound, Started
  <1>2. Len(table[t]) \in Nat
    BY DEF DataInv
  <1>3. n \in Int
    BY <1>0, <1>2, RegionFacts DEF Total, Pending
  <1> HIDE DEF n
  <1>4. up'.st = Started(t) /\ up'.seq = 0 /\ up'.flash = 0 /\ up'.snap = Len(table[t])
    BY <1>1
  <1>5. UpTyped(up') /\ up'.st # "IDLE"
    BY <1>2, <1>4 DEF UpTyped, Started
  <1>6. Talks
    BY <1>0, <1>1, <1>3, <1>5, BareCmd, TalksSend
  <1>7. ASSUME NEW u \in Types PROVE SessionMoves(u)
    <2>1. store'[u].q = store[u].q /\ (store'[u].given = 0 \/ store'[u].given = store[u].given)
      BY <1>0, <1>1, SessionAfter
    <2> QED BY <2>1, SessionKept
  <1> QED BY <1>1, <1>5, <1>6, <1>7 DEF Moved, LinkInv

\* The next stored record.
LEMMA SendStoredMoves ==
  ASSUME UploadInv, DataInv, LinkInv, NEW t \in ScanTypes, up.st = Started(t), SendStored(t)
  PROVE  Moved
  <1> DEFINE g == store[t].given
             q == store[t].q
             r == q[g + 1]
             n == up.seq + 1
             c == Cmd(t, "DATA", n, <<r>>)
  <1>0. StoreForm(store) /\ t \in Types /\ up.st # "IDLE"
    BY RoundFacts DEF Types, Started
  <1>1. /\ Readable(store, t) > 0 /\ store' = ReadMore(store, t, 1)
        /\ up' = [up EXCEPT !.seq = @ + 1, !.flash = @ + 1]
        /\ Send(c) /\ sens' = sens
    BY DEF SendStored
  <1>2. up = [st |-> up.st, seq |-> up.seq, flash |-> up.flash, snap |-> up.snap]
    BY DEF UploadInv, ControlForm
  <1>3. /\ up'.st = up.st /\ up'.seq = up.seq + 1 /\ up'.flash = up.flash + 1
        /\ up'.snap = up.snap
    BY <1>1, <1>2
  <1>4. UpTyped(up') /\ n \in Int
    BY <1>3 DEF UpTyped, LinkInv
  <1>5. g \in Nat /\ g + 1 \in 1 .. Len(q)
    <2> DEFINE lim == store[t].lim
    <2>1. /\ Len(q) \in Nat /\ lim \in 0 .. Len(q) /\ g \in 0 .. lim
          /\ lim - g > 0
      BY <1>0, <1>1, RegionFacts DEF Readable
    <2> HIDE DEF q, g, lim
    <2> QED BY <2>1
  <1>6. r \in 1 .. MaxRec[t] /\ MaxRec[t] \in Nat
    BY <1>0, <1>5, RegionFacts, BoundAssumption
  <1>7. Became(store', store, t, [q |-> q, given |-> g + 1, open |-> store[t].open, lim |-> store[t].lim])
    BY <1>0, <1>1, RegionAfterRead
  <1>8. store'[t].q = q /\ store'[t].given = g + 1 /\ \A u \in Types : u # t => store'[u] = store[u]
    BY <1>7 DEF Became
  <1> HIDE DEF n, r
  <1>9. r \in 0 .. MaxRec[t]
    BY <1>6
  <1>10. c \in Command /\ c.type = t /\ 1 \in 1 .. Len(c.recs) /\ c.recs[1] = r
    BY <1>0, <1>4, <1>9, OneRecord
  <1> HIDE DEF c
  <1>11. Talks
    BY <1>0, <1>1, <1>3, <1>10, TalksSend
  <1>12. SessionMoves(t)
    <2>1. \A i \in 1 .. g + 1 : i \in 1 .. g \/ i = g + 1
      BY <1>5
    <2>2. \A i \in 1 .. g + 1 : i \in 1 .. g \/ c.recs[1] = q[i]
      BY <1>10, <2>1 DEF r
    <2>3. wire' = Append(wire, c) \/ wire' = wire
      BY <1>1 DEF Send
    <2> QED BY <1>8, <1>10, <2>2, <2>3 DEF SessionMoves
  <1>13. \A u \in Types : SessionMoves(u)
    BY <1>8, <1>12, SessionKept
  <1> QED BY <1>1, <1>4, <1>11, <1>13 DEF Moved, LinkInv

\* The next entry of the table.
LEMMA SendEntryMoves ==
  ASSUME UploadInv, DataInv, LinkInv, NEW t \in ScanTypes, up.st = Started(t), SendEntry(t)
  PROVE  Moved
  <1> DEFINE k == up.seq - up.flash
             r == Entry(t, k)
             n == up.seq + 1
             c == Cmd(t, "DATA", n, <<r>>)
  <1>0. t \in Types /\ up.st # "IDLE"
    BY DEF Types, Started
  <1>1. up' = [up EXCEPT !.seq = @ + 1] /\ Send(c) /\ sens' = sens /\ store' = store
    BY DEF SendEntry
  <1>2. up = [st |-> up.st, seq |-> up.seq, flash |-> up.flash, snap |-> up.snap]
    BY DEF UploadInv, ControlForm
  <1>3. /\ up'.st = up.st /\ up'.seq = up.seq + 1 /\ up'.flash = up.flash
        /\ up'.snap = up.snap
    BY <1>1, <1>2
  <1>4. UpTyped(up') /\ n \in Int /\ k \in Nat
    BY <1>3 DEF UpTyped, LinkInv
  <1>5. /\ table[t] \in Seq(Nat) /\ \A i \in 1 .. Len(table[t]) : table[t][i] \in 1 .. captured[t]
        /\ captured[t] \in Nat /\ captured[t] <= MaxRec[t] /\ MaxRec[t] \in Nat
    BY <1>0, BoundAssumption DEF DataInv, TableOK
  <1>6. r \in 0 .. MaxRec[t]
    <2> DEFINE tab == table[t]
               l == Len(tab)
    <2>1. l \in Nat
      BY <1>5
    <2>2. r = IF k < l THEN tab[k + 1] ELSE 0
      BY DEF Entry, Blank
    <2>3. \A i \in 1 .. l : tab[i] \in 1 .. captured[t]
      BY <1>5
    <2> HIDE DEF k, tab, l, r
    <2>4. CASE k < l
      <3>1. k + 1 \in 1 .. l
        BY <1>4, <2>1, <2>4
      <3>2. r \in 1 .. captured[t]
        BY <2>2, <2>3, <2>4, <3>1
      <3> QED BY <1>5, <3>2
    <2>5. CASE ~(k < l)
      BY <1>5, <2>2, <2>5
    <2> QED BY <2>4, <2>5
  <1> HIDE DEF n, r
  <1>10. c \in Command
    BY <1>0, <1>4, <1>6, OneRecord
  <1> HIDE DEF c
  <1>11. Talks
    BY <1>0, <1>1, <1>3, <1>10, TalksSend
  <1>13. \A u \in Types : SessionMoves(u)
    BY <1>1, SessionKept
  <1> QED BY <1>1, <1>4, <1>11, <1>13 DEF Moved, LinkInv

\* END.
LEMMA EndRoundMoves ==
  ASSUME UploadInv, DataInv, LinkInv, NEW t \in ScanTypes, EndRound(t)
  PROVE  Moved
  <1>0. StoreForm(store) /\ t \in Types
    BY RoundFacts DEF Types
  <1>1. /\ up' = [up EXCEPT !.st = IF t = "TAG" THEN "TAG_END" ELSE "MAC_END",
                            !.seq = 0, !.flash = 0]
        /\ Send(Cmd(t, "END", up.seq, <<>>)) /\ sens' = sens /\ store' = Commit(store, t)
    BY DEF EndRound
  <1>2. up = [st |-> up.st, seq |-> up.seq, flash |-> up.flash, snap |-> up.snap]
    BY DEF UploadInv, ControlForm
  <1>3. up'.st # "IDLE" /\ up'.seq = 0 /\ up'.flash = 0 /\ up'.snap = up.snap
    BY <1>1, <1>2
  <1>4. UpTyped(up') /\ up.seq \in Int
    BY <1>3 DEF UpTyped, LinkInv
  <1>5. Talks
    BY <1>0, <1>1, <1>3, <1>4, BareCmd, TalksSend
  <1>6. ASSUME NEW u \in Types PROVE SessionMoves(u)
    <2>1. /\ store'[t].q = SubSeq(store[t].q, store[t].given + 1, Len(store[t].q))
          /\ store'[t].given = 0
          /\ u # t => store'[u] = store[u]
      BY <1>0, <1>1, CommitAfter
    <2>2. CASE u = t
      BY <2>1, <2>2 DEF SessionMoves
    <2>3. CASE u # t
      BY <2>1, <2>3, SessionKept
    <2> QED BY <2>2, <2>3
  <1> QED BY <1>1, <1>4, <1>5, <1>6 DEF Moved, LinkInv

\* A step of a TAG or MAC round.
LEMMA RoundMoves ==
  ASSUME UploadInv, DataInv, LinkInv, RoundStep
  PROVE  Moved
  <1>1. CASE /\ sens.st = "IDLE"
             /\ up' = [up EXCEPT !.st = "IDLE", !.seq = 0, !.flash = 0]
             /\ sensor_cached_upload_try_start(store, FALSE, sens)
    <2>1. StoreForm(store) /\ \A t \in Types : store[t].q \in Seq(Nat)
      BY RoundFacts, RegionFacts
    <2>2. up = [st |-> up.st, seq |-> up.seq, flash |-> up.flash, snap |-> up.snap]
      BY DEF UploadInv, ControlForm
    <2>3. up'.seq = 0 /\ up'.flash = 0 /\ up'.snap = up.snap
      BY <1>1, <2>2
    <2>4. UpTyped(up')
      BY <2>3 DEF UpTyped, LinkInv
    <2>5. SensTyped(sens)
      BY DEF LinkInv
    <2>6. /\ Talks /\ SensTyped(sens')
          /\ \A u \in Types : /\ store'[u].q = store[u].q
                              /\ store'[u].given = 0 \/ store'[u].given = store[u].given
      BY <1>1, <2>1, <2>5, TryStartMoves
    <2> QED BY <2>4, <2>6, SessionKept DEF Moved
  <1> QED BY <1>1, StartRoundMoves, SendStoredMoves, SendEntryMoves, EndRoundMoves DEF RoundStep

\* A packet of stored samples.
LEMMA PacketMoves ==
  ASSUME UploadInv, DataInv, LinkInv, InCdata, sens.type \in SensorTypes, up' = up,
         NEW nx \in 0 .. sens.total, sensor_cdata_send_next_packet(nx), ~SensorReset
  PROVE  Moved
  <1> DEFINE t == sens.type
             g == store[t].given
             q == store[t].q
             lim == store[t].lim
             a == Readable(store, t)
             most == IF a < PacketMax THEN a ELSE PacketMax
  <1>0. StoreForm(store) /\ t \in Types /\ sens.total \in Nat /\ nx \in Int
    BY RoundFacts DEF Types, LinkInv, SensTyped
  <1>1. /\ q \in Seq(Nat) /\ Len(q) \in Nat /\ lim \in 0 .. Len(q) /\ g \in 0 .. lim /\ g \in Nat
        /\ \A i \in 1 .. Len(q) : q[i] \in 1 .. MaxRec[t]
        /\ a = lim - g /\ PacketMax \in Nat /\ MaxRec[t] \in Nat
    BY <1>0, RegionFacts, BoundAssumption DEF Readable
  <1>2. PICK n \in (IF Faults THEN 0 .. most ELSE {most}) :
          /\ store' = ReadMore(store, t, n)
          /\ sens' = [sens EXCEPT !.st = "CDATA_DATA", !.next = nx]
          /\ Send(Cmd(t, "DATA", nx, SubSeq(q, g + 1, g + n)))
    BY DEF sensor_cdata_send_next_packet
  <1>3. n \in Nat /\ g + n <= Len(q)
    <2> HIDE DEF q, g, lim, a
    <2>1. a \in Nat /\ most \in 0 .. a
      BY <1>1
    <2>2. n \in 0 .. most
      BY <1>2, <2>1
    <2> QED BY <1>1, <2>1, <2>2
  <1> DEFINE P == SubSeq(q, g + 1, g + n)
             c == Cmd(t, "DATA", nx, P)
             h == g + n
  <1>4. Became(store', store, t, [q |-> q, given |-> h, open |-> store[t].open, lim |-> lim])
    BY <1>0, <1>2, RegionAfterRead
  <1>5. store'[t].q = q /\ store'[t].given = h /\ \A u \in Types : u # t => store'[u] = store[u]
    BY <1>4 DEF Became
  <1>6. /\ P \in Seq(Nat) /\ Len(P) = n
        /\ \A i \in 1 .. n : P[i] = q[g + i] /\ g + i \in 1 .. Len(q)
    <2> HIDE DEF q, g
    <2>1. g + 1 \in Int /\ h \in Int /\ \A i \in g + 1 .. h : q[i] \in Nat /\ i \in 1 .. Len(q)
      <3> DEFINE l == Len(q)
      <3>0. l \in Nat /\ g \in Nat /\ n \in Nat /\ g + n <= l
        BY <1>1, <1>3
      <3> HIDE DEF l
      <3>1. g + 1 \in Int /\ h \in Int /\ \A i \in g + 1 .. h : i \in 1 .. l
        BY <3>0
      <3> QED BY <1>1, <3>1, ElementOfSeq DEF l
    <2>2. /\ P \in Seq(Nat) /\ Len(P) = (IF g + 1 <= h THEN h - (g + 1) + 1 ELSE 0)
          /\ \A i \in 1 .. h - (g + 1) + 1 : P[i] = q[(g + 1) + i - 1]
      BY <1>1, <2>1, SubSeqProperties
    <2> HIDE DEF P
    <2>3. g \in Nat /\ n \in Nat
      BY <1>1, <1>3
    <2>4. /\ h - (g + 1) + 1 = n /\ g + 1 <= h <=> n > 0
          /\ \A i \in 1 .. n : (g + 1) + i - 1 = g + i /\ g + i \in g + 1 .. h
      BY <2>3
    <2>5. Len(P) = n
      BY <2>2, <2>3, <2>4
    <2> HIDE DEF h
    <2>6. \A i \in 1 .. n : P[i] = q[(g + 1) + i - 1]
      BY <2>2, <2>4
    <2>7. ASSUME NEW i \in 1 .. n PROVE P[i] = q[g + i] /\ g + i \in 1 .. Len(q)
      BY <2>1, <2>4, <2>6
    <2> QED BY <2>2, <2>5, <2>7
  <1>7. \A i \in 1 .. Len(P) : P[i] \in 0 .. MaxRec[t]
    <2> HIDE DEF P, q, g, t
    <2>1. \A x \in 1 .. MaxRec[t] : x \in 0 .. MaxRec[t]
      BY <1>1
    <2> QED BY <1>1, <1>6, <2>1
  <1> HIDE DEF P
  <1>8. c \in Command /\ c.type = t /\ c.recs = P
    <2> HIDE DEF t
    <2>1. t \in Types /\ nx \in Int /\ P \in Seq(Nat) /\ "DATA" \in {"START", "DATA", "END", "LIVE"}
      BY <1>0, <1>6 DEF t
    <2>2. \A i \in 1 .. Len(P) : P[i] \in 0 .. MaxRec[t]
      BY <1>7 DEF t
    <2> QED BY <2>1, <2>2, CmdOK
  <1>9. Send(c)
    BY <1>2 DEF P
  <1>10. /\ sens'.st = "CDATA_DATA" /\ sens'.type = sens.type /\ sens'.total = sens.total
         /\ sens'.next = nx
    <2>1. sens = [st |-> sens.st, type |-> sens.type, total |-> sens.total, next |-> sens.next]
      BY DEF UploadInv, ControlForm
    <2> QED BY <1>2, <2>1
  <1> HIDE DEF c
  <1>11. Talks
    BY <1>8, <1>9, <1>10, TalksSend
  <1>12. SensTyped(sens') /\ UpTyped(up')
    BY <1>10 DEF SensTyped, LinkInv
  <1>13. SessionMoves(t)
    <2>1. ASSUME NEW i \in 1 .. h
          PROVE  i \in 1 .. g \/ \E j \in 1 .. Len(c.recs) : c.recs[j] = q[i]
      <3> HIDE DEF g, q
      <3>1. CASE i > g
        <4>1. i - g \in 1 .. n /\ g + (i - g) = i
          BY <1>1, <1>3, <3>1
        <4>2. P[i - g] = q[i]
          BY <1>6, <4>1
        <4> QED BY <1>6, <1>8, <4>1, <4>2
      <3>2. CASE ~(i > g)
        BY <1>1, <1>3, <3>2
      <3> QED BY <3>1, <3>2
    <2>2. wire' = Append(wire, c) \/ wire' = wire
      BY <1>9 DEF Send
    <2> QED BY <1>5, <1>8, <2>1, <2>2 DEF SessionMoves
  <1>14. \A u \in Types : SessionMoves(u)
    BY <1>5, <1>13, SessionKept
  <1> QED BY <1>11, <1>12, <1>14 DEF Moved

\* A step of a sensor upload.
LEMMA SensorMoves ==
  ASSUME UploadInv, DataInv, LinkInv, SensorStep
  PROVE  Moved
  <1>0. StoreForm(store) /\ up' = up /\ UpTyped(up') /\ \A t \in Types : store[t].q \in Seq(Nat)
    BY RoundFacts, RegionFacts DEF SensorStep, LinkInv
  <1>1. SensTyped(IdleSens) /\ SensTyped(sens)
    BY DEF SensTyped, IdleSens, LinkInv
  <1>2. ASSUME SensorReset, sens.type \in SensorTypes PROVE Moved
    <2>1. /\ sens' = IdleSens /\ wire' = wire
          /\ store' = Rewind(store, sens.type) \/ store' = store
      BY <1>2 DEF SensorReset, ResetStore
    <2>2. \A u \in Types : SessionMoves(u)
      BY <1>0, <1>2, <2>1, SessionAfter, SessionKept DEF Types
    <2> QED BY <1>0, <1>1, <2>1, <2>2 DEF Moved, Talks
  <1>3. ASSUME InCdata, sens.type \in SensorTypes,
               NEW nx, \/ sens.st = "CDATA_START" /\ nx = sens.next
                       \/ /\ sens.st = "CDATA_DATA" /\ nx = sens.next + 1
                          /\ sens.next < sens.total,
               sensor_cdata_send_next_packet(nx)
        PROVE  Moved
    <2>1. nx \in 0 .. sens.total
      BY <1>1, <1>3 DEF SensTyped
    <2> QED BY <1>0, <1>2, <1>3, <2>1, PacketMoves
  <1>4. ASSUME sens.type \in SensorTypes, InCdata, Send(Cmd(sens.type, "END", 0, <<>>)),
               sens' = [sens EXCEPT !.st = "CDATA_END"], store' = store
        PROVE  Moved
    <2>1. sens = [st |-> sens.st, type |-> sens.type, total |-> sens.total, next |-> sens.next]
      BY DEF UploadInv, ControlForm
    <2>2. /\ sens'.st = "CDATA_END" /\ sens'.type = sens.type /\ sens'.total = sens.total
          /\ sens'.next = sens.next
      BY <1>4, <2>1
    <2>3. SensTyped(sens')
      BY <1>1, <2>2 DEF SensTyped
    <2>4. Talks
      BY <1>4, <2>2, BareCmd, TalksSend DEF Types
    <2> QED BY <1>0, <1>4, <2>3, <2>4, SessionKept DEF Moved
  <1>5. ASSUME sens.type \in SensorTypes,
               sensor_cached_upload_try_start(Commit(store, sens.type), FALSE, IdleSens)
        PROVE  Moved
    <2> DEFINE t == sens.type
               st == Commit(store, t)
               Q == SubSeq(store[t].q, store[t].given + 1, Len(store[t].q))
    <2>1. t \in Types
      BY <1>5 DEF Types
    <2>2. /\ StoreForm(st) /\ st[t].q = Q /\ st[t].given = 0
          /\ \A u \in Types : u # t => st[u] = store[u]
      BY <1>0, <2>1, CommitAfter, CommitSessions
    <2>3. Q \in Seq(Nat)
      BY <2>1, RegionFacts, QueueAfter
    <2> HIDE DEF st, Q
    <2>4. \A u \in Types : st[u].q \in Seq(Nat)
      BY <1>0, <2>2, <2>3
    <2>5. /\ Talks /\ SensTyped(sens')
          /\ \A u \in Types : /\ store'[u].q = st[u].q
                              /\ store'[u].given = 0 \/ store'[u].given = st[u].given
      BY <1>1, <1>5, <2>2, <2>4, TryStartMoves DEF st
    <2>6. SessionMoves(t)
      BY <2>1, <2>2, <2>5 DEF SessionMoves, Q
    <2>7. \A u \in Types : SessionMoves(u)
      BY <2>2, <2>5, <2>6, SessionKept
    <2> QED BY <1>0, <2>5, <2>7 DEF Moved
  <1>6. ASSUME sensor_cached_upload_try_start(store, FALSE, IdleSens) PROVE Moved
    BY <1>0, <1>1, <1>6, TryStartMoves, SessionKept DEF Moved
  <1> QED BY <1>2, <1>3, <1>4, <1>5, <1>6 DEF SensorStep

\* An upload starts on a free link.
LEMMA FreeMoves ==
  ASSUME UploadInv, DataInv, LinkInv, FreeStart
  PROVE  Moved
  <1>1. ASSUME sensor_cached_upload_try_start(store, FALSE, sens), up' = up PROVE Moved
    <2>1. /\ StoreForm(store) /\ UpTyped(up') /\ SensTyped(sens)
          /\ \A t \in Types : store[t].q \in Seq(Nat)
      BY <1>1, RoundFacts, RegionFacts DEF LinkInv
    <2> QED BY <1>1, <2>1, TryStartMoves, SessionKept DEF Moved
  <1> QED BY <1>1, StartRoundMoves DEF FreeStart

\* An acknowledgement is handled.
LEMMA AckMoves ==
  ASSUME UploadInv, DataInv, LinkInv, AckStep
  PROVE  Moved
  <1>1. CASE UNCHANGED <<table, store, up, sens, wire, announced>>
    BY <1>1, SessionKept DEF Moved, Talks, LinkInv
  <1> QED BY <1>1, RoundMoves, SensorMoves DEF AckStep

-----------------------------------------------------------------------------
(* Steps beside the uploads.                                               *)

\* The region of type t keeps its records and its session, and may grow.
Grows(t) == /\ Kept(store[t].q, store'[t].q)
            /\ store'[t].given = store[t].given /\ store'[t].lim = store[t].lim

\* Records that two additions keep.
LEMMA KeptTwice ==
  ASSUME NEW p, NEW q, NEW r, Len(p) \in Nat, Len(q) \in Nat, Kept(p, q), Kept(q, r)
  PROVE  Kept(p, r)
  <1>1. Len(r) \in Nat
    BY DEF Kept
  <1>2. Len(p) <= Len(q) /\ Len(q) <= Len(r)
    BY DEF Kept
  <1>3. \A i \in 1 .. Len(p) : i \in 1 .. Len(q)
    BY <1>2
  <1>4. \A i \in 1 .. Len(p) : r[i] = p[i]
    BY <1>3 DEF Kept
  <1>5. Len(p) <= Len(r)
    BY <1>1, <1>2
  <1> QED BY <1>4, <1>5 DEF Kept

\* Pushing keeps records and sessions.
LEMMA PushKept ==
  ASSUME NEW st, StoreForm(st), NEW t \in Types, NEW recs \in Seq(Nat),
         \A u \in Types : st[u].q \in Seq(Nat), NEW u \in Types
  PROVE  LET st2 == Push(st, t, recs) IN
         /\ Kept(st[u].q, st2[u].q)
         /\ st2[u].given = st[u].given /\ st2[u].lim = st[u].lim
         /\ u # t => st2[u] = st[u]
  <1> DEFINE P == st[t].q \o recs
             st2 == Push(st, t, recs)
  <1>1. Became(st2, st, t, [q |-> P, given |-> st[t].given, open |-> st[t].open, lim |-> st[t].lim])
    BY RegionAfterPush
  <1>2. Kept(st[t].q, P)
    BY KeptSame
  <1> HIDE DEF P, st2
  <1>3. /\ st2[t].q = P /\ st2[t].given = st[t].given /\ st2[t].lim = st[t].lim
        /\ u # t => st2[u] = st[u]
    BY <1>1 DEF Became
  <1>4. Kept(st[u].q, st[u].q)
    BY KeptSame
  <1> QED BY <1>2, <1>3, <1>4 DEF st2

\* A table of captures, sorted, is a sequence of captures.
LEMMA SortedTable ==
  ASSUME DataInv, NEW t \in ScanTypes
  PROVE  TimeOrder(table[t]) \in Seq(Nat)
  BY TimeOrderIs DEF DataInv

\* Moving both tables to the store keeps records and sessions.
LEMMA FlushBothKept ==
  ASSUME UploadInv, DataInv, NEW u \in Types
  PROVE  LET st2 == FlushTables(store) IN
         /\ Kept(store[u].q, st2[u].q)
         /\ st2[u].given = store[u].given /\ st2[u].lim = store[u].lim
  <1> DEFINE T == TimeOrder(table["TAG"])
             M == TimeOrder(table["MAC"])
             st1 == Push(store, "TAG", T)
             st2 == Push(st1, "MAC", M)
  <1>0. /\ StoreForm(store) /\ "TAG" \in Types /\ "MAC" \in Types
        /\ "TAG" \in ScanTypes /\ "MAC" \in ScanTypes
        /\ \A v \in Types : store[v].q \in Seq(Nat)
    BY RoundFacts, RegionFacts DEF Types, ScanTypes
  <1>1. T \in Seq(Nat) /\ M \in Seq(Nat)
    BY <1>0, SortedTable
  <1>2. FlushTables(store) = st2
    BY DEF FlushTables, FlushTable
  <1> HIDE DEF T, M
  <1>3. /\ StoreForm(st1)
        /\ \A v \in Types : /\ Kept(store[v].q, st1[v].q)
                            /\ st1[v].given = store[v].given /\ st1[v].lim = store[v].lim
    <2>1. StoreForm(st1)
      BY <1>0, PushSessions
    <2>2. ASSUME NEW v \in Types
          PROVE  /\ Kept(store[v].q, st1[v].q)
                 /\ st1[v].given = store[v].given /\ st1[v].lim = store[v].lim
      BY <1>0, <1>1, PushKept
    <2> QED BY <2>1, <2>2
  <1> HIDE DEF st1
  <1>4. \A v \in Types : st1[v].q \in Seq(Nat)
    BY <1>3 DEF Kept
  <1>5. Kept(st1[u].q, st2[u].q) /\ st2[u].given = st1[u].given /\ st2[u].lim = st1[u].lim
    BY <1>0, <1>1, <1>3, <1>4, PushKept
  <1>6. Len(store[u].q) \in Nat /\ Len(st1[u].q) \in Nat
    BY <1>0, <1>4
  <1> HIDE DEF st2
  <1>7. Kept(store[u].q, st2[u].q)
    BY <1>3, <1>5, <1>6, KeptTwice
  <1> QED BY <1>2, <1>3, <1>5, <1>7

\* The radio, the tables and the samples only add to the store.
LEMMA OthersGrow ==
  ASSUME UploadInv, DataInv,
         \/ Aside
         \/ \E t \in ScanTypes : scan_recv_cb(t) \/ ProcessAdv(t)
         \/ MSG_SCAN_LENGTH
         \/ \E t \in SensorTypes : MSG_SENSOR_SAMPLE(t)
         \/ my_ble_handle \/ LoseCommand \/ LoseAck \/ my_lte_pwroff_handle,
         NEW u \in Types
  PROVE  Grows(u)
  <1>0. StoreForm(store) /\ \A v \in Types : store[v].q \in Seq(Nat)
    BY RoundFacts, RegionFacts
  <1>1. ASSUME store' = store PROVE Grows(u)
    BY <1>0, <1>1, KeptSame DEF Grows
  <1>2. CASE MSG_SCAN_LENGTH
    <2>1. store' = FlushTables(store)
      BY <1>2 DEF MSG_SCAN_LENGTH
    <2> QED BY <2>1, FlushBothKept DEF Grows
  <1>3. ASSUME NEW t \in Types, NEW recs \in Seq(Nat), store' = Push(store, t, recs) PROVE Grows(u)
    BY <1>0, <1>3, PushKept DEF Grows
  <1>4. ASSUME NEW t \in ScanTypes, ProcessAdv(t) PROVE Grows(u)
    <2>1. store' = store \/ store' = Push(store, t, TimeOrder(table[t]))
      BY <1>4 DEF ProcessAdv, UpdateKnown, AddNew, AddToFull, FlushTable
    <2> QED BY <1>1, <1>3, <2>1, SortedTable DEF Types
  <1>5. ASSUME NEW t \in SensorTypes, MSG_SENSOR_SAMPLE(t) PROVE Grows(u)
    <2>1. store' = store \/ store' = Push(store, t, <<NewRec(t)>>)
      BY <1>5 DEF MSG_SENSOR_SAMPLE
    <2>2. NewRec(t) \in Nat /\ t \in Types
      BY DEF DataInv, NewRec, Types
    <2>3. <<NewRec(t)>> \in Seq(Nat)
      BY <2>2
    <2> QED BY <1>1, <1>3, <2>1, <2>2, <2>3
  <1>6. CASE Aside \/ my_ble_handle \/ LoseCommand \/ LoseAck \/ my_lte_pwroff_handle
    BY <1>1, <1>6 DEF Aside, my_ble_handle, LoseCommand, LoseAck, my_lte_pwroff_handle
  <1>7. ASSUME NEW t \in ScanTypes, scan_recv_cb(t) PROVE Grows(u)
    BY <1>1, <1>7 DEF scan_recv_cb
  <1> QED BY <1>2, <1>4, <1>5, <1>6, <1>7

\* Reconfiguration keeps every record.
LEMMA SetConfigKept ==
  ASSUME UploadInv, DataInv, NEW m, my_scan_set_config(m), NEW u \in Types
  PROVE  Kept(store[u].q, store'[u].q)
  <1> DEFINE st1 == FlushTables(store)
             st2 == Rewind(st1, "TAG")
             st3 == Rewind(st2, "MAC")
  <1>0. "TAG" \in Types /\ "MAC" \in Types
    BY DEF Types, ScanTypes
  <1>1. StoreForm(st1) /\ Kept(store[u].q, st1[u].q)
    BY FlushBothKept, FlushBothOK
  <1>2. store' = ResetStore(st3, TRUE)
    BY DEF my_scan_set_config
  <1> HIDE DEF st1
  <1>3. StoreForm(st2) /\ st2[u].q = st1[u].q
    <2>1. StoreForm(Rewind(st1, "TAG"))
      BY <1>0, <1>1, RewindSessions
    <2>2. Rewind(st1, "TAG")[u].q = st1[u].q
      BY <1>0, <1>1, SessionAfter
    <2> QED BY <2>1, <2>2
  <1> HIDE DEF st2
  <1>4. StoreForm(st3) /\ st3[u].q = st2[u].q
    <2>1. StoreForm(Rewind(st2, "MAC"))
      BY <1>0, <1>3, RewindSessions
    <2>2. Rewind(st2, "MAC")[u].q = st2[u].q
      BY <1>0, <1>3, SessionAfter
    <2> QED BY <2>1, <2>2
  <1> HIDE DEF st3
  <1>5. store' = st3 \/ (sens.type \in Types /\ store' = Rewind(st3, sens.type))
    BY <1>2 DEF ResetStore, Types
  <1>6. store'[u].q = st3[u].q
    BY <1>4, <1>5, SessionAfter
  <1> QED BY <1>1, <1>3, <1>4, <1>6

\* A sample: sent on a free link, or stored.
LEMMA SampleLink ==
  ASSUME UploadInv, DataInv, LinkInv, NEW t \in SensorTypes, MSG_SENSOR_SAMPLE(t)
  PROVE  /\ SensTyped(sens')
         /\ UNCHANGED <<up, acks, sensRsp, got, reconfigs>>
         /\ \/ /\ wire' = wire
               /\ sens' = sens \/ (sens.st = "IDLE" /\ up.st = "IDLE")
            \/ /\ sens.st = "IDLE" /\ up.st = "IDLE" /\ sens'.st # "IDLE"
               /\ \E c \in Command : wire' = Append(wire, c)
  <1> DEFINE r == captured[t] + 1
             c == Cmd(t, "LIVE", 1, <<r>>)
             live == IF t = "TH" THEN "TH_WAIT" ELSE "BP_WAIT"
  <1>0. /\ t \in Types /\ captured[t] \in Nat /\ captured[t] < MaxRec[t] /\ MaxRec[t] \in Nat
    BY BoundAssumption DEF MSG_SENSOR_SAMPLE, DataInv, Types
  <1>1. r \in 0 .. MaxRec[t]
    BY <1>0
  <1>2. UNCHANGED <<up, acks, sensRsp, got, reconfigs>>
    BY DEF MSG_SENSOR_SAMPLE, upload, answers, bounds
  <1>3. \/ /\ lteReady /\ ~sensor_upload_busy /\ up.st = "IDLE"
           /\ sens' = [st |-> live, type |-> t, total |-> 0, next |-> 0]
           /\ Send(c)
        \/ /\ wire' = wire
           /\ sens' = IF lteReady /\ ~sensor_upload_busy /\ up.st = "IDLE" THEN IdleSens ELSE sens
    BY Zenon DEF MSG_SENSOR_SAMPLE, NewRec
  <1> HIDE DEF r
  <1>4. c \in Command
    <2>1. t \in Types /\ 1 \in Int /\ "LIVE" \in {"START", "DATA", "END", "LIVE"}
      BY <1>0
    <2> QED BY <1>1, <2>1, OneRecord
  <1> HIDE DEF c
  <1>5. CASE /\ ~sensor_upload_busy /\ up.st = "IDLE"
             /\ sens' = [st |-> live, type |-> t, total |-> 0, next |-> 0] /\ Send(c)
    <2>1. sens'.st = live /\ sens'.type = t /\ sens'.total = 0 /\ sens'.next = 0
      BY <1>5
    <2>2. SensTyped(sens') /\ sens'.st # "IDLE"
      BY <2>1 DEF SensTyped
    <2>3. wire' = Append(wire, c) \/ wire' = wire
      BY <1>5 DEF Send
    <2> QED BY <1>2, <1>4, <1>5, <2>2, <2>3 DEF sensor_upload_busy
  <1>6. CASE /\ wire' = wire
             /\ sens' = IF lteReady /\ ~sensor_upload_busy /\ up.st = "IDLE" THEN IdleSens ELSE sens
    <2>1. SensTyped(IdleSens) /\ SensTyped(sens)
      BY DEF SensTyped, IdleSens, LinkInv
    <2> QED BY <1>2, <1>6, <2>1 DEF sensor_upload_busy
  <1> QED BY <1>3, <1>5, <1>6

-----------------------------------------------------------------------------
(* The link: types, the lock step, and what the 4G module has received.    *)

\* The module answers a command.
LEMMA AnswerLink ==
  ASSUME LinkInv, my_ble_handle
  PROVE  /\ LinkInv' /\ wire # <<>> /\ wire' = Tail(wire)
         /\ Len(acks') = Len(acks) + 1
         /\ \A t \in Types : /\ got[t] \subseteq got'[t]
                             /\ Head(wire).type = t =>
                                  \A j \in 1 .. Len(Head(wire).recs) : Head(wire).recs[j] \in got'[t]
  <1> DEFINE c == Head(wire)
             R == {c.recs[i] : i \in DOMAIN c.recs}
  <1>1. /\ wire # <<>> /\ wire' = Tail(wire)
        /\ got' = [got EXCEPT ![c.type] = @ \cup R]
        /\ UNCHANGED <<up, sens, reconfigs>>
    BY DEF my_ble_handle, upload, bounds
  <1>2. PICK a \in {"TAG_MAC", "SENSOR"} : acks' = Append(acks, a)
    BY DEF my_ble_handle
  <1>3. sensRsp' = sensRsp \/ (c.type \in SensorTypes /\ sensRsp' = c.type) \/ sensRsp' = "CDATA"
    <2>1. c \in Command
      BY <1>1, HeadTailProperties DEF LinkInv
    <2>2. c.type \in Types
      BY <2>1 DEF Command
    <2>3. c.type \in ScanTypes \/ c.type \in SensorTypes
      BY <2>2 DEF Types
    <2> QED BY <2>3 DEF my_ble_handle
  <1>4. wire \in Seq(Command) /\ c \in Command /\ Tail(wire) \in Seq(Command)
    BY <1>1, HeadTailProperties DEF LinkInv
  <1> HIDE DEF c
  <1>5. /\ c.type \in Types /\ c.recs \in Seq(Nat)
        /\ \A i \in 1 .. Len(c.recs) : c.recs[i] \in 0 .. MaxRec[c.type]
    BY <1>4 DEF Command
  <1>6. DOMAIN c.recs = 1 .. Len(c.recs)
    BY <1>5
  <1>7. MaxRec[c.type] \in Nat
    BY <1>5, BoundAssumption
  <1>8. R \subseteq 0 .. MaxRec[c.type] /\ R \subseteq Nat
    BY <1>5, <1>6, <1>7
  <1>9. \A j \in 1 .. Len(c.recs) : c.recs[j] \in R
    BY <1>6
  <1> HIDE DEF R
  <1>10. /\ got \in [Types -> SUBSET Nat] /\ \A t \in Types : got[t] \subseteq 0 .. MaxRec[t]
    BY DEF LinkInv
  <1>11. /\ got' \in [Types -> SUBSET Nat]
         /\ \A t \in Types : got'[t] = IF t = c.type THEN got[t] \cup R ELSE got[t]
    BY <1>1, <1>5, <1>8, <1>10
  <1>12. \A t \in Types : got'[t] \subseteq 0 .. MaxRec[t]
    BY <1>8, <1>10, <1>11
  <1>13. acks' \in Seq({"TAG_MAC", "SENSOR"}) /\ Len(acks') = Len(acks) + 1
    BY <1>2, AppendProperties DEF LinkInv
  <1>14. sensRsp' \in SensorTypes \cup {"NONE", "CDATA"}
    BY <1>3 DEF LinkInv
  <1>15. LinkInv'
    BY <1>1, <1>4, <1>11, <1>12, <1>13, <1>14 DEF LinkInv
  <1> QED BY <1>1, <1>9, <1>11, <1>13, <1>15 DEF c

\* The types of the link.
LEMMA NextLink ==
  ASSUME UploadInv, DataInv, LinkInv, StepCases
  PROVE  LinkInv'
  <1>0. /\ wire \in Seq(Command) /\ acks \in Seq({"TAG_MAC", "SENSOR"})
        /\ \A c \in Command : Append(wire, c) \in Seq(Command)
    BY AppendProperties DEF LinkInv
  <1>1. CASE Aside \/ MSG_SCAN_LENGTH \/ \E t \in ScanTypes : scan_recv_cb(t) \/ ProcessAdv(t)
    <2>1. UNCHANGED <<wire, acks, sensRsp, got, up, sens, reconfigs>>
      BY <1>1 DEF Aside, MSG_SCAN_LENGTH, scan_recv_cb, ProcessAdv, upload, answers, bounds
    <2> QED BY <2>1 DEF LinkInv
  <1>2. CASE FreeStart \/ AckStep
    <2>1. Moved /\ UNCHANGED <<sensRsp, got, reconfigs>>
      BY <1>2, FreeMoves, AckMoves DEF FreeStart, AckStep, Around
    <2>2. acks' \in Seq({"TAG_MAC", "SENSOR"})
      <3>1. CASE acks' = acks
        BY <1>0, <3>1
      <3>2. CASE acks # <<>> /\ acks' = Tail(acks)
        BY <1>0, <3>2, HeadTailProperties
      <3> QED BY <1>2, <3>1, <3>2 DEF FreeStart, AckStep
    <2>3. wire' \in Seq(Command)
      BY <1>0, <2>1 DEF Moved, Talks
    <2> QED BY <2>1, <2>2, <2>3 DEF LinkInv, Moved
  <1>3. ASSUME NEW t \in SensorTypes, MSG_SENSOR_SAMPLE(t) PROVE LinkInv'
    <2>1. /\ SensTyped(sens') /\ UNCHANGED <<up, acks, sensRsp, got, reconfigs>>
          /\ wire' = wire \/ \E c \in Command : wire' = Append(wire, c)
      BY <1>3, SampleLink
    <2>2. wire' \in Seq(Command)
      BY <1>0, <2>1
    <2> QED BY <2>1, <2>2 DEF LinkInv
  <1>4. ASSUME NEW m \in 0 .. 2, my_scan_set_config(m) PROVE LinkInv'
    <2>1. /\ up' = IdleUp /\ sens' = IdleSens /\ reconfigs' = reconfigs + 1
          /\ UNCHANGED <<wire, acks, sensRsp, got>>
      BY <1>4 DEF my_scan_set_config, answers
    <2>2. UpTyped(IdleUp) /\ SensTyped(IdleSens)
      BY DEF UpTyped, SensTyped, IdleUp, IdleSens
    <2> QED BY <2>1, <2>2 DEF LinkInv
  <1>5. CASE my_ble_handle
    BY <1>5, AnswerLink
  <1>6. CASE LoseCommand
    <2>1. wire' = Tail(wire) /\ wire # <<>> /\ UNCHANGED <<acks, sensRsp, got, up, sens, reconfigs>>
      BY <1>6 DEF LoseCommand, upload, answers, bounds
    <2>2. wire' \in Seq(Command)
      BY <1>0, <2>1, HeadTailProperties
    <2> QED BY <2>1, <2>2 DEF LinkInv
  <1>7. CASE LoseAck
    <2>1. acks' = Tail(acks) /\ acks # <<>> /\ UNCHANGED <<wire, sensRsp, got, up, sens, reconfigs>>
      BY <1>7 DEF LoseAck, upload, bounds
    <2>2. acks' \in Seq({"TAG_MAC", "SENSOR"})
      BY <1>0, <2>1, HeadTailProperties
    <2> QED BY <2>1, <2>2 DEF LinkInv
  <1>8. CASE my_lte_pwroff_handle
    <2>1. UNCHANGED <<acks, sensRsp, got, up, sens, reconfigs>>
      BY <1>8 DEF my_lte_pwroff_handle, upload, answers
    <2>2. PICK n \in 0 .. Len(wire) : wire' = SubSeq(wire, n + 1, Len(wire))
      BY <1>8 DEF my_lte_pwroff_handle
    <2>3. wire' \in Seq(Command)
      BY <1>0, <2>2
    <2> QED BY <2>1, <2>3 DEF LinkInv
  <1> QED BY <1>1, <1>2, <1>3, <1>4, <1>5, <1>6, <1>7, <1>8 DEF StepCases

\* What power off leaves of the commands.
LEMMA DroppedCommands ==
  ASSUME LinkInv, NEW n \in 0 .. Len(wire)
  PROVE  /\ Len(SubSeq(wire, n + 1, Len(wire))) = Len(wire) - n
         /\ n = 0 => SubSeq(wire, n + 1, Len(wire)) = wire
  <1>1. wire \in Seq(Command) /\ Len(wire) \in Nat
    BY DEF LinkInv
  <1> DEFINE l == Len(wire)
             P == SubSeq(wire, n + 1, l)
  <1>2. n \in Nat /\ n <= l /\ l \in Nat
    BY <1>1
  <1>3. /\ P \in Seq(Command) /\ Len(P) = (IF n + 1 <= l THEN l - (n + 1) + 1 ELSE 0)
        /\ \A i \in 1 .. l - (n + 1) + 1 : P[i] = wire[(n + 1) + i - 1]
    <2>1. n + 1 \in Int /\ l \in Int /\ \A i \in n + 1 .. l : wire[i] \in Command
      BY <1>1, ElementOfSeq
    <2> HIDE DEF l
    <2> QED BY <1>1, <2>1, SubSeqProperties
  <1> HIDE DEF l, P
  <1>4. Len(P) = l - n
    BY <1>2, <1>3
  <1>5. ASSUME n = 0 PROVE P = wire
    <2>1. Len(P) = Len(wire)
      BY <1>2, <1>4, <1>5 DEF l
    <2>2. \A i \in 1 .. Len(P) : P[i] = wire[i]
      <3>1. l - (n + 1) + 1 = l /\ Len(P) = l /\ \A i \in 1 .. l : (n + 1) + i - 1 = i
        BY <1>2, <1>4, <1>5
      <3> QED BY <1>3, <3>1
    <2> QED BY <1>1, <1>3, <2>1, <2>2, SeqEqual
  <1> QED BY <1>4, <1>5 DEF l, P

LockInv ==
  reconfigs = 0 =>
    /\ Len(wire) + Len(acks) <= 1
    /\ up.st = "IDLE" /\ sens.st = "IDLE" => Len(wire) + Len(acks) = 0

\* A step that sends on a free link or in answer keeps the lock step.
LEMMA NextLock ==
  ASSUME UploadInv, DataInv, LinkInv, LockInv, StepCases
  PROVE  LockInv'
  <1> DEFINE w == Len(wire)
             a == Len(acks)
             w2 == Len(wire')
             a2 == Len(acks')
             idle == up.st = "IDLE" /\ sens.st = "IDLE"
             idle2 == up'.st = "IDLE" /\ sens'.st = "IDLE"
  <1>0. /\ wire \in Seq(Command) /\ acks \in Seq({"TAG_MAC", "SENSOR"})
        /\ w \in Nat /\ a \in Nat
        /\ acks # <<>> => a > 0 /\ Len(Tail(acks)) = a - 1
        /\ wire # <<>> => w > 0 /\ Len(Tail(wire)) = w - 1
        /\ \A c \in Command : Len(Append(wire, c)) = w + 1
    BY HeadTailProperties, EmptySeq, AppendProperties DEF LinkInv
  <1>1. reconfigs' = 0 => reconfigs = 0 /\ reconfigs' = reconfigs
    <2>1. reconfigs \in Nat
      BY DEF LinkInv
    <2>2. reconfigs' = reconfigs \/ reconfigs' = reconfigs + 1
      BY DEF StepCases, Aside, scan_recv_cb, ProcessAdv, MSG_SCAN_LENGTH, FreeStart, AckStep,
             Around, MSG_SENSOR_SAMPLE, my_scan_set_config, my_ble_handle, LoseCommand, LoseAck,
             my_lte_pwroff_handle, bounds
    <2> QED BY <2>1, <2>2
  <1> SUFFICES ASSUME reconfigs' = 0, w + a <= 1, idle => w + a = 0
               PROVE  w2 + a2 <= 1 /\ (idle2 => w2 + a2 = 0)
    BY <1>1 DEF LockInv
  <1>2. ASSUME w2 \in Nat, a2 \in Nat, w2 + a2 <= w + a, idle2 => idle
        PROVE  w2 + a2 <= 1 /\ (idle2 => w2 + a2 = 0)
    <2> HIDE DEF w, a, w2, a2, idle, idle2
    <2> QED BY <1>0, <1>2
  <1>3. CASE Aside \/ MSG_SCAN_LENGTH \/ \E t \in ScanTypes : scan_recv_cb(t) \/ ProcessAdv(t)
    <2>1. UNCHANGED <<wire, acks, up, sens>>
      BY <1>3 DEF Aside, MSG_SCAN_LENGTH, scan_recv_cb, ProcessAdv, upload, answers
    <2> QED BY <2>1
  <1>4. CASE FreeStart
    <2>1. idle /\ acks' = acks /\ Talks
      BY <1>4, FreeMoves DEF FreeStart, Moved
    <2>2. w + a = 0 /\ a2 = a /\ (w2 = w \/ (w2 = w + 1 /\ ~idle2))
      BY <1>0, <2>1 DEF Talks
    <2> HIDE DEF w, a, w2, a2, idle, idle2
    <2> QED BY <1>0, <2>2
  <1>5. CASE AckStep
    <2>1. acks # <<>> /\ acks' = Tail(acks) /\ Talks
      BY <1>5, AckMoves DEF AckStep, Moved
    <2>2. a > 0 /\ a2 = a - 1 /\ (w2 = w \/ (w2 = w + 1 /\ ~idle2))
      BY <1>0, <2>1 DEF Talks
    <2> HIDE DEF w, a, w2, a2, idle, idle2
    <2> QED BY <1>0, <2>2
  <1>6. ASSUME NEW t \in SensorTypes, MSG_SENSOR_SAMPLE(t)
        PROVE  w2 + a2 <= 1 /\ (idle2 => w2 + a2 = 0)
    <2>1. /\ acks' = acks /\ up' = up
          /\ \/ wire' = wire /\ (sens' = sens \/ (sens.st = "IDLE" /\ up.st = "IDLE"))
             \/ /\ sens.st = "IDLE" /\ up.st = "IDLE" /\ sens'.st # "IDLE"
                /\ \E c \in Command : wire' = Append(wire, c)
      BY <1>6, SampleLink
    <2>2. a2 = a /\ \/ w2 = w /\ (idle2 => idle)
                    \/ w2 = w + 1 /\ idle /\ ~idle2
      BY <1>0, <2>1
    <2> HIDE DEF w, a, w2, a2, idle, idle2
    <2> QED BY <1>0, <2>2
  <1>7. ASSUME NEW m \in 0 .. 2, my_scan_set_config(m)
        PROVE  w2 + a2 <= 1 /\ (idle2 => w2 + a2 = 0)
    BY <1>1, <1>7 DEF my_scan_set_config, LinkInv
  <1>8. CASE my_ble_handle
    <2>1. wire # <<>> /\ wire' = Tail(wire) /\ a2 = a + 1 /\ UNCHANGED <<up, sens>>
      BY <1>8, AnswerLink DEF my_ble_handle, upload
    <2>2. w2 = w - 1 /\ w > 0 /\ a2 = a + 1 /\ (idle2 => idle)
      BY <1>0, <2>1
    <2> HIDE DEF w, a, w2, a2, idle, idle2
    <2> QED BY <1>0, <1>2, <2>2
  <1>9. CASE LoseCommand
    <2>1. wire # <<>> /\ wire' = Tail(wire) /\ acks' = acks /\ UNCHANGED <<up, sens>>
      BY <1>9 DEF LoseCommand, upload, answers
    <2>2. w2 = w - 1 /\ w > 0 /\ a2 = a /\ (idle2 => idle)
      BY <1>0, <2>1
    <2> HIDE DEF w, a, w2, a2, idle, idle2
    <2> QED BY <1>0, <1>2, <2>2
  <1>10. CASE LoseAck
    <2>1. acks # <<>> /\ acks' = Tail(acks) /\ wire' = wire /\ UNCHANGED <<up, sens>>
      BY <1>10 DEF LoseAck, upload
    <2>2. a2 = a - 1 /\ a > 0 /\ w2 = w /\ (idle2 => idle)
      BY <1>0, <2>1
    <2> HIDE DEF w, a, w2, a2, idle, idle2
    <2> QED BY <1>0, <1>2, <2>2
  <1>11. CASE my_lte_pwroff_handle
    <2>1. acks' = acks /\ UNCHANGED <<up, sens>>
      BY <1>11 DEF my_lte_pwroff_handle, upload, answers
    <2>2. PICK n \in 0 .. Len(wire) : wire' = SubSeq(wire, n + 1, Len(wire))
      BY <1>11 DEF my_lte_pwroff_handle
    <2>3. w2 = w - n /\ a2 = a /\ n \in 0 .. w /\ (idle2 => idle)
      BY <2>1, <2>2, DroppedCommands
    <2> HIDE DEF w, a, w2, a2, idle, idle2
    <2> QED BY <1>0, <1>2, <2>3
  <1> QED BY <1>3, <1>4, <1>5, <1>6, <1>7, <1>8, <1>9, <1>10, <1>11 DEF StepCases

\* What the 4G module has of the records that were read: all of them once a
\* command is acknowledged, all but those of the command while it is under way.
GotInv ==
  reconfigs = 0 =>
    \A t \in Types : \A i \in 1 .. store[t].given :
      /\ acks # <<>> => store[t].q[i] \in got[t]
      /\ wire # <<>> =>
           \/ store[t].q[i] \in got[t]
           \/ /\ Head(wire).type = t
              /\ \E j \in 1 .. Len(Head(wire).recs) : Head(wire).recs[j] = store[t].q[i]

\* No session is open while the link is free.
LEMMA NothingGiven ==
  ASSUME UploadInv, DataInv, up.st = "IDLE", sens.st = "IDLE", NEW t \in Types
  PROVE  store[t].given = 0
  <1>1. ~InCdata
    BY DEF InCdata
  <1>2. ~store[t].open
    BY <1>1 DEF UploadInv, SessionsClosed, Types, ScanTypes
  <1> QED BY <1>2, RegionFacts

\* The command and the acknowledgement under way, when there is at most one.
LEMMA OneUnderWay ==
  ASSUME LinkInv, LockInv, reconfigs = 0
  PROVE  /\ acks # <<>> => wire = <<>> /\ Tail(acks) = <<>>
         /\ wire # <<>> => acks = <<>> /\ Tail(wire) = <<>>
         /\ up.st = "IDLE" /\ sens.st = "IDLE" => wire = <<>> /\ acks = <<>>
  <1> DEFINE w == Len(wire)
             a == Len(acks)
  <1>1. wire \in Seq(Command) /\ acks \in Seq({"TAG_MAC", "SENSOR"})
    BY DEF LinkInv
  <1>2. /\ w \in Nat /\ a \in Nat /\ (w = 0 <=> wire = <<>>) /\ (a = 0 <=> acks = <<>>)
    BY <1>1, EmptySeq
  <1>3. /\ wire # <<>> => Tail(wire) \in Seq(Command) /\ Len(Tail(wire)) = w - 1
        /\ acks # <<>> => Tail(acks) \in Seq({"TAG_MAC", "SENSOR"}) /\ Len(Tail(acks)) = a - 1
    BY <1>1, HeadTailProperties
  <1>4. w + a <= 1 /\ (up.st = "IDLE" /\ sens.st = "IDLE" => w + a = 0)
    BY DEF LockInv
  <1> HIDE DEF w, a
  <1>5. /\ a # 0 => w = 0 /\ a - 1 = 0
        /\ w # 0 => a = 0 /\ w - 1 = 0
        /\ w + a = 0 => w = 0 /\ a = 0
    BY <1>2, <1>4
  <1> QED BY <1>2, <1>3, <1>4, <1>5, EmptySeq

\* A record that was given stays where it is while the region grows.
LEMMA GivenGrown ==
  ASSUME DataInv, NEW t \in Types, Grows(t), NEW i \in 1 .. store'[t].given
  PROVE  i \in 1 .. store[t].given /\ store'[t].q[i] = store[t].q[i]
  <1>1. /\ store'[t].given = store[t].given /\ Kept(store[t].q, store'[t].q)
    BY DEF Grows
  <1>2. store[t].given \in 0 .. Len(store[t].q) /\ Len(store[t].q) \in Nat
    BY RegionFacts
  <1>3. i \in 1 .. Len(store[t].q)
    BY <1>1, <1>2
  <1> QED BY <1>1, <1>3 DEF Kept

\* An upload step, when what was read before it has been received.
LEMMA MovedGot ==
  ASSUME UploadInv, DataInv, LinkInv, Moved, wire = <<>>, acks' = <<>>, got' = got,
         \A t \in Types : \A i \in 1 .. store[t].given : store[t].q[i] \in got[t]
  PROVE  GotInv'
  <1> SUFFICES ASSUME NEW t \in Types, NEW i \in 1 .. store'[t].given, wire' # <<>>
               PROVE  \/ store'[t].q[i] \in got[t]
                      \/ /\ Head(wire').type = t
                         /\ \E j \in 1 .. Len(Head(wire').recs) :
                              Head(wire').recs[j] = store'[t].q[i]
    BY DEF GotInv
  <1>0. SessionMoves(t) /\ store[t].given \in 0 .. Len(store[t].q) /\ Len(store[t].q) \in Nat
    BY RegionFacts DEF Moved
  <1>1. CASE /\ Kept(store[t].q, store'[t].q)
             /\ store'[t].given = 0 \/ store'[t].given = store[t].given
    <2>1. store'[t].given = store[t].given
      BY <1>1
    <2>2. i \in 1 .. store[t].given /\ i \in 1 .. Len(store[t].q)
      BY <1>0, <2>1
    <2> QED BY <1>1, <2>2 DEF Kept
  <1>2. CASE store'[t].given = 0
    BY <1>2
  <1>3. ASSUME store'[t].q = store[t].q,
               NEW c \in Command, wire' = Append(wire, c), c.type = t,
               \A k \in 1 .. store'[t].given :
                 \/ k \in 1 .. store[t].given
                 \/ \E j \in 1 .. Len(c.recs) : c.recs[j] = store[t].q[k]
        PROVE  \/ store'[t].q[i] \in got[t]
               \/ /\ Head(wire').type = t
                  /\ \E j \in 1 .. Len(Head(wire').recs) : Head(wire').recs[j] = store'[t].q[i]
    <2>1. Head(wire') = c
      BY <1>3
    <2> QED BY <1>3, <2>1
  <1>4. wire' # wire
    OBVIOUS
  <1> QED BY <1>0, <1>1, <1>2, <1>3, <1>4 DEF SessionMoves

\* What the module has keeps up with what is read.
LEMMA NextGot ==
  ASSUME UploadInv, DataInv, LinkInv, LockInv, GotInv, StepCases
  PROVE  GotInv'
  <1>1. ASSUME reconfigs' = 0 PROVE reconfigs = 0 \/ \E m \in 0 .. 2 : my_scan_set_config(m)
    BY <1>1 DEF StepCases, Aside, scan_recv_cb, ProcessAdv, MSG_SCAN_LENGTH, FreeStart, AckStep,
             Around, MSG_SENSOR_SAMPLE, my_ble_handle, LoseCommand, LoseAck,
             my_lte_pwroff_handle, bounds
  <1>2. ASSUME NEW m \in 0 .. 2, my_scan_set_config(m) PROVE GotInv'
    <2>1. reconfigs' = reconfigs + 1 /\ reconfigs \in Nat
      BY <1>2 DEF my_scan_set_config, LinkInv
    <2>2. reconfigs' # 0
      BY <2>1
    <2> QED BY <2>2 DEF GotInv
  <1> SUFFICES ASSUME reconfigs = 0, ~ \E m \in 0 .. 2 : my_scan_set_config(m) PROVE GotInv'
    BY <1>1, <1>2 DEF GotInv
  <1>3. /\ acks # <<>> => wire = <<>> /\ Tail(acks) = <<>>
        /\ wire # <<>> => acks = <<>> /\ Tail(wire) = <<>>
        /\ up.st = "IDLE" /\ sens.st = "IDLE" => wire = <<>> /\ acks = <<>>
    BY OneUnderWay
  <1>4. CASE Aside \/ MSG_SCAN_LENGTH \/ \E t \in ScanTypes : scan_recv_cb(t) \/ ProcessAdv(t)
    <2>1. UNCHANGED <<wire, acks, got>>
      BY <1>4 DEF Aside, MSG_SCAN_LENGTH, scan_recv_cb, ProcessAdv, answers
    <2>2. \A t \in Types : Grows(t)
      BY <1>4, OthersGrow
    <2> QED BY <2>1, <2>2, GivenGrown DEF GotInv
  <1>5. CASE FreeStart
    <2>1. /\ Moved /\ wire = <<>> /\ acks' = <<>> /\ got' = got
          /\ up.st = "IDLE" /\ sens.st = "IDLE"
      BY <1>3, <1>5, FreeMoves DEF FreeStart, Around
    <2>2. \A t \in Types : \A i \in 1 .. store[t].given : store[t].q[i] \in got[t]
      BY <2>1, NothingGiven
    <2> QED BY <2>1, <2>2, MovedGot
  <1>6. CASE AckStep
    <2>1. acks # <<>> /\ Moved /\ wire = <<>> /\ acks' = <<>> /\ got' = got
      BY <1>3, <1>6, AckMoves DEF AckStep, Around
    <2>2. \A t \in Types : \A i \in 1 .. store[t].given : store[t].q[i] \in got[t]
      BY <2>1 DEF GotInv
    <2> QED BY <2>1, <2>2, MovedGot
  <1>7. ASSUME NEW t \in SensorTypes, MSG_SENSOR_SAMPLE(t) PROVE GotInv'
    <2>1. \A u \in Types : Grows(u)
      BY <1>7, OthersGrow
    <2>2. /\ acks' = acks /\ got' = got
          /\ wire' = wire \/ (sens.st = "IDLE" /\ up.st = "IDLE")
      BY <1>7, SampleLink
    <2>3. CASE wire' = wire
      BY <2>1, <2>2, <2>3, GivenGrown DEF GotInv
    <2>4. CASE sens.st = "IDLE" /\ up.st = "IDLE"
      <3>1. \A u \in Types : store'[u].given = 0
        BY <2>1, <2>4, NothingGiven DEF Grows
      <3> QED BY <3>1 DEF GotInv
    <2> QED BY <2>2, <2>3, <2>4
  <1>8. CASE my_ble_handle
    <2>1. /\ wire # <<>> /\ wire' = Tail(wire)
          /\ \A t \in Types : /\ got[t] \subseteq got'[t]
                              /\ Head(wire).type = t =>
                                   \A j \in 1 .. Len(Head(wire).recs) : Head(wire).recs[j] \in got'[t]
      BY <1>8, AnswerLink
    <2>2. wire' = <<>>
      BY <1>3, <2>1
    <2>3. \A t \in Types : Grows(t)
      BY <1>8, OthersGrow
    <2>4. ASSUME NEW t \in Types, NEW i \in 1 .. store'[t].given PROVE store'[t].q[i] \in got'[t]
      <3>1. i \in 1 .. store[t].given /\ store'[t].q[i] = store[t].q[i]
        BY <2>3, GivenGrown
      <3>2. \/ store[t].q[i] \in got[t]
            \/ /\ Head(wire).type = t
               /\ \E j \in 1 .. Len(Head(wire).recs) : Head(wire).recs[j] = store[t].q[i]
        BY <2>1, <3>1 DEF GotInv
      <3> QED BY <2>1, <3>1, <3>2
    <2> QED BY <2>2, <2>4 DEF GotInv
  <1>9. CASE LoseCommand
    <2>1. wire # <<>> /\ wire' = Tail(wire) /\ acks' = acks
      BY <1>9 DEF LoseCommand, answers
    <2>2. wire' = <<>> /\ acks' = <<>>
      BY <1>3, <2>1
    <2> QED BY <2>2 DEF GotInv
  <1>10. CASE LoseAck
    <2>1. acks # <<>> /\ acks' = Tail(acks) /\ wire' = wire
      BY <1>10 DEF LoseAck
    <2>2. wire' = <<>> /\ acks' = <<>>
      BY <1>3, <2>1
    <2> QED BY <2>2 DEF GotInv
  <1>11. CASE my_lte_pwroff_handle
    <2>1. acks' = acks /\ got' = got
      BY <1>11 DEF my_lte_pwroff_handle, answers
    <2>2. PICK n \in 0 .. Len(wire) : wire' = SubSeq(wire, n + 1, Len(wire))
      BY <1>11 DEF my_lte_pwroff_handle
    <2>3. \A t \in Types : Grows(t)
      BY <1>11, OthersGrow
    <2>4. wire' = wire \/ wire' = <<>>
      <3>1. wire \in Seq(Command) /\ Len(wire) \in Nat /\ wire' \in Seq(Command)
        BY <2>2, NextLink DEF LinkInv
      <3>2. Len(wire) <= 1
        <4>1. Len(acks) \in Nat /\ Len(wire) + Len(acks) <= 1
          BY DEF LinkInv, LockInv
        <4> QED BY <3>1, <4>1
      <3>3. Len(wire') = Len(wire) - n /\ (n = 0 => wire' = wire)
        BY <2>2, DroppedCommands
      <3>4. n = 0 \/ Len(wire') = 0
        BY <3>1, <3>2, <3>3
      <3> QED BY <3>1, <3>3, <3>4, EmptySeq
    <2> QED BY <2>1, <2>3, <2>4, GivenGrown DEF GotInv
  <1> QED BY <1>4, <1>5, <1>6, <1>7, <1>8, <1>9, <1>10, <1>11 DEF StepCases

-----------------------------------------------------------------------------
(* A round sends what its START declared.                                  *)

\* While the records of type t are being sent: the records read from the
\* session, and then the entries of the table, are counted.
Sending(t) ==
  /\ announced = store[t].lim + up.snap
  /\ up.flash = store[t].given
  /\ up.seq - up.flash <= up.snap
  /\ up.seq > up.flash => store[t].given = store[t].lim

SendInv == \A t \in ScanTypes : up.st = Started(t) => Sending(t)

\* Steps that leave the round alone, and what it reads.
LEMMA SendSame ==
  ASSUME SendInv, up' = up, announced' = announced,
         \A t \in ScanTypes : store'[t].given = store[t].given /\ store'[t].lim = store[t].lim
  PROVE  SendInv'
  BY DEF SendInv, Sending

\* START: nothing is sent yet.
LEMMA StartSend ==
  ASSUME UploadInv, DataInv, NEW t \in ScanTypes, StartRound(t)
  PROVE  SendInv'
  <1> DEFINE l == Len(store[t].q)
             m == Len(table[t])
  <1>0. StoreForm(store) /\ t \in Types
    BY RoundFacts DEF Types
  <1>1. /\ up' = [st |-> Started(t), seq |-> 0, flash |-> 0, snap |-> m]
        /\ store' = UploadBegin(store, t) /\ announced' = l + m
    BY DEF StartRound, Started, Total, Pending
  <1>2. l \in Nat /\ m \in Nat
    BY <1>0, RegionFacts DEF DataInv
  <1>3. store'[t] = Region(store[t].q, TRUE, l)
    BY <1>0, <1>1, RegionAfter DEF Became
  <1>4. store'[t].given = 0 /\ store'[t].lim = l
    BY <1>3 DEF Region
  <1>5. up'.st = Started(t) /\ up'.seq = 0 /\ up'.flash = 0 /\ up'.snap = m
    BY <1>1
  <1> HIDE DEF l, m
  <1>6. \A u \in ScanTypes : up'.st = Started(u) => u = t
    BY <1>5 DEF ScanTypes, Started
  <1>7. Sending(t)'
    BY <1>1, <1>2, <1>4, <1>5 DEF Sending
  <1> QED BY <1>6, <1>7 DEF SendInv

\* DATA from the store: the table's turn has not come.
LEMMA StoredSend ==
  ASSUME UploadInv, DataInv, LinkInv, SendInv, NEW t \in ScanTypes, up.st = Started(t),
         SendStored(t)
  PROVE  SendInv'
  <1> DEFINE g == store[t].given
             lim == store[t].lim
  <1>0. StoreForm(store) /\ t \in Types
    BY RoundFacts DEF Types
  <1>1. /\ lim - g > 0 /\ store' = ReadMore(store, t, 1)
        /\ up' = [up EXCEPT !.seq = @ + 1, !.flash = @ + 1] /\ announced' = announced
    BY DEF SendStored, Readable
  <1>2. up = [st |-> up.st, seq |-> up.seq, flash |-> up.flash, snap |-> up.snap]
    BY DEF UploadInv, ControlForm
  <1>3. /\ up'.st = up.st /\ up'.seq = up.seq + 1 /\ up'.flash = up.flash + 1
        /\ up'.snap = up.snap
    BY <1>1, <1>2
  <1>4. Became(store', store, t, [q |-> store[t].q, given |-> g + 1,
                                  open |-> store[t].open, lim |-> lim])
    BY <1>0, <1>1, RegionAfterRead
  <1>5. store'[t].given = g + 1 /\ store'[t].lim = lim
    BY <1>4 DEF Became
  <1>6. g \in Nat /\ lim \in Nat /\ UpTyped(up)
    BY <1>0, RegionFacts DEF LinkInv
  <1>7. Sending(t)
    BY DEF SendInv
  <1>8. up.seq = up.flash
    BY <1>1, <1>6, <1>7 DEF Sending, UpTyped
  <1>9. Sending(t)'
    <2>1. announced' = lim + up'.snap /\ up'.flash = g + 1
      BY <1>1, <1>3, <1>7 DEF Sending
    <2>2. up'.seq = up'.flash /\ up'.seq \in Nat /\ up'.snap \in Nat
      BY <1>3, <1>6, <1>8 DEF UpTyped
    <2>3. up'.seq - up'.flash <= up'.snap /\ ~(up'.seq > up'.flash)
      BY <2>2
    <2> QED BY <1>5, <2>1, <2>3 DEF Sending
  <1>10. \A u \in ScanTypes : up'.st = Started(u) => u = t
    BY <1>3 DEF ScanTypes, Started
  <1> QED BY <1>9, <1>10 DEF SendInv

\* DATA from the table: the session is read to its end.
LEMMA EntrySend ==
  ASSUME UploadInv, DataInv, LinkInv, SendInv, NEW t \in ScanTypes, up.st = Started(t),
         Readable(store, t) = 0, SendEntry(t)
  PROVE  SendInv'
  <1>1. /\ ~(up.seq - up.flash >= up.snap) /\ store' = store
        /\ up' = [up EXCEPT !.seq = @ + 1] /\ announced' = announced
    BY DEF SendEntry, EntriesSent
  <1>2. up = [st |-> up.st, seq |-> up.seq, flash |-> up.flash, snap |-> up.snap]
    BY DEF UploadInv, ControlForm
  <1>3. /\ up'.st = up.st /\ up'.seq = up.seq + 1 /\ up'.flash = up.flash
        /\ up'.snap = up.snap
    BY <1>1, <1>2
  <1>4. UpTyped(up) /\ Sending(t) /\ t \in Types
    BY DEF LinkInv, SendInv, Types
  <1>5. store[t].given = store[t].lim
    BY <1>4, RegionFacts DEF Readable
  <1>6. up'.seq - up'.flash <= up'.snap
    BY <1>1, <1>3, <1>4 DEF UpTyped
  <1>7. Sending(t)'
    BY <1>1, <1>3, <1>4, <1>5, <1>6 DEF Sending
  <1>8. \A u \in ScanTypes : up'.st = Started(u) => u = t
    BY <1>3 DEF ScanTypes, Started
  <1> QED BY <1>7, <1>8 DEF SendInv

\* A step after which no records are being sent.
LEMMA NotSending ==
  ASSUME up'.st \in {"IDLE", "TAG_END", "MAC_END"}
  PROVE  SendInv'
  BY DEF SendInv, Started, ScanTypes

\* END: everything was sent.
LEMMA EndSend ==
  ASSUME UploadInv, DataInv, LinkInv, SendInv, NEW t \in ScanTypes, up.st = Started(t),
         Readable(store, t) = 0, EndRound(t)
  PROVE  SendInv' /\ up.seq = announced
  <1>1. /\ up.seq - up.flash >= up.snap
        /\ up' = [up EXCEPT !.st = IF t = "TAG" THEN "TAG_END" ELSE "MAC_END",
                            !.seq = 0, !.flash = 0]
    BY DEF EndRound, EntriesSent
  <1>2. up = [st |-> up.st, seq |-> up.seq, flash |-> up.flash, snap |-> up.snap]
    BY DEF UploadInv, ControlForm
  <1>3. up'.st \in {"IDLE", "TAG_END", "MAC_END"}
    BY <1>1, <1>2
  <1>4. UpTyped(up) /\ Sending(t) /\ t \in Types
    BY DEF LinkInv, SendInv, Types
  <1>5. store[t].given = store[t].lim /\ store[t].lim \in Nat
    BY <1>4, RegionFacts DEF Readable
  <1>6. up.seq = announced
    BY <1>1, <1>4, <1>5 DEF Sending, UpTyped
  <1> QED BY <1>3, <1>6, NotSending

\* Every step keeps the count, and a round ends only when it is complete.
LEMMA NextSend ==
  ASSUME ~Faults, UploadInv, DataInv, LinkInv, SendInv, StepCases
  PROVE  /\ SendInv'
         /\ \A t \in ScanTypes : up.st = Started(t) /\ up'.st \in {"TAG_END", "MAC_END"} =>
                                   up.seq = announced
  <1> DEFINE Goal == /\ SendInv'
                     /\ \A t \in ScanTypes :
                          up.st = Started(t) /\ up'.st \in {"TAG_END", "MAC_END"} =>
                            up.seq = announced
  <1>0. \A t \in ScanTypes : Started(t) \notin {"IDLE", "TAG_END", "MAC_END"}
    BY DEF Started
  <1>1. ASSUME up' = up, announced' = announced, \A t \in Types : Grows(t) PROVE Goal
    BY <1>0, <1>1, SendSame DEF Grows, Types
  <1>2. ASSUME up'.st = "IDLE" PROVE Goal
    BY <1>2, NotSending
  <1>3. CASE \/ Aside \/ \E t \in ScanTypes : scan_recv_cb(t) \/ ProcessAdv(t)
             \/ MSG_SCAN_LENGTH \/ \E t \in SensorTypes : MSG_SENSOR_SAMPLE(t)
             \/ my_ble_handle \/ LoseCommand \/ LoseAck \/ my_lte_pwroff_handle
    <2>1. up' = up /\ announced' = announced
      BY <1>3 DEF Aside, scan_recv_cb, ProcessAdv, MSG_SCAN_LENGTH, MSG_SENSOR_SAMPLE,
                  my_ble_handle, LoseCommand, LoseAck, my_lte_pwroff_handle, upload
    <2>2. \A t \in Types : Grows(t)
      BY <1>3, OthersGrow
    <2> QED BY <1>1, <2>1, <2>2
  <1>4. ASSUME NEW t \in ScanTypes, StartRound(t),
               up.st = "IDLE" \/ up.st = "TAG_END"
        PROVE  Goal
    BY <1>0, <1>4, StartSend
  <1>5. CASE FreeStart
    <2>1. up.st = "IDLE"
      BY <1>5 DEF FreeStart
    <2>2. CASE up' = up
      BY <1>2, <2>1, <2>2
    <2> QED BY <1>4, <1>5, <2>1, <2>2 DEF FreeStart
  <1>6. ASSUME NEW t \in ScanTypes, up.st = Started(t), SendStored(t) PROVE Goal
    <2>1. up = [st |-> up.st, seq |-> up.seq, flash |-> up.flash, snap |-> up.snap]
      BY DEF UploadInv, ControlForm
    <2>2. up' = [up EXCEPT !.seq = @ + 1, !.flash = @ + 1]
      BY <1>6 DEF SendStored
    <2>3. up'.st = Started(t)
      BY <1>6, <2>1, <2>2
    <2> QED BY <1>0, <1>6, <2>3, StoredSend
  <1>7. ASSUME NEW t \in ScanTypes, up.st = Started(t), Readable(store, t) = 0, SendEntry(t)
        PROVE  Goal
    <2>1. up = [st |-> up.st, seq |-> up.seq, flash |-> up.flash, snap |-> up.snap]
      BY DEF UploadInv, ControlForm
    <2>2. up' = [up EXCEPT !.seq = @ + 1]
      BY <1>7 DEF SendEntry
    <2>3. up'.st = Started(t)
      BY <1>7, <2>1, <2>2
    <2> QED BY <1>0, <1>7, <2>3, EntrySend
  <1>8. ASSUME NEW t \in ScanTypes, up.st = Started(t), Readable(store, t) = 0, EndRound(t)
        PROVE  Goal
    BY <1>8, EndSend
  <1>9. CASE RoundStep
    <2>1. CASE up' = [up EXCEPT !.st = "IDLE", !.seq = 0, !.flash = 0]
      <3>1. up = [st |-> up.st, seq |-> up.seq, flash |-> up.flash, snap |-> up.snap]
        BY DEF UploadInv, ControlForm
      <3>2. up'.st = "IDLE"
        BY <2>1, <3>1
      <3> QED BY <1>2, <3>2
    <2>2. ASSUME NEW t \in ScanTypes, up.st = Started(t),
                 \/ SendStored(t)
                 \/ (Readable(store, t) = 0 \/ Faults) /\ (SendEntry(t) \/ EndRound(t))
          PROVE  Goal
      <3> HIDE DEF Goal
      <3> QED BY <1>6, <1>7, <1>8, <2>2
    <2>3. CASE /\ up.st = "IDLE" \/ up.st = "TAG_END"
               /\ \E t \in ScanTypes : StartRound(t)
      <3>1. PICK t \in ScanTypes : StartRound(t)
        BY <2>3
      <3> QED BY <1>4, <2>3, <3>1, Zenon
    <2>4. \/ /\ up.st = "IDLE" \/ up.st = "TAG_END"
             /\ \E t \in ScanTypes : StartRound(t)
          \/ \E t \in ScanTypes :
               /\ up.st = Started(t)
               /\ \/ SendStored(t)
                  \/ (Readable(store, t) = 0 \/ Faults) /\ (SendEntry(t) \/ EndRound(t))
          \/ up' = [up EXCEPT !.st = "IDLE", !.seq = 0, !.flash = 0]
      BY <1>9, Zenon DEF RoundStep
    <2> QED BY <2>1, <2>2, <2>3, <2>4
  <1>10. CASE SensorStep
    BY <1>2, <1>10 DEF SensorStep
  <1>11. CASE UNCHANGED <<table, store, up, sens, wire, announced>>
    BY <1>0, <1>11, SendSame
  <1>12. CASE AckStep
    BY <1>9, <1>10, <1>11, <1>12 DEF AckStep
  <1>13. ASSUME NEW m \in 0 .. 2, my_scan_set_config(m) PROVE Goal
    BY <1>2, <1>13 DEF my_scan_set_config, IdleUp
  <1> QED BY <1>3, <1>5, <1>12, <1>13 DEF StepCases

-----------------------------------------------------------------------------
(* The modes, the radio and the message flags.                             *)

ScannerSet == [state : ScanStates, radio : BOOLEAN, timer : BOOLEAN]
PlainInv == /\ mode \in 0 .. 2 /\ scanner \in ScannerSet
            /\ lenMsg \in BOOLEAN /\ wakeMsg \in BOOLEAN /\ lteReady \in BOOLEAN
UnsentInv == unsent \in BOOLEAN

\* Stopping and starting the radio.
LEMMA RadioTyped ==
  ASSUME NEW s \in ScannerSet, NEW ok, NEW m
  PROVE  StopScan(s, ok) \in ScannerSet /\ StartScan(s, m, ok) \in ScannerSet
  BY DEF ScannerSet, StopScan, StartScan, ScanStates

\* A call of tag_mac_scan_upload_data sets the scan state at most.
LEMMA RoundTyped ==
  ASSUME NEW sc \in ScannerSet, tag_mac_scan_upload_data(sc)
  PROVE  scanner' \in ScannerSet
  <1>1. \/ scanner' = sc \/ scanner' = [sc EXCEPT !.state = "WAITING"]
        \/ scanner' = [sc EXCEPT !.state = "IDLE"]
    BY DEF tag_mac_scan_upload_data, Waiting, Resumed
  <1> QED BY <1>1 DEF ScannerSet, ScanStates

\* Every step keeps them.
LEMMA NextPlain == PlainInv /\ [Next]_vars => PlainInv'
  <1> SUFFICES ASSUME PlainInv, [Next]_vars PROVE PlainInv'
    OBVIOUS
  <1>0. scanner \in ScannerSet
    BY DEF PlainInv
  <1>1. ASSUME NEW t \in ScanTypes, scan_recv_cb(t) \/ ProcessAdv(t) PROVE PlainInv'
    BY <1>1 DEF scan_recv_cb, ProcessAdv, PlainInv, msgs
  <1>2. CASE MSG_SCAN_INTERVAL
    <2>1. scanner' \in ScannerSet /\ UNCHANGED <<mode, lenMsg, wakeMsg, lteReady>>
      BY <1>0, <1>2, RadioTyped DEF MSG_SCAN_INTERVAL, msgs
    <2> QED BY <2>1 DEF PlainInv
  <1>3. CASE scan_length_timer_cb
    <2>1. /\ scanner' = [scanner EXCEPT !.timer = FALSE] /\ lenMsg' = TRUE
          /\ UNCHANGED <<mode, wakeMsg, lteReady>>
      BY <1>3 DEF scan_length_timer_cb
    <2>2. scanner' \in ScannerSet
      BY <1>0, <2>1 DEF ScannerSet
    <2> QED BY <2>1, <2>2 DEF PlainInv
  <1>4. CASE MSG_SCAN_LENGTH
    <2>1. /\ scanner' \in ScannerSet /\ lenMsg' = FALSE
          /\ UNCHANGED <<mode, wakeMsg, lteReady>>
      BY <1>0, <1>4, RadioTyped DEF MSG_SCAN_LENGTH
    <2> QED BY <2>1 DEF PlainInv
  <1>5. CASE MSG_UPLOAD_TAG_AND_MAC
    <2>1. scanner' \in ScannerSet
      BY <1>0, <1>5, RoundTyped DEF MSG_UPLOAD_TAG_AND_MAC
    <2>2. UNCHANGED <<mode, lenMsg, wakeMsg, lteReady>>
      BY <1>5 DEF MSG_UPLOAD_TAG_AND_MAC, msgs
    <2> QED BY <2>1, <2>2 DEF PlainInv
  <1>6. CASE MSG_SCAN_UPLOAD
    <2>1. scanner' \in ScannerSet
      BY <1>0, <1>6, RadioTyped, RoundTyped DEF MSG_SCAN_UPLOAD, scan_trigger_upload
    <2>2. UNCHANGED <<mode, lenMsg, wakeMsg, lteReady>>
      BY <1>6 DEF MSG_SCAN_UPLOAD, msgs
    <2> QED BY <2>1, <2>2 DEF PlainInv
  <1>7. CASE MSG_UPLOAD_WAKEUP
    <2>1. scanner' \in ScannerSet
      <3>1. PICK sc : /\ sc = scanner \/ \E ok : sc = StopScan(scanner, ok)
                      /\ tag_mac_scan_upload_data(sc) \/ scanner' = sc
        BY <1>7 DEF MSG_UPLOAD_WAKEUP
      <3>2. sc \in ScannerSet
        BY <1>0, <3>1, RadioTyped
      <3> QED BY <3>1, <3>2, RoundTyped
    <2>2. wakeMsg' = FALSE /\ UNCHANGED <<mode, lenMsg, lteReady>>
      BY <1>7 DEF MSG_UPLOAD_WAKEUP
    <2> QED BY <2>1, <2>2 DEF PlainInv
  <1>8. ASSUME NEW t \in SensorTypes, MSG_SENSOR_SAMPLE(t) PROVE PlainInv'
    BY <1>8 DEF MSG_SENSOR_SAMPLE, PlainInv, msgs
  <1>9. CASE MSG_SENSOR_LTE_ACK
    BY <1>9 DEF MSG_SENSOR_LTE_ACK, PlainInv, msgs
  <1>10. ASSUME NEW m \in 0 .. 2, my_scan_set_config(m) PROVE PlainInv'
    <2>1. PICK ok, ok2 :
            scanner' = StartScan([state |-> "IDLE", radio |-> StopScan(scanner, ok).radio,
                                  timer |-> FALSE], m, ok2)
      BY <1>10 DEF my_scan_set_config
    <2>2. StopScan(scanner, ok) \in ScannerSet
      BY <1>0, RadioTyped
    <2>3. [state |-> "IDLE", radio |-> StopScan(scanner, ok).radio, timer |-> FALSE] \in ScannerSet
      BY <2>2 DEF ScannerSet, ScanStates
    <2>4. scanner' \in ScannerSet
      BY <2>1, <2>3, RadioTyped
    <2>5. mode' = m /\ UNCHANGED <<lenMsg, wakeMsg, lteReady>>
      BY <1>10 DEF my_scan_set_config, msgs
    <2> QED BY <2>4, <2>5 DEF PlainInv
  <1>11. CASE my_ble_handle \/ LoseCommand \/ LoseAck
    BY <1>11 DEF my_ble_handle, LoseCommand, LoseAck, PlainInv, msgs
  <1>12. CASE my_lte_pwroff_handle \/ my_lte_handle_power_on \/ my_scan_upload_on_lte_wakeup
    BY <1>12 DEF my_lte_pwroff_handle, my_lte_handle_power_on, my_scan_upload_on_lte_wakeup,
                 PlainInv, msgs
  <1>13. CASE UNCHANGED vars
    BY <1>13 DEF vars, PlainInv
  <1> QED BY <1>1, <1>2, <1>3, <1>4, <1>5, <1>6, <1>7, <1>8, <1>9, <1>10, <1>11, <1>12, <1>13
          DEF Next

\* Handing a command over tells whether it was.
LEMMA SendTyped ==
  ASSUME NEW c, Send(c)
  PROVE  unsent' \in BOOLEAN
  BY DEF Send

\* A sensor upload sends a command or none.
LEMMA SensorTyped ==
  ASSUME UnsentInv
  PROVE  /\ \A st, busy, idle :
              sensor_cached_upload_try_start(st, busy, idle) => unsent' \in BOOLEAN
         /\ \A nx : sensor_cdata_send_next_packet(nx) => unsent' \in BOOLEAN
         /\ SensorReset => unsent' \in BOOLEAN
  <1>1. SensorReset => unsent' \in BOOLEAN
    BY DEF SensorReset, UnsentInv
  <1>2. ASSUME NEW st, NEW busy, NEW idle, sensor_cached_upload_try_start(st, busy, idle)
        PROVE  unsent' \in BOOLEAN
    <2>1. unsent' = unsent \/ \E c : Send(c)
      BY <1>2 DEF sensor_cached_upload_try_start
    <2> QED BY <2>1, SendTyped DEF UnsentInv
  <1>3. ASSUME NEW nx, sensor_cdata_send_next_packet(nx) PROVE unsent' \in BOOLEAN
    <2>1. SensorReset \/ \E c : Send(c)
      BY <1>3 DEF sensor_cdata_send_next_packet
    <2> QED BY <1>1, <2>1, SendTyped
  <1> QED BY <1>1, <1>2, <1>3

\* A step of a round sends a command, or ends the round.
LEMMA RoundSends ==
  ASSUME UnsentInv, NEW sc, tag_mac_scan_upload_data(sc)
  PROVE  unsent' \in BOOLEAN
  <1>1. ASSUME NEW t, StartRound(t) \/ SendNext(t) PROVE unsent' \in BOOLEAN
    <2>1. \E c : Send(c)
      BY <1>1 DEF StartRound, SendNext, SendStored, SendEntry, EndRound
    <2> QED BY <2>1, SendTyped
  <1>2. ASSUME RoundOver PROVE unsent' \in BOOLEAN
    BY <1>2, SensorTyped DEF RoundOver
  <1>3. RoundOver \/ \E t : StartRound(t) \/ SendNext(t)
    BY Zenon DEF tag_mac_scan_upload_data
  <1> QED BY <1>1, <1>2, <1>3

\* Every step keeps it.
LEMMA NextUnsent == UnsentInv /\ [Next]_vars => UnsentInv'
  <1> SUFFICES ASSUME UnsentInv, [Next]_vars PROVE unsent' \in BOOLEAN
    BY DEF UnsentInv
  <1>0. unsent \in BOOLEAN
    BY DEF UnsentInv
  <1>1. ASSUME NEW t \in ScanTypes, scan_recv_cb(t) \/ ProcessAdv(t)
        PROVE  unsent' \in BOOLEAN
    BY <1>0, <1>1 DEF scan_recv_cb, ProcessAdv
  <1>2. CASE MSG_SCAN_INTERVAL \/ scan_length_timer_cb \/ MSG_SCAN_LENGTH
    BY <1>0, <1>2 DEF MSG_SCAN_INTERVAL, scan_length_timer_cb, MSG_SCAN_LENGTH
  <1>3. CASE MSG_UPLOAD_TAG_AND_MAC
    BY <1>0, <1>3, RoundSends DEF MSG_UPLOAD_TAG_AND_MAC
  <1>4. CASE MSG_SCAN_UPLOAD
    BY <1>0, <1>4, RoundSends DEF MSG_SCAN_UPLOAD, scan_trigger_upload
  <1>5. CASE MSG_UPLOAD_WAKEUP
    <2>1. \/ \E sc : tag_mac_scan_upload_data(sc)
          \/ \E st, busy, idle : sensor_cached_upload_try_start(st, busy, idle)
      BY <1>5, Zenon DEF MSG_UPLOAD_WAKEUP
    <2> QED BY <2>1, RoundSends, SensorTyped
  <1>6. ASSUME NEW t \in SensorTypes, MSG_SENSOR_SAMPLE(t) PROVE unsent' \in BOOLEAN
    <2>1. unsent' = unsent \/ \E c : Send(c)
      BY <1>6 DEF MSG_SENSOR_SAMPLE
    <2> QED BY <1>0, <2>1, SendTyped
  <1>7. CASE MSG_SENSOR_LTE_ACK
    <2>1. ASSUME CdataAck PROVE unsent' \in BOOLEAN
      <3>1. \/ SensorReset \/ \E c : Send(c)
            \/ \E nx : sensor_cdata_send_next_packet(nx)
            \/ \E st, busy, idle : sensor_cached_upload_try_start(st, busy, idle)
        BY <2>1 DEF CdataAck
      <3> QED BY <3>1, SendTyped, SensorTyped
    <2>2. ASSUME NEW t, LiveAck(t) PROVE unsent' \in BOOLEAN
      BY <2>2, SensorTyped DEF LiveAck
    <2> QED BY <1>0, <1>7, <2>1, <2>2 DEF MSG_SENSOR_LTE_ACK, Unexpected
  <1>8. ASSUME NEW m \in 0 .. 2, my_scan_set_config(m) PROVE unsent' \in BOOLEAN
    BY <1>0, <1>8 DEF my_scan_set_config
  <1>9. CASE my_ble_handle \/ LoseCommand \/ LoseAck \/ my_lte_pwroff_handle
    BY <1>0, <1>9 DEF my_ble_handle, LoseCommand, LoseAck, my_lte_pwroff_handle
  <1>10. CASE my_lte_handle_power_on \/ my_scan_upload_on_lte_wakeup
    BY <1>0, <1>10 DEF my_lte_handle_power_on, my_scan_upload_on_lte_wakeup
  <1>11. CASE UNCHANGED vars
    BY <1>0, <1>11 DEF vars
  <1> QED BY <1>1, <1>2, <1>3, <1>4, <1>5, <1>6, <1>7, <1>8, <1>9, <1>10, <1>11 DEF Next

-----------------------------------------------------------------------------
(* The theorems.                                                           *)

\* All parts but the count of a round, which a failing flash read upsets.
AllInv == /\ UploadInv /\ DataInv /\ LinkInv
          /\ LockInv /\ GotInv /\ PlainInv /\ UnsentInv

LEMMA InitAll == Init => AllInv /\ SendInv
  <1> SUFFICES ASSUME Init PROVE AllInv /\ SendInv
    OBVIOUS
  <1>1. UploadInv /\ DataInv
    BY InitInv, InitData
  <1>2. /\ wire = <<>> /\ acks = <<>> /\ sensRsp = "NONE" /\ reconfigs = 0
        /\ got = [t \in Types |-> {}] /\ up = IdleUp /\ sens = IdleSens
    BY DEF Init
  <1>3. <<>> \in Seq(Command) /\ <<>> \in Seq({"TAG_MAC", "SENSOR"}) /\ Len(<<>>) = 0
    OBVIOUS
  <1>4. UpTyped(IdleUp) /\ SensTyped(IdleSens)
    BY DEF UpTyped, SensTyped, IdleUp, IdleSens
  <1>5. got \in [Types -> SUBSET Nat] /\ \A t \in Types : got[t] \subseteq 0 .. MaxRec[t]
    BY <1>2
  <1>6. LinkInv
    BY <1>2, <1>3, <1>4, <1>5 DEF LinkInv
  <1>7. LockInv
    BY <1>2, <1>3 DEF LockInv
  <1>8. GotInv
    BY <1>2 DEF GotInv
  <1>9. PlainInv
    <2>1. [state |-> "IDLE", radio |-> FALSE, timer |-> FALSE] \in ScannerSet
      BY DEF ScannerSet, ScanStates
    <2>2. scanner \in ScannerSet
      BY <2>1, RadioTyped DEF Init
    <2> QED BY <2>2 DEF Init, PlainInv
  <1>10. SendInv
    BY <1>2 DEF SendInv, IdleUp, Started
  <1>11. UnsentInv
    BY DEF Init, UnsentInv
  <1> QED BY <1>1, <1>6, <1>7, <1>8, <1>9, <1>10, <1>11 DEF AllInv

LEMMA NextAll == AllInv /\ [Next]_vars => AllInv'
  BY NextInv, NextData, CasesOfNext, NextLink, NextLock, NextGot, NextPlain, NextUnsent
  DEF AllInv

\* Every variable of the upload has its type, for all bounds and with losses
\* and failing calls; in particular no table outgrows its array and no session
\* is read past its end.
THEOREM ScanUploadTypes == Spec => []TypeOK
PROOF
  <1>1. AllInv => TypeOK
    <2> SUFFICES ASSUME AllInv PROVE TypeOK
      OBVIOUS
    <2>0. UploadInv /\ DataInv /\ LinkInv /\ PlainInv
      BY DEF AllInv
    <2>1. ASSUME NEW t \in ScanTypes
          PROVE  /\ heard[t] \in 0 .. HeardMax
                 /\ table[t] \in Seq(Captures(t)) /\ Len(table[t]) <= TableMax[t]
      <3> DEFINE tab == table[t]
      <3>1. /\ heard[t] \in 0 .. HeardMax
            /\ tab \in Seq(Nat) /\ Len(tab) <= TableMax[t]
            /\ \A i \in 1 .. Len(tab) : tab[i] \in 1 .. captured[t]
            /\ captured[t] \in Nat /\ captured[t] <= MaxRec[t] /\ MaxRec[t] \in Nat
        BY <2>0, BoundAssumption, SMTT(30) DEF DataInv, TableOK, Types
      <3> HIDE DEF tab
      <3>2. \A i \in 1 .. Len(tab) : tab[i] \in Captures(t)
        BY <3>1 DEF Captures
      <3>3. tab \in Seq(Captures(t))
        BY <3>1, <3>2, SMTT(30)
      <3> QED BY <3>1, <3>3 DEF tab
    <2>2. ASSUME NEW t \in Types
          PROVE  /\ store[t].q \in Seq(Captures(t))
                 /\ store[t].lim \in 0 .. Len(store[t].q)
                 /\ store[t].given \in 0 .. store[t].lim
                 /\ store[t].open \in BOOLEAN
                 /\ captured[t] \in 0 .. MaxRec[t]
                 /\ got[t] \subseteq Captures(t) \cup {Blank}
      <3> DEFINE q == store[t].q
      <3>1. /\ q \in Seq(Nat) /\ \A i \in 1 .. Len(q) : q[i] \in Captures(t)
            /\ store[t].lim \in 0 .. Len(q) /\ store[t].given \in 0 .. store[t].lim
        BY <2>0, RegionFacts DEF Captures
      <3>2. store[t].open \in BOOLEAN
        BY <2>0 DEF UploadInv, ControlForm
      <3>3. captured[t] \in 0 .. MaxRec[t]
        BY <2>0, BoundAssumption DEF DataInv
      <3>4. got[t] \subseteq Captures(t) \cup {Blank}
        BY <2>0, BoundAssumption DEF LinkInv, Captures, Blank
      <3> HIDE DEF q
      <3>5. q \in Seq(Captures(t))
        BY <3>1
      <3> QED BY <3>1, <3>2, <3>3, <3>4, <3>5 DEF q
    <2>3. /\ up.st \in UpStates /\ up.flash \in 0 .. up.seq
          /\ up.seq \in Nat /\ up.snap \in Nat
          /\ sens.st \in SensStates /\ sens.type \in SensorTypes \cup {"NONE"}
          /\ sens.next \in 0 .. sens.total
          /\ sensRsp \in SensorTypes \cup {"NONE", "CDATA"}
      BY <2>0 DEF UploadInv, ControlForm, LinkInv, UpTyped, SensTyped
    <2>4. /\ mode \in 0 .. 2
          /\ scanner \in [state : ScanStates, radio : BOOLEAN, timer : BOOLEAN]
          /\ lenMsg \in BOOLEAN /\ wakeMsg \in BOOLEAN /\ lteReady \in BOOLEAN
      BY <2>0 DEF PlainInv, ScannerSet
    <2>5. unsent \in BOOLEAN
      BY DEF AllInv, UnsentInv
    <2> QED BY <2>1, <2>2, <2>3, <2>4, <2>5 DEF TypeOK
  <1> QED BY <1>1, InitAll, NextAll, PTL DEF Spec

\* Without a reconfiguration at most one command or acknowledgement is under
\* way, whatever is lost or fails: the anonymous acknowledgements that
\* my_ble_handle passes on stand for the last command.
THEOREM LinkInLockStep == Spec => []LockStep
PROOF
  <1>1. AllInv => LockStep
    BY DEF AllInv, LockInv, LockStep
  <1> QED BY <1>1, InitAll, NextAll, PTL DEF Spec

\* Without a reconfiguration a record leaves the store only after the 4G module
\* received it: my_flash_store_commit runs when everything read in the session
\* has been acknowledged.
THEOREM OnlyReceivedCommitted == Spec => CommitsReceivedUnlessReconfigured
PROOF
  <1> DEFINE A == reconfigs = 0 =>
                    \A t \in Types : \A i \in 1 .. Len(store[t].q) :
                      \/ \E j \in 1 .. Len(store'[t].q) : store'[t].q[j] = store[t].q[i]
                      \/ store[t].q[i] \in got[t]
  <1>1. AllInv /\ [Next]_vars => A
    <2> SUFFICES ASSUME AllInv, StepCases, reconfigs = 0,
                        NEW t \in Types, NEW i \in 1 .. Len(store[t].q)
                 PROVE  \/ \E j \in 1 .. Len(store'[t].q) : store'[t].q[j] = store[t].q[i]
                        \/ store[t].q[i] \in got[t]
      BY CasesOfNext DEF AllInv
    <2>0. UploadInv /\ DataInv /\ LinkInv /\ LockInv /\ GotInv
      BY DEF AllInv
    <2> DEFINE q == store[t].q
               q2 == store'[t].q
               g == store[t].given
    <2>1. q \in Seq(Nat) /\ Len(q) \in Nat /\ g \in 0 .. Len(q) /\ g \in Nat
      BY <2>0, RegionFacts
    <2>2. ASSUME Kept(q, q2) PROVE \E j \in 1 .. Len(q2) : q2[j] = q[i]
      <3> HIDE DEF q, q2
      <3>1. i \in 1 .. Len(q2) /\ q2[i] = q[i]
        <4>1. Len(q2) \in Nat /\ Len(q) <= Len(q2) /\ i \in 1 .. Len(q)
          BY <2>2 DEF Kept, q
        <4> QED BY <2>1, <2>2, <4>1 DEF Kept
      <3> QED BY <3>1
    <2>3. CASE \/ Aside \/ \E u \in ScanTypes : scan_recv_cb(u) \/ ProcessAdv(u)
               \/ MSG_SCAN_LENGTH \/ \E u \in SensorTypes : MSG_SENSOR_SAMPLE(u)
               \/ my_ble_handle \/ LoseCommand \/ LoseAck \/ my_lte_pwroff_handle
      <3>1. Grows(t)
        BY <2>0, <2>3, OthersGrow
      <3> QED BY <2>2, <3>1 DEF Grows
    <2>4. ASSUME NEW m \in 0 .. 2, my_scan_set_config(m)
          PROVE \E j \in 1 .. Len(q2) : q2[j] = q[i]
      BY <2>0, <2>2, <2>4, SetConfigKept
    <2>5. CASE FreeStart \/ AckStep
      <3>1. SessionMoves(t)
        BY <2>0, <2>5, FreeMoves, AckMoves DEF Moved
      <3>2. CASE Kept(q, q2)
        BY <2>2, <3>2
      <3>3. CASE q2 = q
        BY <3>3
      <3>4. CASE q2 = SubSeq(q, g + 1, Len(q))
        <4>1. CASE i > g
          <5> DEFINE k == i - g
          <5>1. /\ Len(q2) = Len(q) - g
                /\ \A j \in 1 .. Len(q) - g : q2[j] = q[g + j]
            BY <2>1, <3>4, QueueAfter
          <5> HIDE DEF q, q2, g
          <5>2. k \in 1 .. Len(q) - g /\ g + k = i
            BY <2>1, <4>1 DEF q
          <5>3. q2[k] = q[i] /\ k \in 1 .. Len(q2)
            BY <5>1, <5>2
          <5> QED BY <5>3 DEF q, q2
        <4>2. CASE ~(i > g)
          <5>1. i \in 1 .. g /\ g # 0
            <6> HIDE DEF g
            <6>1. i \in Nat /\ i >= 1
              BY <2>1
            <6> QED BY <2>1, <4>2, <6>1
          <5>2. acks # <<>>
            BY <2>0, <2>5, <5>1, NothingGiven DEF FreeStart, AckStep
          <5> QED BY <2>0, <5>1, <5>2 DEF GotInv
        <4> QED BY <4>1, <4>2
      <3> QED BY <3>1, <3>2, <3>3, <3>4 DEF SessionMoves
    <2> QED BY <2>3, <2>4, <2>5 DEF StepCases
  <1> HIDE DEF A
  <1>2. AllInv /\ [Next]_vars => [A]_vars
    BY <1>1
  <1>3. Spec => [][A]_vars
    BY <1>2, InitAll, NextAll, PTL DEF Spec
  <1> QED BY <1>3 DEF A, CommitsReceivedUnlessReconfigured

\* As long as flash reads do not fail, a round sends as many records between
\* START and END as START declared, although the table and the store change
\* meanwhile; losses only stop it.
THEOREM RoundsSendWhatTheyAnnounce ==
  ASSUME ~Faults
  PROVE  Spec => SentAsAnnounced
PROOF
  <1> DEFINE A == /\ up.st = "TAG_START" /\ up'.st = "TAG_END" => up.seq = announced
                  /\ up.st = "MAC_START" /\ up'.st = "MAC_END" => up.seq = announced
  <1>1. AllInv /\ SendInv /\ [Next]_vars => SendInv' /\ A
    <2> SUFFICES ASSUME AllInv, SendInv, StepCases PROVE SendInv' /\ A
      BY CasesOfNext DEF AllInv
    <2>1. /\ SendInv'
          /\ \A t \in ScanTypes : up.st = Started(t) /\ up'.st \in {"TAG_END", "MAC_END"} =>
                                    up.seq = announced
      BY NextSend DEF AllInv
    <2> QED BY <2>1 DEF ScanTypes, Started
  <1> HIDE DEF A
  <1>2. AllInv /\ SendInv /\ [Next]_vars => SendInv' /\ [A]_vars
    BY <1>1
  <1>3. Spec => [][A]_vars
    BY <1>2, InitAll, NextAll, PTL DEF Spec
  <1> QED BY <1>3 DEF A, SentAsAnnounced
=============================================================================
