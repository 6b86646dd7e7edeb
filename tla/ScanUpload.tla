----------------------------- MODULE ScanUpload -----------------------------
(***************************************************************************)
(* Scanning for tags and MACs and the upload of what was collected over    *)
(* the serial line to the 4G module (my_ble_scan.c).                       *)
(*                                                                         *)
(* Scan results are collected in RAM tables, moved to the flash store when *)
(* a scan ends, and uploaded in rounds (START, one command per record,     *)
(* END; the next command is sent when an acknowledgement arrives).  Sensor *)
(* samples go out at once when the 4G module is ready and are otherwise    *)
(* stored and uploaded in packets (CDATA).  The BLE thread runs one        *)
(* message handler at a time; timers, the radio and the LTE thread post    *)
(* messages to it.                                                         *)
(*                                                                         *)
(* A record is its capture number, which is also its timestamp: the clock  *)
(* is taken not to be set back, which the 4G module could do.  The store   *)
(* is the record queue that FlashStore is shown to implement, one per data *)
(* type, used below its capacity.  Acknowledgements carry no sequence      *)
(* number: those for TAG and MACINFO commands are one message, those for   *)
(* TH, BP and CDATA are a message plus the shared variable s_sensor_ble_rsp*)
(***************************************************************************)
EXTENDS Integers, Sequences

CONSTANTS
  TableMax,      \* TAG_RESULT_MAX_NUM and TRAN_MAC_MAX_NUM, by type
  MaxRec,        \* bound on the captures of each type
  MaxAll,        \* bound on the captures of all types
  PacketMax,     \* sensor_cdata_max_records_per_packet
  HeardMax,      \* bound on advertisements waiting in the process queues
  MaxReconfig,   \* bound on calls of my_scan_set_config after the start
  MaxOff,        \* bound on power cycles of the 4G module
  Lossy,         \* commands and acknowledgements may be lost
  Faults         \* radio, memory and flash calls may fail

ScanTypes   == {"TAG", "MAC"}
SensorTypes == {"TH", "BP"}
Types       == ScanTypes \cup SensorTypes

ASSUME BoundAssumption ==
  /\ TableMax \in [ScanTypes -> Nat \ {0}]
  /\ MaxRec \in [Types -> Nat] /\ MaxAll \in Nat
  /\ PacketMax \in Nat \ {0} /\ HeardMax \in Nat
  /\ MaxReconfig \in Nat /\ MaxOff \in Nat
  /\ Lossy \in BOOLEAN /\ Faults \in BOOLEAN

VARIABLES
  mode,       \* s_scan_config.mode
  scanner,    \* s_scan_config.state, the radio and the scan length timer
  lenMsg,     \* a SCAN_LENGTH message is queued
  wakeMsg,    \* an UPLOAD_WAKEUP message is queued
  heard,      \* advertisements of new or known devices not yet processed
  table,      \* s_result_table and s_tran_mac_result_table
  store,      \* the four regions of the flash store
  up,         \* s_tag_macinfo_upload_state, _seq, s_flash_consumed, s_rt_count_snap
  sens,       \* s_sensor_upload_ctx
  lteReady,   \* g_bLteReady
  wire,       \* commands on their way to the 4G module
  unsent,     \* history: the last command was not handed over
  acks,       \* acknowledgement messages queued for the BLE thread
  sensRsp,    \* s_sensor_ble_rsp.type
  captured,   \* history: captures so far, by type
  announced,  \* history: records the last START declared
  got,        \* history: records the 4G module received
  reconfigs, offs

vars == <<mode, scanner, lenMsg, wakeMsg, heard, table, store, up, sens,
          lteReady, wire, unsent, acks, sensRsp, captured, announced, got,
          reconfigs, offs>>

msgs    == <<lenMsg, wakeMsg>>
upload  == <<table, up, announced>>
answers == <<acks, sensRsp, got>>
bounds  == <<reconfigs, offs>>

ScanStates == {"IDLE", "SCANNING", "WAITING"}
UpStates   == {"IDLE", "TAG_START", "TAG_END", "MAC_START", "MAC_END"}
SensStates == {"IDLE", "TH_WAIT", "BP_WAIT",
               "CDATA_START", "CDATA_DATA", "CDATA_END"}
Blank      == 0          \* a table entry that memset cleared
IdleUp     == [st |-> "IDLE", seq |-> 0, flash |-> 0, snap |-> 0]
IdleSens   == [st |-> "IDLE", type |-> "NONE", total |-> 0, next |-> 0]
EmptyTable == [t \in ScanTypes |-> <<>>]
MayFail(flag) == IF flag THEN {TRUE, FALSE} ELSE {TRUE}

-----------------------------------------------------------------------------
(* The store, one record queue per type.                                   *)
EmptyStore == [t \in Types |-> [q |-> <<>>, given |-> 0, open |-> FALSE, lim |-> 0]]
Pending(st, t) == Len(st[t].q)
Push(st, t, recs) == [st EXCEPT ![t].q = @ \o recs]
Region(q, open, lim) == [q |-> q, given |-> 0, open |-> open, lim |-> lim]
UploadBegin(st, t) == [st EXCEPT ![t] = Region(@.q, TRUE, Len(@.q))]
Rewind(st, t) == [st EXCEPT ![t] = Region(@.q, FALSE, 0)]
Readable(st, t) == st[t].lim - st[t].given
ReadMore(st, t, n) == [st EXCEPT ![t].given = @ + n]
CommitEverything(st, t) == [st EXCEPT ![t] = Region(<<>>, FALSE, 0)]
Commit(st, t) ==
  [st EXCEPT ![t] = Region(SubSeq(@.q, @.given + 1, Len(@.q)), FALSE, 0)]

-----------------------------------------------------------------------------
(* The radio and the tables.                                               *)

\* scan_stop_internal: nothing to do unless scanning; the radio may refuse.
StopScan(s, ok) ==
  IF s.state = "SCANNING" /\ ok
  THEN [state |-> "IDLE", radio |-> FALSE, timer |-> FALSE]
  ELSE s

\* scan_start_internal: a radio that is still scanning cannot be started.
StartScan(s, m, ok) ==
  IF m # 0 /\ s.state # "SCANNING" /\ ~s.radio /\ ok
  THEN [state |-> "SCANNING", radio |-> TRUE, timer |-> TRUE]
  ELSE s

FoundOrder(tab) == tab
\* The entries of a table in time order, as the flush functions sort them:
\* p[i] is the place in the table of the i-th oldest entry.
Sorts(p, tab) == \A i, j \in DOMAIN tab : i < j => /\ p[i] # p[j]
                                                  /\ tab[p[i]] <= tab[p[j]]
TimeOrder(tab) ==
  LET p == CHOOSE f \in [DOMAIN tab -> DOMAIN tab] : Sorts(f, tab)
  IN  [i \in DOMAIN tab |-> tab[p[i]]]

FlushTable(st, t) == Push(st, t, TimeOrder(table[t]))
FlushTables(st) == FlushTable(FlushTable(st, "TAG"), "MAC")

NewRec(t) == captured[t] + 1

\* Captures and advertisements so far, of all types.
Taken == captured["TAG"] + captured["MAC"] + captured["TH"] + captured["BP"]
           + heard["TAG"] + heard["MAC"]

\* The radio reports an advertisement.
scan_recv_cb(t) ==
  /\ scanner.radio
  /\ heard[t] < HeardMax
  /\ captured[t] + heard[t] < MaxRec[t] /\ Taken < MaxAll
  /\ heard' = [heard EXCEPT ![t] = @ + 1]
  /\ UNCHANGED <<mode, scanner, msgs, upload, store, sens, lteReady, wire,
                 unsent, answers, captured, bounds>>

\* The entry of a device that is already in the table is updated in place.
UpdateKnown(t) ==
  /\ \E i \in DOMAIN table[t] : table' = [table EXCEPT ![t][i] = NewRec(t)]
  /\ UNCHANGED store

AddUnchecked(t) ==
  /\ table' = [table EXCEPT ![t] = Append(@, NewRec(t))]
  /\ UNCHANGED store
AddNew(t) ==
  /\ Len(table[t]) < TableMax[t]
  /\ table' = [table EXCEPT ![t] = Append(@, NewRec(t))]
  /\ UNCHANGED store

\* A full TAG table goes to the store first; a full MAC table refuses.
AddToFull(t) ==
  /\ Len(table[t]) >= TableMax[t]
  /\ IF t = "TAG"
     THEN /\ table' = [table EXCEPT ![t] = <<NewRec(t)>>]
          /\ store' = FlushTable(store, t)
     ELSE UNCHANGED <<table, store>>

\* An advertisement reaches its table, perhaps after the scan has ended.
ProcessAdv(t) ==
  /\ heard[t] > 0
  /\ heard' = [heard EXCEPT ![t] = @ - 1]
  /\ captured' = [captured EXCEPT ![t] = @ + 1]
  /\ UpdateKnown(t) \/ AddNew(t) \/ AddToFull(t)
  /\ UNCHANGED <<mode, scanner, msgs, up, sens, lteReady, wire, unsent,
                 answers, announced, bounds>>

MSG_SCAN_INTERVAL ==
  /\ mode # 0 /\ scanner.state = "IDLE"
  /\ \E ok \in MayFail(Faults) : scanner' = StartScan(scanner, mode, ok)
  /\ UNCHANGED <<mode, msgs, heard, upload, store, sens, lteReady, wire,
                 unsent, answers, captured, bounds>>

scan_length_timer_cb ==
  /\ scanner.timer /\ ~lenMsg
  /\ scanner' = [scanner EXCEPT !.timer = FALSE]
  /\ lenMsg' = TRUE
  /\ UNCHANGED <<mode, wakeMsg, heard, upload, store, sens, lteReady, wire,
                 unsent, answers, captured, bounds>>

MSG_SCAN_LENGTH ==
  /\ lenMsg /\ lenMsg' = FALSE
  /\ \E ok \in MayFail(Faults) : scanner' = StopScan(scanner, ok)
  /\ store' = FlushTables(store)
  /\ table' = EmptyTable
  /\ UNCHANGED <<mode, wakeMsg, heard, up, sens, lteReady, wire, unsent,
                 answers, captured, announced, bounds>>

-----------------------------------------------------------------------------
(* Commands to the 4G module.                                              *)
Cmd(t, kind, n, recs) == [type |-> t, kind |-> kind, n |-> n, recs |-> recs]

\* lte_send_command returned 0.  The command may still be lost: the LTE
\* thread's queue is full and my_send_msg_data reports nothing.  A round does
\* not look at the result at all, so this is also its failed allocation.
Send(c) ==
  \E over \in MayFail(Faults) :
    /\ wire' = IF over THEN Append(wire, c) ELSE wire
    /\ unsent' = ~over

sensor_upload_busy == sens.st # "IDLE"
InCdata == sens.st \in {"CDATA_START", "CDATA_DATA", "CDATA_END"}

ResetKeepsSession(st, rewind) == st
\* sensor_upload_reset(rewind): what the store becomes.
ResetStore(st, rewind) ==
  IF rewind /\ InCdata /\ sens.type \in SensorTypes
  THEN Rewind(st, sens.type) ELSE st

Packets(n) == (n + PacketMax - 1) \div PacketMax

\* sensor_cached_upload_try_start on store st; `busy` is the test of line
\* 1310 at the time of the call.
sensor_cached_upload_try_start(st, busy, idle) ==
  LET waiting == {t \in SensorTypes : Pending(st, t) > 0}
      t == IF "TH" \in waiting THEN "TH" ELSE "BP"
      n == Packets(Pending(st, t))
  IN  IF busy \/ waiting = {} \/ ~lteReady
      THEN store' = st /\ sens' = idle /\ UNCHANGED <<wire, unsent>>
      ELSE \E sent \in MayFail(Faults) :
             IF sent
             THEN /\ store' = UploadBegin(st, t)
                  /\ sens' = [st |-> "CDATA_START", type |-> t,
                              total |-> n, next |-> 1]
                  /\ Send(Cmd(t, "START", n, <<>>))
             ELSE /\ store' = Rewind(st, t)
                  /\ sens' = IdleSens
                  /\ UNCHANGED <<wire, unsent>>

-----------------------------------------------------------------------------
(* The TAG and MAC round: tag_mac_scan_upload_data.                        *)
Total(t) == Pending(store, t) + Len(table[t])
HasData == \E t \in ScanTypes : Total(t) > 0

IgnoresSensors(sc) == sc.state = "SCANNING" \/ (up.st = "IDLE" /\ ~HasData)
ReturnsWhenPaused(sc) ==
  \/ sc.state \in {"SCANNING", "WAITING"}
  \/ up.st = "IDLE" /\ (sensor_upload_busy \/ ~HasData)
\* The calls that return before they reach the state machine.
ReturnsAtOnce(sc) ==
  \/ sc.state = "SCANNING"
  \/ up.st = "IDLE" /\ (sensor_upload_busy \/ ~HasData)

\* Lines 2095 and 2122: a round under way is not started again.
NeverUnderWay(sc) == FALSE
RoundUnderWay(sc) == sc.state = "WAITING"

\* START: the session opens, the table's length is noted.
StartRound(t) ==
  /\ up' = [st |-> IF t = "TAG" THEN "TAG_START" ELSE "MAC_START",
            seq |-> 0, flash |-> 0, snap |-> Len(table[t])]
  /\ store' = UploadBegin(store, t)
  /\ announced' = Total(t)
  /\ Send(Cmd(t, "START", Total(t), <<>>))
  /\ UNCHANGED <<table, sens>>

\* The table entry at a 0-based index.
Entry(t, i) == IF i < Len(table[t]) THEN table[t][i + 1] ELSE Blank

SendStored(t) ==
  /\ Readable(store, t) > 0
  /\ store' = ReadMore(store, t, 1)
  /\ up' = [up EXCEPT !.seq = @ + 1, !.flash = @ + 1]
  /\ Send(Cmd(t, "DATA", up.seq + 1, <<store[t].q[store[t].given + 1]>>))
  /\ UNCHANGED <<table, sens, announced>>

\* The entries noted at START are sent; seq - flash is the index of the next
\* one, and what the table gained meanwhile does not count.
TableEndReached(t) == up.seq - up.flash >= Len(table[t])
EntriesSent(t) == up.seq - up.flash >= up.snap

SendEntry(t) ==
  /\ ~EntriesSent(t)
  /\ up' = [up EXCEPT !.seq = @ + 1]
  /\ Send(Cmd(t, "DATA", up.seq + 1, <<Entry(t, up.seq - up.flash)>>))
  /\ UNCHANGED <<store, table, sens, announced>>

\* Everything was sent: commit, empty the table, send END.
EndRound(t) ==
  /\ EntriesSent(t)
  /\ store' = Commit(store, t)
  /\ table' = [table EXCEPT ![t] = <<>>]
  /\ up' = [up EXCEPT !.st = IF t = "TAG" THEN "TAG_END" ELSE "MAC_END",
                      !.seq = 0, !.flash = 0]
  /\ Send(Cmd(t, "END", up.seq, <<>>))
  /\ UNCHANGED <<sens, announced>>

\* A failing flash read looks like the end of the stored records.
SendNext(t) ==
  \/ SendStored(t)
  \/ /\ Readable(store, t) = 0 \/ Faults
     /\ SendEntry(t) \/ EndRound(t)

RoundOver ==
  /\ up' = [up EXCEPT !.st = "IDLE", !.seq = 0, !.flash = 0]
  /\ sensor_cached_upload_try_start(store, sensor_upload_busy, sens)
  /\ UNCHANGED <<table, announced>>

Waiting(sc) == scanner' = [sc EXCEPT !.state = "WAITING"]
StaysPaused(sc) == scanner' = sc
Resumed(sc) == scanner' = [sc EXCEPT !.state = "IDLE"]

tag_mac_scan_upload_data(sc) ==
  /\ ~ReturnsAtOnce(sc)
  /\ \/ /\ up.st = "IDLE"
        /\ StartRound(IF Total("TAG") > 0 THEN "TAG" ELSE "MAC")
        /\ Waiting(sc)
     \/ up.st = "TAG_START" /\ SendNext("TAG") /\ scanner' = sc
     \/ up.st = "TAG_END" /\ Total("MAC") > 0 /\ StartRound("MAC") /\ scanner' = sc
     \/ up.st = "TAG_END" /\ Total("MAC") = 0 /\ RoundOver /\ Resumed(sc)
     \/ up.st = "MAC_START" /\ SendNext("MAC") /\ scanner' = sc
     \/ up.st = "MAC_END" /\ RoundOver /\ Resumed(sc)

\* The acknowledgement of a TAG or MACINFO command; of which, is not known.
MSG_UPLOAD_TAG_AND_MAC ==
  /\ acks # <<>> /\ Head(acks) = "TAG_MAC"
  /\ acks' = Tail(acks)
  /\ \/ tag_mac_scan_upload_data(scanner)
     \/ /\ ReturnsAtOnce(scanner)
        /\ UNCHANGED <<scanner, upload, store, sens, wire, unsent>>
  /\ UNCHANGED <<mode, msgs, heard, lteReady, sensRsp, captured, got, bounds>>

\* A scan is cut short for an upload.  (Its caller has seen data to send.)
scan_trigger_upload ==
  \E ok \in MayFail(Faults) :
    LET sc == StopScan(scanner, ok)
    IN  \/ tag_mac_scan_upload_data(sc)
        \/ /\ ReturnsAtOnce(sc)
           /\ scanner' = sc
           /\ UNCHANGED <<table, store, up, sens, wire, unsent, announced>>

\* The upload timer of mode 2.
MSG_SCAN_UPLOAD ==
  /\ mode = 2 /\ HasData /\ ~RoundUnderWay(scanner)
  /\ scan_trigger_upload
  /\ UNCHANGED <<mode, msgs, heard, lteReady, answers, captured, bounds>>

\* The 4G module came up: scan results first, stored samples otherwise.
MSG_UPLOAD_WAKEUP ==
  /\ wakeMsg /\ wakeMsg' = FALSE
  /\ \E ok \in MayFail(Faults) :
       LET wanted == mode # 0 /\ HasData
           sc     == IF wanted THEN StopScan(scanner, ok) ELSE scanner
           calls  == wanted /\ ~RoundUnderWay(sc)
       IN  \/ calls /\ tag_mac_scan_upload_data(sc)
           \/ /\ ~calls \/ ReturnsAtOnce(sc)
              /\ scanner' = sc
              /\ sensor_cached_upload_try_start(store,
                   sensor_upload_busy \/ up.st # "IDLE", sens)
              /\ UNCHANGED <<table, up, announced>>
  /\ UNCHANGED <<mode, lenMsg, heard, lteReady, answers, captured, bounds>>

-----------------------------------------------------------------------------
(* Sensor samples and the upload of stored ones.                           *)

\* A sample goes out at once if the link is free, to the store otherwise.
MSG_SENSOR_SAMPLE(t) ==
  /\ captured[t] < MaxRec[t] /\ Taken < MaxAll
  /\ captured' = [captured EXCEPT ![t] = @ + 1]
  /\ LET free == lteReady /\ ~sensor_upload_busy /\ up.st = "IDLE"
     IN  \/ /\ free
            /\ sens' = [st |-> IF t = "TH" THEN "TH_WAIT" ELSE "BP_WAIT",
                        type |-> t, total |-> 0, next |-> 0]
            /\ Send(Cmd(t, "LIVE", 1, <<NewRec(t)>>))
            /\ UNCHANGED store
         \/ /\ ~free \/ Faults
            /\ store' = Push(store, t, <<NewRec(t)>>)
            /\ sens' = IF free THEN IdleSens ELSE sens
            /\ UNCHANGED <<wire, unsent>>
  /\ UNCHANGED <<mode, scanner, msgs, heard, upload, lteReady, answers,
                 bounds>>

SensorReset ==
  /\ store' = ResetStore(store, TRUE)
  /\ sens' = IdleSens
  /\ UNCHANGED <<wire, unsent>>

\* sensor_cdata_send_next_packet with sequence number nx.
sensor_cdata_send_next_packet(nx) ==
  LET t == sens.type
      most == IF Readable(store, t) < PacketMax THEN Readable(store, t) ELSE PacketMax
      g == store[t].given
  IN  \E n \in (IF Faults THEN 0 .. most ELSE {most}), sent \in MayFail(Faults) :
        IF n = 0 \/ ~sent
        THEN SensorReset
        ELSE /\ store' = ReadMore(store, t, n)
             /\ sens' = [sens EXCEPT !.st = "CDATA_DATA", !.next = nx]
             /\ Send(Cmd(t, "DATA", nx, SubSeq(store[t].q, g + 1, g + n)))

CdataAck ==
  \/ sens.st = "CDATA_START" /\ sensor_cdata_send_next_packet(sens.next)
  \/ /\ sens.st = "CDATA_DATA" /\ sens.next < sens.total
     /\ sensor_cdata_send_next_packet(sens.next + 1)
  \/ /\ sens.st = "CDATA_DATA" /\ sens.next >= sens.total
     /\ \E sent \in MayFail(Faults) :
          IF sent
          THEN /\ Send(Cmd(sens.type, "END", 0, <<>>))
               /\ sens' = [sens EXCEPT !.st = "CDATA_END"]
               /\ UNCHANGED store
          ELSE SensorReset
  \/ /\ sens.st = "CDATA_END"
     /\ sensor_cached_upload_try_start(Commit(store, sens.type),
                                       up.st # "IDLE", IdleSens)

LiveAck(t) ==
  /\ sens.st = IF t = "TH" THEN "TH_WAIT" ELSE "BP_WAIT"
  /\ sensor_cached_upload_try_start(store, up.st # "IDLE", IdleSens)

\* What an acknowledgement of type r finds nobody waiting for, it leaves.
Unexpected(r) ==
  /\ ~ \/ r = "CDATA" /\ InCdata
       \/ r = "TH" /\ sens.st = "TH_WAIT"
       \/ r = "BP" /\ sens.st = "BP_WAIT"
  /\ UNCHANGED <<store, sens, wire, unsent>>

\* The handler reads the type from s_sensor_ble_rsp, which a later answer
\* may have overwritten.
MSG_SENSOR_LTE_ACK ==
  /\ acks # <<>> /\ Head(acks) = "SENSOR"
  /\ acks' = Tail(acks)
  /\ \/ sensRsp = "CDATA" /\ CdataAck
     \/ \E t \in SensorTypes : sensRsp = t /\ LiveAck(t)
     \/ Unexpected(sensRsp)
  /\ UNCHANGED <<mode, scanner, msgs, heard, upload, lteReady, sensRsp,
                 captured, got, bounds>>

-----------------------------------------------------------------------------
\* Configuration commands and low-power transitions: stop scanning, move the
\* tables to the store, drop all upload state, rewind, start in the new mode.
my_scan_set_config(m) ==
  /\ reconfigs < MaxReconfig
  /\ reconfigs' = reconfigs + 1
  /\ mode' = m
  /\ \E stopOk, startOk \in MayFail(Faults) :
       LET sc == [state |-> "IDLE", radio |-> StopScan(scanner, stopOk).radio,
                  timer |-> FALSE]
       IN  scanner' = StartScan(sc, m, startOk)
  /\ table' = EmptyTable
  /\ store' = ResetStore(Rewind(Rewind(FlushTables(store), "TAG"), "MAC"), TRUE)
  /\ up' = IdleUp
  /\ sens' = IdleSens
  /\ UNCHANGED <<msgs, heard, lteReady, wire, unsent, answers, captured,
                 announced, offs>>

-----------------------------------------------------------------------------
(* The 4G module and the LTE thread.                                       *)

\* The module answers a command; my_ble_handle passes the answer on.
my_ble_handle ==
  /\ lteReady /\ wire # <<>>
  /\ LET c == Head(wire)
     IN  /\ wire' = Tail(wire)
         /\ unsent' = unsent
         /\ got' = [got EXCEPT ![c.type] = @ \cup {c.recs[i] : i \in DOMAIN c.recs}]
         /\ IF c.type \in ScanTypes
            THEN acks' = Append(acks, "TAG_MAC") /\ UNCHANGED sensRsp
            ELSE /\ acks' = Append(acks, "SENSOR")
                 /\ sensRsp' = IF c.kind = "LIVE" THEN c.type ELSE "CDATA"
  /\ UNCHANGED <<mode, scanner, msgs, heard, upload, store, sens, lteReady,
                 captured, bounds>>

\* A command is lost on the way (the serial line, a module that is busy).
LoseCommand ==
  /\ Lossy /\ wire # <<>>
  /\ wire' = Tail(wire)
  /\ UNCHANGED <<mode, scanner, msgs, heard, upload, store, sens, lteReady,
                 answers, captured, bounds, unsent>>

\* An acknowledgement is lost (a full message queue, no or a bad answer).
LoseAck ==
  /\ Lossy /\ acks # <<>>
  /\ acks' = Tail(acks)
  /\ UNCHANGED <<mode, scanner, msgs, heard, upload, store, sens, lteReady,
                 wire, unsent, sensRsp, captured, got, bounds>>

\* Power off drops the commands that reached the LTE thread.
my_lte_pwroff_handle ==
  /\ lteReady /\ offs < MaxOff
  /\ offs' = offs + 1
  /\ lteReady' = FALSE
  /\ \E n \in 0 .. Len(wire) : wire' = SubSeq(wire, n + 1, Len(wire))
  /\ UNCHANGED <<mode, scanner, msgs, heard, upload, store, sens, answers,
                 captured, reconfigs, unsent>>

\* The module reports that it is up, for the first time or again.
my_lte_handle_power_on ==
  /\ lteReady' = TRUE
  /\ wakeMsg' = TRUE
  /\ UNCHANGED <<mode, scanner, lenMsg, heard, upload, store, sens, wire,
                 unsent, answers, captured, bounds>>

\* An alarm or a switch of the working mode asks for an upload, whether the
\* module is up or not.
my_scan_upload_on_lte_wakeup ==
  /\ wakeMsg' = TRUE
  /\ UNCHANGED <<mode, scanner, lenMsg, heard, upload, store, sens, lteReady,
                 wire, unsent, answers, captured, bounds>>

-----------------------------------------------------------------------------
\* my_scan_init: empty tables, the configured mode, the first scan.
Init ==
  /\ mode \in 0 .. 2
  /\ \E ok \in MayFail(Faults) :
       scanner = StartScan([state |-> "IDLE", radio |-> FALSE, timer |-> FALSE],
                           mode, ok)
  /\ lenMsg = FALSE /\ wakeMsg = FALSE
  /\ heard = [t \in ScanTypes |-> 0]
  /\ table = EmptyTable
  /\ store = EmptyStore
  /\ up = IdleUp
  /\ sens = IdleSens
  /\ lteReady = FALSE
  /\ wire = <<>> /\ unsent = FALSE /\ acks = <<>> /\ sensRsp = "NONE"
  /\ captured = [t \in Types |-> 0]
  /\ announced = 0
  /\ got = [t \in Types |-> {}]
  /\ reconfigs = 0 /\ offs = 0

Next ==
  \/ \E t \in ScanTypes : scan_recv_cb(t) \/ ProcessAdv(t)
  \/ MSG_SCAN_INTERVAL \/ scan_length_timer_cb \/ MSG_SCAN_LENGTH
  \/ MSG_UPLOAD_TAG_AND_MAC \/ MSG_SCAN_UPLOAD \/ MSG_UPLOAD_WAKEUP
  \/ \E t \in SensorTypes : MSG_SENSOR_SAMPLE(t)
  \/ MSG_SENSOR_LTE_ACK
  \/ \E m \in 0 .. 2 : my_scan_set_config(m)
  \/ my_ble_handle \/ LoseCommand \/ LoseAck
  \/ my_lte_pwroff_handle \/ my_lte_handle_power_on
  \/ my_scan_upload_on_lte_wakeup

Spec == Init /\ [][Next]_vars

\* The BLE thread handles its messages, the LTE thread forwards, and the 4G
\* module, which every command asks to be powered, comes up and answers.
Fairness ==
  /\ WF_vars(MSG_UPLOAD_TAG_AND_MAC) /\ WF_vars(MSG_SENSOR_LTE_ACK)
  /\ WF_vars(MSG_UPLOAD_WAKEUP)
  /\ WF_vars(my_ble_handle)
  /\ WF_vars(~lteReady /\ wire # <<>> /\ my_lte_handle_power_on)

FairSpec == Spec /\ Fairness

-----------------------------------------------------------------------------
(* Properties.                                                             *)

Captures(t) == 1 .. MaxRec[t]

\* Every variable has its type; tables never exceed their arrays, and the
\* read position of a session (my_flash_store_read_next) stays within it.
TypeOK ==
  /\ mode \in 0 .. 2
  /\ scanner \in [state : ScanStates, radio : BOOLEAN, timer : BOOLEAN]
  /\ lenMsg \in BOOLEAN /\ wakeMsg \in BOOLEAN /\ lteReady \in BOOLEAN
  /\ unsent \in BOOLEAN
  /\ \A t \in ScanTypes :
       /\ heard[t] \in 0 .. HeardMax
       /\ table[t] \in Seq(Captures(t)) /\ Len(table[t]) <= TableMax[t]
  /\ \A t \in Types :
       /\ store[t].q \in Seq(Captures(t))
       /\ store[t].lim \in 0 .. Len(store[t].q)
       /\ store[t].given \in 0 .. store[t].lim
       /\ store[t].open \in BOOLEAN
       /\ captured[t] \in 0 .. MaxRec[t]
       /\ got[t] \subseteq Captures(t) \cup {Blank}
  /\ up.st \in UpStates /\ up.flash \in 0 .. up.seq
  /\ up.seq \in Nat /\ up.snap \in Nat
  /\ sens.st \in SensStates /\ sens.type \in SensorTypes \cup {"NONE"}
  /\ sens.next \in 0 .. sens.total
  /\ sensRsp \in SensorTypes \cup {"NONE", "CDATA"}

\* A TAG or MAC round and a sensor upload never share the link: the comments
\* at lines 1308 and 1603 make this the reason that acknowledgements without
\* a sequence number can be attributed.
OneUploadAtATime == ~(up.st # "IDLE" /\ sensor_upload_busy)

\* A store session is open exactly while its upload is in its data phase, on
\* every path: rounds that end, failing sends, resets and reconfiguration.
\* (An open session keeps the store from writing sectors.)
SessionsClosed ==
  /\ store["TAG"].open <=> up.st = "TAG_START"
  /\ store["MAC"].open <=> up.st = "MAC_START"
  /\ \A t \in SensorTypes : store[t].open <=> (InCdata /\ sens.type = t)

\* Scanning is suspended exactly during a TAG or MAC round, so a round is
\* never cut short by line 1587 and no scan is kept from restarting.
ScanPausedIffUploading == scanner.state = "WAITING" <=> up.st # "IDLE"

\* The records sent between START and END are as many as START declared
\* (my_flash_store.c:784), although tables and store change meanwhile.
SentAsAnnounced ==
  [][/\ up.st = "TAG_START" /\ up'.st = "TAG_END" => up.seq = announced
     /\ up.st = "MAC_START" /\ up'.st = "MAC_END" => up.seq = announced]_vars

\* Stored scan results are in time order: each flush sorts its table, and
\* nothing captured before a flush is stored after it.  (The clock moves
\* forward; setting it back reorders the records of the table being filled.)
StoredInTimeOrder ==
  \A t \in ScanTypes : \A i, j \in 1 .. Len(store[t].q) :
    i < j => store[t].q[i] < store[t].q[j]

\* Without a reconfiguration there is never more than one command or
\* acknowledgement under way, whatever is lost: the lock step that lets an
\* anonymous acknowledgement stand for the last command.
LockStep == reconfigs = 0 => Len(wire) + Len(acks) <= 1

\* A commit removes only records the 4G module has received, as long as no
\* reconfiguration has left an acknowledgement for the next round to take.
CommitsReceivedUnlessReconfigured ==
  [][reconfigs = 0 =>
     \A t \in Types : \A i \in 1 .. Len(store[t].q) :
       \/ \E j \in 1 .. Len(store'[t].q) : store'[t].q[j] = store[t].q[i]
       \/ store[t].q[i] \in got[t]]_vars

\* With a 4G module that stays up and answers, every round and every sensor
\* upload ends, or waits for the answer to a command that never left: nobody
\* looks at a command the LTE thread's queue had no room for, and a round not
\* even at a failed allocation (lines 979 to 1756), and nothing repeats it.
UploadsEnd ==
  /\ [](up.st # "IDLE" => <>(up.st = "IDLE" \/ [](up.st # "IDLE" /\ unsent)))
  /\ [](sensor_upload_busy =>
          <>(~sensor_upload_busy \/ [](sensor_upload_busy /\ unsent)))
=============================================================================
