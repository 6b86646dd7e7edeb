----------------------------- MODULE BlePacket -----------------------------
(***************************************************************************)
(* Responses to the phone app (my_ble_app.c, my_ble_core.c): a response    *)
(* goes out as one packet (FF01) or in parts (FF02), each repeated until   *)
(* the app confirms it; one more response may wait, the newest replacing   *)
(* the one before.  The BLE thread handles commands, confirmations and     *)
(* timeouts from its message queue; the Bluetooth thread fills the receive *)
(* buffer and cleans up on a disconnect, between any two steps of the BLE  *)
(* thread and in the middle of a handler: while a response is copied,      *)
(* which zeroes what has been copied, and before its packet goes out;      *)
(* other threads send notifications of their own through the same buffer.  *)
(*                                                                         *)
(* A response has a number and a size in units; how many units fit into a  *)
(* packet depends on the MTU of the moment; below an MTU of 39 none does.  *)
(* A packet is PacketCells cells of the notification buffer.  Contents of  *)
(* commands, encryption and the key exchange are left out.                 *)
(***************************************************************************)
EXTENDS Integers, Sequences

CONSTANTS Sizes,      \* sizes of responses; one unit fits into a single packet
          MaxPart,    \* most units of a part, with the largest MTU
          MaxRetry,   \* BLE_PACKET_TRANS_MAX_RETRY
          PacketCells,\* cells of a packet
          NotifyCells,\* cells that one notification carries
          BufCells,   \* BLE_NOTIFY_SEND_BUF_MAX_SIZE
          QueueLen,   \* entries of my_ble_msgq
          Width,      \* values of a length or an offset (uint16_t), in units
          MaxAsked,   \* bound: requests for a response
          MaxFault,   \* bound: failing or overlapping notifications, unsubscriptions, low MTU
          MaxConn     \* bound: connections after the first

ASSUME ConstantsAssumption ==
  /\ Sizes \subseteq Nat \ {0} /\ MaxPart \in Nat \ {0} /\ MaxRetry \in Nat /\ QueueLen \in Nat \ {0}
  /\ PacketCells \in Nat \ {0} /\ NotifyCells \in Nat \ {0} /\ BufCells \in Nat
  /\ Width \in Nat /\ (\A s \in Sizes : s < Width)
  /\ MaxAsked \in Nat /\ MaxFault \in Nat /\ MaxConn \in Nat

VARIABLES
  q,        \* my_ble_msgq
  rx,       \* s_rx_ble_buf: the packet received, or None
  cur,      \* s_packet_trans_data
  wait,     \* s_packet_trans_wait: the response that waits, or None
  timer,    \* s_ble_packet_rsp_timer
  job,      \* what the handler in the middle of which the BLE thread is still has to do
  conn, ccc,\* s_current_conn, s_ble_data_send_enable
  buf,      \* s_uart_ble_server_buf, cell by cell
  other,    \* cells that another thread is notifying (0: none, s_ble_server_send_done)
  app,      \* the app: number of the last part it took, and what it put together of it
  air,      \* packets of the app under way
  asked, faults, conns, \* counters of the bounds
  got,      \* history: what the app took for complete responses
  done,     \* history: responses whose transfer was completed
  tainted,  \* history: a transfer began while something of an earlier one was under way,
            \* with data that a clean-up had zeroed, or with an MTU below 39
  narrow,   \* history: a transfer began with an MTU below 39
  lost      \* history: a full queue dropped a message

trans == <<cur, wait, timer, job>>
link == <<conn, ccc, buf, other, app, got>>
bounds == <<asked, faults, conns>>
hist == <<tainted, narrow>>
vars == <<q, rx, trans, link, air, bounds, done, hist, lost>>

None == [k |-> "none", n |-> 0]
LAST == 255                          \* BLE_PACKET_TRANS_SEQ_LAST

\* A response has at most RESP_STRING_LENGTH_MAX = 1024 bytes and every part but the last
\* at least 10: about a hundred parts, whose numbers stay below the one that marks the last.
ASSUME PartsAssumption == \A s \in Sizes : s <= LAST + 1

NoJob == [k |-> "none"]
Idle == [resp |-> None, busy |-> FALSE, waiting |-> FALSE, proto |-> "none", seq |-> 0,
         off |-> 0, len |-> 0, sent |-> 0, next |-> 0, retry |-> 0]

Full == Len(q) >= QueueLen
Post(m) == /\ q' = IF Full THEN q ELSE Append(q, m)
           /\ lost' = (lost \/ Full)

NoPart == [seq |-> -1, data |-> <<>>]

Init ==
  /\ q = <<>> /\ rx = None /\ cur = Idle /\ wait = None /\ timer = FALSE /\ job = NoJob
  /\ conn = FALSE /\ ccc = FALSE /\ buf = <<>> /\ other = 0 /\ app = NoPart /\ air = <<>>
  /\ asked = 0 /\ faults = 0 /\ conns = 0
  /\ got = {} /\ done = {} /\ tainted = FALSE /\ narrow = FALSE /\ lost = FALSE

Fault == faults < MaxFault /\ faults' = faults + 1
-----------------------------------------------------------------------------
(* Notifications and the app *)

Cells(p) == [i \in 1 .. PacketCells |-> [p |-> p, i |-> i]]
Units(p) == [i \in 1 .. p.len |-> [resp |-> p.resp, u |-> p.off + i]]

\* external: the app answers packet p, which it has just taken, or stays silent
Answer(p) ==
  air' \in {air, Append(air, IF p.proto = "single" THEN [k |-> "ok", n |-> 0]
                                                   ELSE [k |-> "ack", n |-> p.seq])}

\* external: what the app makes of packet p: it puts the parts together in the order of
\* their numbers, confirms a part that it has already, and ignores any other
Take(p) ==
  \/ p.proto = "single" /\ got' = got \cup {Units(p)} /\ UNCHANGED app /\ Answer(p)
  \/ /\ p.proto = "multi" /\ p.seq = 0
     /\ app' = [seq |-> 0, data |-> Units(p)] /\ UNCHANGED got /\ Answer(p)
  \/ /\ p.proto = "multi" /\ p.seq # 0 /\ app.seq = p.seq
     /\ UNCHANGED <<app, got>> /\ Answer(p)
  \/ /\ p.proto = "multi" /\ p.seq # 0 /\ app.seq \in 0 .. LAST - 1
     /\ p.seq \in {app.seq + 1, LAST}
     /\ app' = [seq |-> p.seq, data |-> IF p.seq = LAST THEN <<>> ELSE app.data \o Units(p)]
     /\ got' = IF p.seq = LAST THEN got \cup {app.data \o Units(p)} ELSE got
     /\ Answer(p)
  \/ /\ p.proto = "multi" /\ p.seq # 0 /\ app.seq # p.seq
     /\ app.seq \in {-1, LAST} \/ p.seq \notin {app.seq + 1, LAST}
     /\ UNCHANGED <<app, got, air>>

\* one notification arrives: the app reads it if a packet is at its front, and may refuse
\* one that holds more than that packet
Deliver(cells) ==
  LET p == cells[1].p
      whole == SubSeq(cells, 1, PacketCells) = Cells(p)
  IN  \/ cells # <<>> /\ whole /\ p.proto # "other" /\ Take(p)
      \/ /\ cells = <<>> \/ ~whole \/ p.proto = "other" \/ Len(cells) > PacketCells
         /\ UNCHANGED <<app, got, air>>

OtherPacket == [proto |-> "other", resp |-> None, seq |-> 0, off |-> 0, len |-> 0]

\* Mutant: the room in the buffer is not tested
AddAlways(b, p) == b \o Cells(p)

Add(b, p) == IF Len(b) + PacketCells <= BufCells THEN b \o Cells(p) ELSE b
Front(b) == SubSeq(b, 1, IF Len(b) < NotifyCells THEN Len(b) ELSE NotifyCells)
Rest(b, n) == SubSeq(b, n + 1, Len(b))

\* ble_server_send_notification, called by the BLE thread
ble_server_send_notification(p) ==
  LET all == Add(buf, p)
      sent == Rest(all, Len(Front(all)))
      mute == UNCHANGED <<app, got, air>>
  IN  /\ UNCHANGED <<conn, ccc, other, conns, asked>>
      /\ \/ ~conn /\ mute /\ UNCHANGED <<buf, faults>>
         \/ conn /\ (other > 0 \/ ~ccc) /\ buf' = all /\ mute /\ UNCHANGED faults
         \/ /\ conn /\ other = 0 /\ ccc /\ Deliver(Front(all))
            /\ \/ buf' = sent /\ UNCHANGED faults
               \/ buf' = Add(sent, OtherPacket) /\ Fault    \* called by another thread meanwhile
         \/ conn /\ other = 0 /\ ccc /\ Fault /\ buf' = all /\ mute

\* another thread, or another protocol, sends a notification
OtherBegin ==
  /\ conn /\ ccc /\ other = 0 /\ Fault
  /\ buf' = Add(buf, OtherPacket) /\ other' = Len(Front(Add(buf, OtherPacket)))
  /\ UNCHANGED <<q, rx, trans, conn, ccc, app, got, air, asked, conns, done, hist, lost>>

OtherEnd ==
  /\ other > 0 /\ other' = 0
  /\ \/ conn /\ buf' = Rest(buf, other) /\ Deliver(SubSeq(buf, 1, other))
     \/ ~conn /\ UNCHANGED <<buf, app, got, air>>
  /\ UNCHANGED <<q, rx, trans, conn, ccc, bounds, done, hist, lost>>
-----------------------------------------------------------------------------
(* The transport, in the BLE thread *)

Parts(n) == {len \in 1 .. n : len <= MaxPart}     \* how much of n units a part may carry

Handle(id) == job.k = "none" /\ q # <<>> /\ Head(q).id = id /\ q' = Tail(q)

\* an answer that would be taken for one to the first packet of a transfer, or a packet
\* of an earlier transfer, is under way; not the answer that is just being handled
Leftover(proto, fromRx) ==
  LET first == IF proto = "single" THEN [k |-> "ok", n |-> 0] ELSE [k |-> "ack", n |-> 0]
  IN  \/ \E i \in 1 .. Len(air) : air[i] = first
      \/ rx = first /\ ~fromRx
      \/ \E i \in 1 .. Len(buf) : buf[i].p.proto # "other"

\* ble_packet_trans_send, idle: s_packet_trans_data is cleared, and the response of job.len
\* units copied into it next; fromRx says that the message handled is BLE_RX, whose buffer
\* is released at its end
StartTransfer(r, fromRx) ==
  cur' = Idle /\ job' = [k |-> "start", resp |-> r, len |-> r.size, rx |-> fromRx]

\* ble_packet_trans_send: a response is sent, or waits in place of the one before it
ble_packet_trans_send(n, fromRx) ==
  \E s \in Sizes :
    LET r == [k |-> "resp", n |-> n, size |-> s]
    IN  /\ UNCHANGED <<wait, timer>>
        /\ \/ ~cur.busy /\ StartTransfer(r, fromRx)
           \/ /\ cur.busy /\ job' = [k |-> "store", resp |-> r, rx |-> fromRx]
              /\ UNCHANGED cur

\* ble_packet_trans_try_start_pending: a response waits; one whose length a clean-up has
\* cleared is not sent
Pended == wait # None /\ wait.size # 0

\* ble_packet_trans_complete_current, ble_packet_trans_abort_current
NextTransfer(fromRx) ==
  /\ timer' = FALSE /\ wait' = None
  /\ \/ Pended /\ StartTransfer(wait, fromRx)
     \/ ~Pended /\ cur' = Idle /\ job' = NoJob

\* MY_MSG_BLE_TX
OnTx ==
  /\ Handle("TX") /\ ble_packet_trans_send(Head(q).n, FALSE)
  /\ UNCHANGED <<rx, link, air, bounds, done, hist, lost>>

\* MY_MSG_BLE_RX with a command; not every one has a response
OnCommand ==
  /\ Handle("RX") /\ rx.k = "cmd"
  /\ \/ ble_packet_trans_send(rx.n, TRUE) /\ UNCHANGED rx
     \/ rx' = None /\ UNCHANGED trans
  /\ UNCHANGED <<link, air, bounds, done, hist, lost>>

\* ble_single_packet_rsp_handle, ble_multiple_packet_ack_handle: not the answer waited for
OnOtherAnswer ==
  /\ Handle("RX") /\ rx.k \in {"ok", "ack"} /\ rx' = None
  /\ ~(cur.busy /\ cur.waiting /\ (\/ rx.k = "ok" /\ cur.proto = "single"
                                   \/ rx.k = "ack" /\ cur.proto = "multi" /\ rx.n = cur.seq))
  /\ UNCHANGED <<trans, link, air, bounds, done, hist, lost>>

Completed ==
  /\ done' = done \cup {cur.resp} /\ NextTransfer(TRUE)
  /\ rx' = IF job'.k = "none" THEN None ELSE rx

\* ble_single_packet_rsp_handle
OnConfirmed ==
  /\ Handle("RX") /\ rx.k = "ok" /\ cur.busy /\ cur.waiting /\ cur.proto = "single"
  /\ Completed
  /\ UNCHANGED <<link, air, bounds, hist, lost>>

\* what is left to send (uint16_t): the length is less than what was sent only when a
\* clean-up has cleared it
Remaining == cur.resp.size - cur.sent + (IF cur.sent <= cur.resp.size THEN 0 ELSE Width)

\* Mutant: the number of the acknowledgement is not compared
OnAckAnyNumber ==
  /\ Handle("RX") /\ rx.k = "ack" /\ cur.busy /\ cur.waiting /\ cur.proto = "multi"
  /\ \/ Remaining = 0 /\ Completed
     \/ /\ Remaining > 0
        /\ \E len \in Parts(Remaining) :
             LET last == cur.sent + len >= cur.resp.size
             IN  /\ job' = [k |-> "send", proto |-> "multi", seq |-> IF last THEN LAST ELSE cur.next,
                            off |-> cur.sent, len |-> len, resp |-> cur.resp, rx |-> TRUE]
                 /\ cur' = [cur EXCEPT !.waiting = FALSE, !.retry = 0,
                                       !.next = IF last THEN 0 ELSE cur.next + 1]
        /\ timer' = FALSE /\ UNCHANGED <<rx, wait, done>>
  /\ UNCHANGED <<link, air, bounds, hist, lost>>

\* ble_multiple_packet_ack_handle, ble_multiple_packet_continue
OnAck ==
  /\ Handle("RX") /\ rx.k = "ack" /\ cur.busy /\ cur.waiting /\ cur.proto = "multi"
  /\ rx.n = cur.seq
  /\ \/ Remaining = 0 /\ Completed
     \/ /\ Remaining > 0
        /\ \E len \in Parts(Remaining) :
             LET last == cur.sent + len >= cur.resp.size
             IN  /\ job' = [k |-> "send", proto |-> "multi", seq |-> IF last THEN LAST ELSE cur.next,
                            off |-> cur.sent, len |-> len, resp |-> cur.resp, rx |-> TRUE]
                 /\ cur' = [cur EXCEPT !.waiting = FALSE, !.retry = 0,
                                       !.next = IF last THEN 0 ELSE cur.next + 1]
        /\ timer' = FALSE /\ UNCHANGED <<rx, wait, done>>
  /\ UNCHANGED <<link, air, bounds, hist, lost>>

\* Mutant: repetitions are not counted
OnTimeoutNoLimit ==
  /\ Handle("TIMEOUT")
  /\ \/ ~(cur.busy /\ cur.waiting) /\ UNCHANGED trans
     \/ cur.busy /\ cur.waiting /\ ~(conn /\ ccc) /\ NextTransfer(FALSE)
     \/ /\ cur.busy /\ cur.waiting /\ conn /\ ccc
        /\ job' = [k |-> "again", rx |-> FALSE] /\ UNCHANGED <<cur, wait, timer>>
  /\ UNCHANGED <<rx, link, air, bounds, done, hist, lost>>

\* MY_MSG_BLE_PACKET_TIMEOUT: ble_packet_trans_timeout_handler, as far as it gives up or
\* has nothing to do
OnTimeout ==
  /\ Handle("TIMEOUT")
  /\ \/ ~(cur.busy /\ cur.waiting) /\ UNCHANGED trans
     \/ /\ cur.busy /\ cur.waiting /\ (~(conn /\ ccc) \/ cur.retry >= MaxRetry)
        /\ NextTransfer(FALSE)
     \/ /\ cur.busy /\ cur.waiting /\ conn /\ ccc /\ cur.retry < MaxRetry
        /\ cur' = [cur EXCEPT !.retry = @ + 1]
        /\ job' = [k |-> "again", rx |-> FALSE]
        /\ UNCHANGED <<wait, timer>>
  /\ UNCHANGED <<rx, link, air, bounds, done, hist, lost>>

Released == rx' = IF job.rx THEN None ELSE rx

\* ble_packet_trans_send, idle: the response has been copied and the transfer is busy; the
\* packet itself goes out in Transmit
Begin ==
  LET proto == IF job.len = 1 THEN "single" ELSE "multi"
  IN  /\ job.k = "start"
      /\ cur' = [Idle EXCEPT !.resp = job.resp, !.busy = TRUE,
                             !.next = IF proto = "single" THEN 0 ELSE 1]
      /\ \E len \in IF proto = "single" THEN {1} ELSE Parts(job.len - 1) :
           job' = [k |-> "send", proto |-> proto, seq |-> 0, off |-> 0, len |-> len,
                   resp |-> job.resp, rx |-> job.rx]
      /\ tainted' = (tainted \/ Leftover(proto, job.rx) \/ job.resp.k = "zero")
      /\ UNCHANGED <<q, rx, wait, timer, link, air, bounds, done, narrow, lost>>

\* the same with an MTU below 39, where the room of a packet is computed as less than none,
\* which is taken for a large number: the whole response is one part, numbered as the first,
\* or is too large for s_ble_rsp_buf, and nothing is recorded, sent or started
BeginNarrow ==
  /\ job.k = "start" /\ Fault
  /\ cur' = [Idle EXCEPT !.resp = job.resp, !.busy = TRUE, !.next = 1, !.sent = job.len]
  /\ \/ /\ job' = [k |-> "send", proto |-> "multi", seq |-> 0, off |-> 0, len |-> job.len,
                   resp |-> job.resp, rx |-> job.rx]
        /\ UNCHANGED rx
     \/ job' = NoJob /\ Released
  /\ tainted' = TRUE /\ narrow' = TRUE
  /\ UNCHANGED <<q, wait, timer, link, air, asked, conns, done, lost>>

\* ble_packet_trans_send while busy: the response is stored
Store ==
  /\ job.k = "store" /\ wait' = job.resp /\ job' = NoJob /\ Released
  /\ UNCHANGED <<q, cur, timer, link, air, bounds, done, hist, lost>>

\* ble_single_packet_send, ble_multiple_packet_send: the packet is recorded and sent and
\* the timer is started
Transmit ==
  /\ job.k = "send" /\ job' = NoJob /\ Released
  /\ cur' = [cur EXCEPT !.waiting = TRUE, !.proto = job.proto, !.seq = job.seq,
                        !.off = job.off, !.len = job.len,
                        !.sent = IF job.proto = "single" THEN 0
                                 ELSE IF job.off + job.len < Width THEN job.off + job.len
                                 ELSE job.off + job.len - Width]
  /\ ble_server_send_notification([proto |-> job.proto, resp |-> job.resp, seq |-> job.seq,
                                   off |-> job.off, len |-> job.len])
  /\ timer' = TRUE
  /\ UNCHANGED <<q, wait, done, hist, lost>>

\* nothing is recorded after a clean-up, or a single packet whose length it has cleared, which
\* ble_single_packet_send refuses
NothingRecorded == cur.proto = "none" \/ (cur.proto = "single" /\ cur.busy /\ cur.resp.size = 0)

\* Mutants: the repetition does not start the timer, or takes the data after it
RetransmitNoTimer ==
  /\ job.k = "again" /\ job' = NoJob /\ Released
  /\ \/ /\ ~NothingRecorded
        /\ cur' = [cur EXCEPT !.waiting = TRUE]
        /\ ble_server_send_notification([proto |-> cur.proto, resp |-> cur.resp, seq |-> cur.seq,
                                         off |-> cur.off, len |-> cur.len])
        /\ UNCHANGED timer
     \/ NothingRecorded /\ UNCHANGED <<cur, timer, link, air, bounds>>
  /\ UNCHANGED <<q, wait, done, hist, lost>>

RetransmitFromSent ==
  /\ job.k = "again" /\ job' = NoJob /\ Released
  /\ \/ /\ ~NothingRecorded
        /\ cur' = [cur EXCEPT !.waiting = TRUE]
        /\ ble_server_send_notification([proto |-> cur.proto, resp |-> cur.resp, seq |-> cur.seq,
                                         off |-> cur.sent, len |-> cur.len])
        /\ timer' = TRUE
     \/ NothingRecorded /\ UNCHANGED <<cur, timer, link, air, bounds>>
  /\ UNCHANGED <<q, wait, done, hist, lost>>

\* ble_packet_trans_timeout_handler: the packet recorded last is sent again
Retransmit ==
  /\ job.k = "again" /\ job' = NoJob /\ Released
  /\ \/ /\ ~NothingRecorded
        /\ cur' = [cur EXCEPT !.waiting = TRUE]
        /\ ble_server_send_notification([proto |-> cur.proto, resp |-> cur.resp, seq |-> cur.seq,
                                         off |-> cur.off, len |-> cur.len])
        /\ timer' = TRUE
     \/ NothingRecorded /\ UNCHANGED <<cur, timer, link, air, bounds>>
  /\ UNCHANGED <<q, wait, done, hist, lost>>
-----------------------------------------------------------------------------
(* Timer, Bluetooth thread, LTE thread *)

\* ble_packet_trans_rsp_timeout_cb
TimerExpires ==
  /\ timer /\ timer' = FALSE /\ Post([id |-> "TIMEOUT", n |-> 0])
  /\ UNCHANGED <<rx, cur, wait, job, link, air, bounds, done, hist>>

\* BLE_DataInputBuffer: a packet that finds the buffer in use is dropped
BLE_DataInputBuffer ==
  /\ air # <<>> /\ air' = Tail(air)
  /\ \/ rx = None /\ rx' = Head(air) /\ Post([id |-> "RX", n |-> 0])
     \/ rx # None /\ UNCHANGED <<rx, q, lost>>
  /\ UNCHANGED <<trans, link, bounds, done, hist>>

\* external: the app connects and subscribes, which takes longer than a handler
Connect ==
  /\ ~conn /\ job.k = "none" /\ conns <= MaxConn /\ conns' = conns + 1
  /\ conn' = TRUE /\ ccc' = TRUE /\ app' = NoPart
  /\ UNCHANGED <<q, rx, trans, buf, other, got, air, asked, faults, done, hist, lost>>

\* custom_char_ccc_cfg_changed
Subscription ==
  /\ conn /\ Fault /\ ccc' = ~ccc
  /\ UNCHANGED <<q, rx, trans, conn, buf, other, app, got, air, asked, conns, done, hist, lost>>

\* what a clean-up leaves of a response that is being copied: all of it, if none of it is
\* copied yet; its length, if that is not set yet; or only what is set after the length,
\* is_busy or pending
Torn(r) == {r, [k |-> "zero", n |-> 0, size |-> r.size], [k |-> "zero", n |-> 0, size |-> 0]}

\* disconnected, with ble_packet_trans_disconnect_cleanup
Disconnect ==
  /\ conn /\ conn' = FALSE /\ ccc' = FALSE /\ air' = <<>>
  /\ timer' = FALSE /\ cur' = Idle /\ wait' = None
  /\ \/ job.k \in {"start", "store"} /\ \E r \in Torn(job.resp) : job' = [job EXCEPT !.resp = r]
     \/ job.k \notin {"start", "store"} /\ UNCHANGED job
  /\ UNCHANGED <<q, rx, buf, other, app, got, bounds, done, hist, lost>>

Ask == asked < MaxAsked /\ asked' = asked + 1

\* external: the app sends a command
Command ==
  /\ conn /\ Ask /\ air' = Append(air, [k |-> "cmd", n |-> asked'])
  /\ UNCHANGED <<q, rx, trans, link, faults, conns, done, hist, lost>>

\* send_ble_msg: the 4G module has a response for the app
send_ble_msg ==
  /\ Ask /\ Post([id |-> "TX", n |-> asked'])
  /\ UNCHANGED <<rx, trans, link, air, faults, conns, done, hist>>
-----------------------------------------------------------------------------
BleThread == OnTx \/ OnCommand \/ OnOtherAnswer \/ OnConfirmed \/ OnAck \/ OnTimeout
             \/ Begin \/ BeginNarrow \/ Store \/ Transmit \/ Retransmit
Outside == BLE_DataInputBuffer \/ Connect \/ Subscription \/ Disconnect \/ Command \/ send_ble_msg
           \/ OtherBegin \/ OtherEnd

Next == BleThread \/ TimerExpires \/ Outside

Spec == Init /\ [][Next]_vars

\* The BLE thread runs and its timer expires; the app and the connection may do anything.
FairSpec == Spec /\ WF_vars(BleThread) /\ WF_vars(TimerExpires)
-----------------------------------------------------------------------------
(* Properties *)

Resps == [k : {"resp"}, n : Nat, size : Sizes]
Copies == Resps \cup [k : {"zero"}, n : {0}, size : Sizes \cup {0}]   \* what clean-ups leave of them
Packets == [proto : {"single", "multi", "other"}, resp : Copies \cup {None}, seq : Nat,
            off : Nat, len : Nat]

\* Retries, queue and notification buffer keep their limits, and the variables their types.
TypeOK ==
  /\ q \in Seq([id : {"RX", "TX", "TIMEOUT"}, n : Nat]) /\ Len(q) <= QueueLen
  /\ rx \in [k : {"none", "cmd", "ok", "ack"}, n : Nat]
  /\ air \in Seq([k : {"cmd", "ok", "ack"}, n : Nat])
  /\ cur \in [resp : Copies \cup {None}, busy : BOOLEAN, waiting : BOOLEAN,
              proto : {"none", "single", "multi"}, seq : Nat, off : Nat, len : Nat,
              sent : Nat, next : Nat, retry : 0 .. MaxRetry]
  /\ wait \in Copies \cup {None} /\ timer \in BOOLEAN
  /\ job \in {NoJob} \cup [k : {"start"}, resp : Copies, len : Sizes, rx : BOOLEAN]
             \cup [k : {"store"}, resp : Copies, rx : BOOLEAN] \cup [k : {"again"}, rx : BOOLEAN]
             \cup [k : {"send"}, proto : {"single", "multi"}, seq : Nat, off : Nat, len : Nat,
                   resp : Copies, rx : BOOLEAN]
  /\ conn \in BOOLEAN /\ ccc \in BOOLEAN
  /\ buf \in Seq([p : Packets, i : 1 .. PacketCells]) /\ Len(buf) <= BufCells
  /\ other \in Nat /\ asked \in Nat /\ faults \in Nat /\ conns \in Nat
  /\ tainted \in BOOLEAN /\ narrow \in BOOLEAN /\ lost \in BOOLEAN

\* A transfer under way is always about to be looked at again: the BLE thread is sending
\* its packet, the timer runs, or the timeout is in the queue, across disconnects in the
\* middle of a handler and late timeouts of other packets.  Three cases are excepted: a full
\* queue dropped a message; a transfer began with an MTU below 39; the clean-up of a
\* disconnect cleared the length of this transfer just before is_busy was set, after which
\* the transfer stays busy until the next disconnect.
NeverStuck ==
  cur.busy /\ cur.resp.size # 0 /\ ~narrow =>
    \/ job.k \in {"send", "again"}
    \/ cur.waiting /\ (timer \/ (\E i \in 1 .. Len(q) : q[i].id = "TIMEOUT") \/ lost)

Whole(data) == data # <<>> /\ data = [u \in 1 .. data[1].resp.size |-> [resp |-> data[1].resp, u |-> u]]

\* The app never takes for a response what is not exactly one response, whatever parts
\* were repeated, shifted in the notification buffer or answered twice, unless a transfer
\* began while an answer or a packet of an earlier one was still under way (the
\* confirmations carry no name of the transfer), or with data that the clean-up of a
\* disconnect zeroed while they were copied, or with an MTU below 39.
NeverMixed == tainted \/ (\A data \in got : Whole(data))

\* A transfer is completed only when the app has the whole response, under the same
\* exceptions.
CompletedReceived ==
  tainted \/ (\A r \in done : \E data \in got : Whole(data) /\ data[1].resp = r)

\* Every transfer ends, confirmed or given up, even if the app never answers and the
\* connection is lost at any moment (BLE_PACKET_TRANS_MAX_RETRY), but for the exceptions of
\* NeverStuck.
TransferEnds == cur.busy ~> ~cur.busy \/ lost \/ narrow \/ cur.resp.size = 0
=============================================================================
