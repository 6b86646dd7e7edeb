--------------------------- MODULE LteLinkProofs ---------------------------
(***************************************************************************)
(* Theorems about LteLink for every queue length and every bound: the type *)
(* invariant, the meaning of the transmit semaphore, and the order of      *)
(* transmission.                                                           *)
(***************************************************************************)
EXTENDS LteLink, TLAPS

(* Queues of messages *)

LEMMA MsgType == \A i \in MsgIds : Msg(i) \in Msgs
BY DEF Msg, Msgs

LEMMA CmdType == \A n \in Nat : Cmd(n) \in Msgs
BY DEF Cmd, Msgs, MsgIds

\* my_send_msg keeps the queue within its capacity
LEMMA PutType ==
  ASSUME NEW s \in Seq(Msgs), NEW m \in Msgs, Len(s) <= QueueLen
  PROVE  Put(s, m) \in Seq(Msgs) /\ Len(Put(s, m)) <= QueueLen
BY SizesAssumption DEF Put

LEMMA SendCommandType ==
  ASSUME NEW s \in Seq(Msgs), NEW n \in Nat, Len(s) <= QueueLen
  PROVE  lte_send_command(s, n) \in Seq(Msgs) /\ Len(lte_send_command(s, n)) <= QueueLen
<1>1. Msg("PWRON") \in Msgs  BY MsgType DEF MsgIds
<1>2. Cmd(n) \in Msgs  BY CmdType
<1>3. Put(s, Msg("PWRON")) \in Seq(Msgs) /\ Len(Put(s, Msg("PWRON"))) <= QueueLen
  BY <1>1, PutType
<1> DEFINE t == IF power THEN s ELSE Put(s, Msg("PWRON"))
<1>4. t \in Seq(Msgs) /\ Len(t) <= QueueLen  BY <1>3
<1> HIDE DEF t
<1>5. Put(t, Cmd(n)) \in Seq(Msgs) /\ Len(Put(t, Cmd(n))) <= QueueLen  BY <1>2, <1>4, PutType
<1> QED  BY <1>5 DEF lte_send_command, t

\* the status commands of a report
LEMMA StatusType ==
  ASSUME NEW s \in Seq(Msgs), NEW n \in Nat, Len(s) <= QueueLen
  PROVE  /\ Status(s, n) \in Seq(Msgs) /\ Len(Status(s, n)) <= QueueLen
         /\ \A i \in 1..Len(Status(s, n)) :
              IF i <= Len(s) THEN Status(s, n)[i] = s[i] ELSE Status(s, n)[i].cmd = 0
<1> DEFINE k == IF n < QueueLen - Len(s) THEN n ELSE QueueLen - Len(s)
           t == [i \in 1..k |-> Cmd(0)]
<1>1. k \in Nat /\ Len(s) \in Nat /\ Len(s) + k <= QueueLen  BY SizesAssumption
<1> HIDE DEF k
<1>2. t \in Seq(Msgs) /\ Len(t) = k  BY <1>1, CmdType
<1>3. \A i \in 1..k : t[i].cmd = 0  BY DEF Cmd
<1> HIDE DEF t
<1>4. s \o t \in Seq(Msgs) /\ Len(s \o t) = Len(s) + k  BY <1>2
<1>5. \A i \in 1..(Len(s) + k) : (s \o t)[i] = IF i <= Len(s) THEN s[i] ELSE t[i - Len(s)]
  BY <1>1, <1>2
<1>6. Status(s, n) = s \o t  BY DEF Status, k, t
<1> QED  BY <1>1, <1>3, <1>4, <1>5, <1>6

LEMMA TailType ==
  ASSUME NEW S, NEW s \in Seq(S), s # <<>>
  PROVE  /\ Tail(s) \in Seq(S) /\ Len(Tail(s)) = Len(s) - 1 /\ Len(s) \in Nat \ {0}
         /\ Head(s) \in S /\ Head(s) = s[1]
         /\ \A i \in 1..Len(Tail(s)) : Tail(s)[i] = s[i + 1]
OBVIOUS
-----------------------------------------------------------------------------
(* Type correctness, in four parts *)

QueuesOK ==
  /\ q \in Seq(Msgs) /\ Len(q) <= QueueLen
  /\ pending \in Seq(Nat) /\ Len(pending) <= PendLen
  /\ ring \in Seq(Lines) /\ Len(ring) <= RingLen

FlagsOK ==
  /\ power \in BOOLEAN /\ ready \in BOOLEAN /\ active \in BOOLEAN /\ tx_busy \in BOOLEAN
  /\ wakeup_pending \in BOOLEAN /\ window \in BOOLEAN /\ fota \in BOOLEAN /\ forced \in BOOLEAN

ThreadOK ==
  /\ pc \in Places /\ ret \in Returns
  /\ out \in Nat \cup {YModem} /\ air \in Nat \cup {None, WakeBytes, YModem}

ValuesOK ==
  /\ idle \in {"off", "fresh", "due"} /\ sem \in {0, 1} /\ ota \in {"no", "app", "lte"}
  /\ posted \in Nat /\ lines \in Nat /\ updates \in Nat /\ wakes \in Nat /\ faults \in Nat
  /\ lastSent \in Nat

LEMMA TypeParts == TypeOK <=> QueuesOK /\ FlagsOK /\ ThreadOK /\ ValuesOK
BY DEF TypeOK, QueuesOK, FlagsOK, ThreadOK, ValuesOK

LEMMA EmptyQueues ==
  \A S : <<>> \in Seq(S) /\ Len(<<>>) <= QueueLen /\ Len(<<>>) <= PendLen /\ Len(<<>>) <= RingLen
BY SizesAssumption

\* Taking the first message.
LEMMA TakeType ==
  ASSUME QueuesOK, q # <<>>
  PROVE  /\ Tail(q) \in Seq(Msgs) /\ Len(Tail(q)) <= QueueLen
         /\ Head(q) \in Msgs /\ Head(q).cmd \in Nat
<1>1. q \in Seq(Msgs) /\ Len(q) <= QueueLen  BY DEF QueuesOK
<1>2. Tail(q) \in Seq(Msgs) /\ Len(Tail(q)) = Len(q) - 1 /\ Len(q) \in Nat /\ Head(q) \in Msgs
  BY <1>1, TailType
<1>3. Head(q).cmd \in Nat  BY <1>2 DEF Msgs
<1>4. QueueLen \in Nat  BY SizesAssumption
<1> QED  BY <1>1, <1>2, <1>3, <1>4

\* Posting a message.
LEMMA PostType ==
  ASSUME QueuesOK, NEW i \in MsgIds
  PROVE  Put(q, Msg(i)) \in Seq(Msgs) /\ Len(Put(q, Msg(i))) <= QueueLen
<1>1. Msg(i) \in Msgs  BY MsgType
<1> QED  BY <1>1, PutType DEF QueuesOK

\* Taking the first line.
LEMMA RingTake ==
  ASSUME QueuesOK, ring # <<>>
  PROVE  Tail(ring) \in Seq(Lines) /\ Len(Tail(ring)) <= RingLen
<1>1. ring \in Seq(Lines) /\ Len(ring) <= RingLen  BY DEF QueuesOK
<1>2. Tail(ring) \in Seq(Lines) /\ Len(Tail(ring)) = Len(ring) - 1 /\ Len(ring) \in Nat
  BY <1>1, TailType
<1>3. RingLen \in Nat  BY SizesAssumption
<1> QED  BY <1>1, <1>2, <1>3

\* my_lte_enqueue_msg keeps the queue of pending messages within its capacity.
LEMMA EnqueueType ==
  ASSUME QueuesOK, NEW n \in Nat, my_lte_enqueue_msg(n)
  PROVE  pending' \in Seq(Nat) /\ Len(pending') <= PendLen
<1>1. pending \in Seq(Nat) /\ Len(pending) <= PendLen /\ PendLen \in Nat \ {0} /\ Len(pending) \in Nat
  BY SizesAssumption DEF QueuesOK
<1>2. Len(pending) >= PendLen => pending # <<>>  BY <1>1
<1>3. CASE Len(pending) >= PendLen
  <2>1. Tail(pending) \in Seq(Nat) /\ Len(Tail(pending)) = Len(pending) - 1  BY <1>1, <1>2, <1>3, TailType
  <2>2. PICK t : t = Tail(pending)  OBVIOUS
  <2>3. t \in Seq(Nat) /\ Len(t) = Len(pending) - 1 /\ Len(t) \in Nat  BY <2>1, <2>2
  <2>4. pending' = Append(t, n) \/ pending' = t  BY <1>3, <2>2 DEF my_lte_enqueue_msg
  <2>5. Append(t, n) \in Seq(Nat) /\ Len(Append(t, n)) = Len(t) + 1  BY <2>3
  <2>6. Len(t) <= PendLen /\ Len(t) + 1 <= PendLen  BY <2>3, <1>1
  <2>7. CASE pending' = Append(t, n)  BY <2>5, <2>6, <2>7
  <2>8. CASE pending' = t  BY <2>3, <2>6, <2>8
  <2> QED  BY <2>4, <2>7, <2>8
<1>4. CASE Len(pending) < PendLen
  <2>1. pending' = Append(pending, n) \/ pending' = pending  BY <1>1, <1>4 DEF my_lte_enqueue_msg
  <2>2. Append(pending, n) \in Seq(Nat) /\ Len(Append(pending, n)) = Len(pending) + 1  BY <1>1
  <2> QED  BY <2>1, <2>2, <1>1, <1>4
<1> QED  BY <1>1, <1>3, <1>4

LEMMA SendMsgType ==
  ASSUME QueuesOK, NEW n \in Nat, NEW b, my_lte_send_msg(n, b)
  PROVE  pending' \in Seq(Nat) /\ Len(pending') <= PendLen
<1>1. CASE UNCHANGED pending  BY <1>1 DEF QueuesOK
<1>2. CASE my_lte_enqueue_msg(n)  BY <1>2, EnqueueType
<1> QED  BY <1>1, <1>2 DEF my_lte_send_msg

\* The actions that leave the three queues alone.
LEMMA QueuesKept ==
  ASSUME QueuesOK, UNCHANGED <<q, pending, ring>>
  PROVE  QueuesOK'
BY DEF QueuesOK

\* The queues keep their types and capacities.
LEMMA QueuesStep ==
  ASSUME QueuesOK, posted \in Nat, [Next]_vars
  PROVE  QueuesOK'
<1>1. CASE Sending \/ PwrOffWait \/ PwrOffSlept \/ RevEnd \/ WindowEnds \/ IdleDue \/ AppOta \/ UNCHANGED vars
  <2>1. UNCHANGED <<q, pending, ring>>
    BY <1>1 DEF Sending, SendBegin, SendRefused, SendTake, SendTakeTimeout, SendWake, SendWoken,
                SendWakeTimeout, SendData, SendFails, PwrOffWait, PwrOffSlept, RevEnd, WindowEnds,
                IdleDue, AppOta, vars
  <2> QED  BY <2>1, QueuesKept
<1>2. CASE OnTxDone \/ OnUartIdle \/ OnPwrOn \/ OnWakeup \/ OnPwrOff \/ OnRev
  <2>1. q # <<>> /\ q' = Tail(q) /\ UNCHANGED <<pending, ring>>
    BY <1>2 DEF OnTxDone, OnUartIdle, OnPwrOn, OnWakeup, OnPwrOff, OnRev, Receive
  <2> QED  BY <2>1, TakeType DEF QueuesOK
<1>3. CASE OnBleData
  <2>1. q # <<>> /\ q' = Tail(q) /\ UNCHANGED ring /\ my_lte_send_msg(Head(q).cmd, "recv")
    BY <1>3 DEF OnBleData, Receive
  <2>2. Head(q).cmd \in Nat /\ q' \in Seq(Msgs) /\ Len(q') <= QueueLen  BY <2>1, TakeType
  <2>3. pending' \in Seq(Nat) /\ Len(pending') <= PendLen  BY <2>1, <2>2, SendMsgType
  <2> QED  BY <2>1, <2>2, <2>3 DEF QueuesOK
<1>4. CASE OnPulse
  <2>1. q # <<>> /\ UNCHANGED <<pending, ring>>
        /\ q' = IF ready THEN lte_send_command(Tail(q), 0) ELSE Tail(q)
    BY <1>4 DEF OnPulse, Receive
  <2>2. Tail(q) \in Seq(Msgs) /\ Len(Tail(q)) <= QueueLen  BY <2>1, TakeType
  <2>3. lte_send_command(Tail(q), 0) \in Seq(Msgs) /\ Len(lte_send_command(Tail(q), 0)) <= QueueLen
    BY <2>2, SendCommandType
  <2> QED  BY <2>1, <2>2, <2>3 DEF QueuesOK
<1>5. CASE PwrOffCut
  <2>1. UNCHANGED q /\ pending' = <<>> /\ ring' = <<>>  BY <1>5 DEF PwrOffCut
  <2> QED  BY <2>1, EmptyQueues DEF QueuesOK
<1>6. CASE LinePowerOn \/ LineState
  <2>1. ring # <<>> /\ ring' = Tail(ring) /\ UNCHANGED <<q, pending>>
    BY <1>6 DEF LinePowerOn, LineState, Line
  <2> QED  BY <2>1, RingTake DEF QueuesOK
<1>7. CASE Report
  <2>1. q' = Status(q, Reports) /\ UNCHANGED <<pending, ring>>  BY <1>7 DEF Report
  <2>2. q' \in Seq(Msgs) /\ Len(q') <= QueueLen  BY <2>1, StatusType, SizesAssumption DEF QueuesOK
  <2> QED  BY <2>1, <2>2 DEF QueuesOK
<1>8. CASE Drain
  <2>1. UNCHANGED <<q, ring>> /\ (UNCHANGED pending \/ (pending # <<>> /\ pending' = Tail(pending)))
    BY <1>8 DEF Drain
  <2>2. CASE UNCHANGED pending  BY <2>1, <2>2, QueuesKept
  <2>3. CASE pending # <<>> /\ pending' = Tail(pending)
    <3>1. pending \in Seq(Nat) /\ Len(pending) <= PendLen /\ PendLen \in Nat  BY SizesAssumption DEF QueuesOK
    <3>2. pending' \in Seq(Nat) /\ Len(pending') = Len(pending) - 1 /\ Len(pending) \in Nat
      BY <2>3, <3>1, TailType
    <3>3. Len(pending') <= PendLen  BY <3>1, <3>2
    <3> QED  BY <2>1, <3>2, <3>3 DEF QueuesOK
  <2> QED  BY <2>1, <2>2, <2>3
<1>9. CASE LinePowerOff
  <2>1. ring # <<>> /\ ring' = Tail(ring) /\ UNCHANGED pending /\ q' = Put(q, Msg("PWROFF"))
    BY <1>9 DEF LinePowerOff, Line
  <2>2. q' \in Seq(Msgs) /\ Len(q') <= QueueLen  BY <2>1, PostType DEF MsgIds
  <2> QED  BY <2>1, <2>2, RingTake DEF QueuesOK
<1>10. CASE my_lte_handle_fota \/ LineMcuOta
  <2>1. ring # <<>> /\ ring' = Tail(ring) /\ UNCHANGED q /\ \E b : my_lte_send_msg(0, b)
    BY <1>10 DEF my_lte_handle_fota, LineMcuOta, Line
  <2>2. pending' \in Seq(Nat) /\ Len(pending') <= PendLen  BY <2>1, SendMsgType
  <2> QED  BY <2>1, <2>2, RingTake DEF QueuesOK
<1>11. CASE OtaReceive \/ OtaEnd
  <2>1. q' = <<>> /\ pending' = <<>> /\ ring' = <<>>
    BY <1>11 DEF OtaReceive, OtaEnd, my_lte_purge_dfu_queues
  <2> QED  BY <2>1, EmptyQueues DEF QueuesOK
<1>12. CASE OtaReply
  <2>1. UNCHANGED <<q, ring>> /\ my_lte_send_msg(0, "rev")  BY <1>12 DEF OtaReply
  <2>2. pending' \in Seq(Nat) /\ Len(pending') <= PendLen  BY <2>1, SendMsgType
  <2> QED  BY <2>1, <2>2 DEF QueuesOK
<1>13. CASE TxDone \/ lte_uart_idle_timer_handler \/ lte_pulse_timer_handler \/ lte_wake_pin_isr
  <2>1. UNCHANGED <<pending, ring>> /\ (UNCHANGED q \/ \E i \in MsgIds : q' = Put(q, Msg(i)))
    BY <1>13 DEF TxDone, lte_uart_idle_timer_handler, lte_pulse_timer_handler, lte_wake_pin_isr, MsgIds
  <2> QED  BY <2>1, PostType DEF QueuesOK
<1>14. CASE ModuleUp \/ ModuleLine
  <2>1. UNCHANGED pending /\ \E l \in Lines : RxReady(l)
    BY <1>14 DEF ModuleUp, ModuleLine, Lines
  <2>2. PICK l \in Lines : RxReady(l)  BY <2>1
  <2>3. q' \in Seq(Msgs) /\ Len(q') <= QueueLen  BY <2>2, PostType DEF MsgIds, RxReady
  <2>4. ring' \in Seq(Lines) /\ Len(ring') <= RingLen  BY <2>2, SizesAssumption DEF RxReady, QueuesOK
  <2> QED  BY <2>1, <2>3, <2>4 DEF QueuesOK
<1>15. CASE Post
  <2>1. UNCHANGED <<pending, ring>>
        /\ (UNCHANGED q \/ q' = Put(q, Msg("PWRON")) \/ q' = lte_send_command(q, posted + 1))
    BY <1>15 DEF Post
  <2>2. q' \in Seq(Msgs) /\ Len(q') <= QueueLen  BY <2>1, PostType, SendCommandType DEF MsgIds, QueuesOK
  <2> QED  BY <2>1, <2>2 DEF QueuesOK
<1> QED
  BY <1>1, <1>2, <1>3, <1>4, <1>5, <1>6, <1>7, <1>8, <1>9, <1>10, <1>11, <1>12, <1>13, <1>14, <1>15
  DEF Next, Thread, Handling, PoweringOff, Reading, Interrupts, Timers, Others

\* What the thread is told to send, and where it goes on.
LEMMA SendMsgThread ==
  ASSUME ThreadOK, NEW n \in Nat, NEW b \in Returns, my_lte_send_msg(n, b)
  PROVE  pc' \in Places /\ ret' \in Returns /\ out' \in Nat \cup {YModem}
BY DEF ThreadOK, my_lte_send_msg, UartSend, Places, Returns

\* The thread stays in its places, and sends only what it may.
LEMMA ThreadStep ==
  ASSUME QueuesOK, ThreadOK, [Next]_vars
  PROVE  ThreadOK'
<1>1. CASE UNCHANGED thread /\ (UNCHANGED air \/ air' = None)
  BY <1>1 DEF ThreadOK, thread
<1>2. CASE SendBegin \/ SendRefused \/ SendTake \/ SendTakeTimeout \/ SendWoken \/ SendWakeTimeout
           \/ SendFails \/ PoweringOff \/ OnPwrOff \/ OnRev \/ RevEnd \/ Report \/ OtaEnd
  <2>1. UNCHANGED <<out, ret, air>>
    BY <1>2 DEF SendBegin, SendRefused, SendTake, SendTakeTimeout, SendWoken, SendWakeTimeout,
                SendFails, PoweringOff, PwrOffWait, PwrOffCut, PwrOffSlept, OnPwrOff, OnRev, RevEnd,
                Report, OtaEnd, Return, link
  <2>2. pc' \in Places
    BY <1>2 DEF SendBegin, SendRefused, SendTake, SendTakeTimeout, SendWoken, SendWakeTimeout,
                SendFails, PoweringOff, PwrOffWait, PwrOffCut, PwrOffSlept, OnPwrOff, OnRev, RevEnd,
                Report, OtaEnd, Return, ThreadOK, Places, Returns
  <2> QED  BY <2>1, <2>2 DEF ThreadOK
<1>3. CASE SendWake
  BY <1>3 DEF SendWake, ThreadOK, Places
<1>4. CASE SendData
  BY <1>4 DEF SendData, Return, ThreadOK, Places, Returns
<1>5. CASE OnBleData
  <2>1. q # <<>> /\ UNCHANGED air /\ my_lte_send_msg(Head(q).cmd, "recv")
    BY <1>5 DEF OnBleData, Receive, link
  <2>2. Head(q).cmd \in Nat  BY <2>1, TakeType
  <2> QED  BY <2>1, <2>2, SendMsgThread DEF ThreadOK, Returns
<1>6. CASE my_lte_handle_fota \/ LineMcuOta \/ OtaReply
  <2>1. UNCHANGED air /\ \E b \in Returns : my_lte_send_msg(0, b)
    BY <1>6 DEF my_lte_handle_fota, LineMcuOta, OtaReply, link, Returns
  <2> QED  BY <2>1, SendMsgThread DEF ThreadOK
<1>7. CASE LinePowerOn \/ LinePowerOff \/ LineState \/ OtaReceive
  BY <1>7 DEF LinePowerOn, LinePowerOff, LineState, OtaReceive, UartSend, link, ThreadOK, Places, Returns
<1>8. CASE Drain
  <2>1. UNCHANGED air  BY <1>8 DEF Drain, link
  <2>2. CASE pending # <<>> /\ UartSend(Head(pending), "drain")
    <3>1. pending \in Seq(Nat)  BY DEF QueuesOK
    <3>2. Head(pending) \in Nat  BY <2>2, <3>1, TailType
    <3> QED  BY <2>1, <2>2, <3>2 DEF UartSend, ThreadOK, Places, Returns
  <2>3. CASE pc' = "rev" /\ UNCHANGED <<out, ret>>
    BY <2>1, <2>3 DEF ThreadOK, Places
  <2> QED  BY <1>8, <2>2, <2>3 DEF Drain
<1>9. CASE OnTxDone \/ OnUartIdle \/ OnPwrOn \/ OnPulse \/ OnWakeup \/ Interrupts \/ Others \/ UNCHANGED vars
  <2>1. UNCHANGED thread /\ (UNCHANGED air \/ air' = None)
    BY <1>9 DEF OnTxDone, OnUartIdle, OnPwrOn, OnPulse, OnWakeup, Interrupts, TxDone, lte_wake_pin_isr,
                Timers, WindowEnds, IdleDue, lte_uart_idle_timer_handler, lte_pulse_timer_handler,
                Others, ModuleUp, ModuleLine, Post, AppOta, link, vars
  <2> QED  BY <1>1, <2>1
<1> QED
  BY <1>2, <1>3, <1>4, <1>5, <1>6, <1>7, <1>8, <1>9 DEF Next, Thread, Sending, Handling, Reading

\* The remaining values; timers, semaphore and counters.
LEMMA ValuesStep ==
  ASSUME ThreadOK, ValuesOK, [Next]_vars
  PROVE  ValuesOK'
<1>1. CASE Sending
  <2>1. idle' \in {"off", "fresh", "due"} /\ sem' \in {0, 1}
    BY <1>1 DEF Sending, SendBegin, SendRefused, SendTake, SendTakeTimeout, SendWake, SendWoken,
                SendWakeTimeout, SendData, SendFails, lte_uart_activity_kick, link, ValuesOK
  <2>2. faults' \in Nat /\ lastSent' \in Nat
    BY <1>1 DEF Sending, SendBegin, SendRefused, SendTake, SendTakeTimeout, SendWake, SendWoken,
                SendWakeTimeout, SendData, SendFails, EnsureActive, EnsureFails, Fault, env,
                ValuesOK, ThreadOK, YModem
  <2>3. UNCHANGED <<ota, posted, lines, updates, wakes>>
    BY <1>1 DEF Sending, SendBegin, SendRefused, SendTake, SendTakeTimeout, SendWake, SendWoken,
                SendWakeTimeout, SendData, SendFails, env
  <2> QED  BY <2>1, <2>2, <2>3 DEF ValuesOK
<1>2. CASE Handling
  <2>1. idle' \in {"off", "fresh", "due"} /\ UNCHANGED <<sem, ota, posted, lines, updates, wakes, lastSent>>
    BY <1>2 DEF Handling, OnTxDone, OnUartIdle, OnPwrOn, OnBleData, OnPulse, OnWakeup, OnPwrOff, OnRev,
                lte_uart_activity_kick, link, env, ValuesOK
  <2>2. faults' \in Nat
    BY <1>2 DEF Handling, OnTxDone, OnUartIdle, OnPwrOn, OnBleData, OnPulse, OnWakeup, OnPwrOff, OnRev,
                EnsureActive, EnsureFails, Suspend, my_lte_send_msg, my_lte_enqueue_msg, Fault, env, ValuesOK
  <2> QED  BY <2>1, <2>2 DEF ValuesOK
<1>3. CASE PoweringOff
  BY <1>3 DEF PoweringOff, PwrOffWait, PwrOffCut, PwrOffSlept, Fault, link, env, ValuesOK
<1>4. CASE Reading
  <2>1. ota' \in {"no", "app", "lte"} /\ UNCHANGED <<idle, sem, posted, lines, updates, wakes, lastSent>>
    BY <1>4 DEF Reading, RevEnd, LinePowerOn, Report, Drain, LinePowerOff, LineState, my_lte_handle_fota,
                LineMcuOta, OtaReceive, OtaEnd, OtaReply, link, env, ValuesOK
  <2>2. faults' \in Nat
    BY <1>4 DEF Reading, RevEnd, LinePowerOn, Report, Drain, LinePowerOff, LineState, my_lte_handle_fota,
                LineMcuOta, OtaReceive, OtaEnd, OtaReply, my_lte_send_msg, my_lte_enqueue_msg, Fault, env,
                ValuesOK
  <2> QED  BY <2>1, <2>2 DEF ValuesOK
<1>5. CASE Interrupts \/ Others
  <2>1. idle' \in {"off", "fresh", "due"} /\ sem' \in {0, 1} /\ ota' \in {"no", "app", "lte"}
    BY <1>5 DEF Interrupts, TxDone, lte_wake_pin_isr, Timers, WindowEnds, IdleDue,
                lte_uart_idle_timer_handler, lte_pulse_timer_handler, Others, ModuleUp, ModuleLine, Post,
                AppOta, link, ValuesOK
  <2>2. /\ posted' \in Nat /\ lines' \in Nat /\ updates' \in Nat /\ wakes' \in Nat /\ faults' \in Nat
        /\ lastSent' \in Nat
    BY <1>5, SMTT(30) DEF Interrupts, TxDone, lte_wake_pin_isr, Timers, WindowEnds, IdleDue,
                lte_uart_idle_timer_handler, lte_pulse_timer_handler, Others, ModuleUp, ModuleLine, Post,
                AppOta, Fault, env, ValuesOK
  <2> QED  BY <2>1, <2>2 DEF ValuesOK
<1>6. CASE UNCHANGED vars
  BY <1>6 DEF vars, link, env, ValuesOK
<1> QED  BY <1>1, <1>2, <1>3, <1>4, <1>5, <1>6 DEF Next, Thread

\* The flags are Booleans.
LEMMA FlagsStep ==
  ASSUME FlagsOK, [Next]_vars
  PROVE  FlagsOK'
<1>1. CASE Sending
  BY <1>1, ZenonT(60) DEF Sending, SendBegin, SendRefused, SendTake, SendTakeTimeout, SendWake, SendWoken,
              SendWakeTimeout, SendData, SendFails, EnsureActive, link, FlagsOK
<1>2. CASE Handling
  BY <1>2, ZenonT(60) DEF Handling, OnTxDone, OnUartIdle, OnPwrOn, OnBleData, OnPulse, OnWakeup, OnPwrOff, OnRev,
              EnsureActive, Suspend, link, FlagsOK
<1>3. CASE PoweringOff
  BY <1>3, ZenonT(60) DEF PoweringOff, PwrOffWait, PwrOffCut, PwrOffSlept, link, FlagsOK
<1>4. CASE Reading
  BY <1>4, ZenonT(60) DEF Reading, RevEnd, LinePowerOn, Report, Drain, LinePowerOff, LineState, my_lte_handle_fota,
              LineMcuOta, OtaReceive, OtaEnd, OtaReply, link, FlagsOK
<1>5. CASE Interrupts \/ Others
  BY <1>5, ZenonT(60) DEF Interrupts, TxDone, lte_wake_pin_isr, Timers, WindowEnds, IdleDue,
              lte_uart_idle_timer_handler, lte_pulse_timer_handler, Others, ModuleUp, ModuleLine, Post,
              AppOta, link, FlagsOK
<1>6. CASE UNCHANGED vars
  BY <1>6, Zenon DEF vars, link, FlagsOK
<1> QED  BY <1>1, <1>2, <1>3, <1>4, <1>5, <1>6 DEF Next, Thread

LEMMA TypeInit == Init => TypeOK
<1> SUFFICES ASSUME Init PROVE QueuesOK /\ FlagsOK /\ ThreadOK /\ ValuesOK
  BY TypeParts
<1>1. QueuesOK
  <2>1. Cmd(1) \in Msgs  BY CmdType
  <2>2. <<Cmd(1)>> \in Seq(Msgs) /\ Len(<<Cmd(1)>>) = 1  BY <2>1
  <2>3. 1 <= QueueLen  BY SizesAssumption
  <2> QED  BY <2>2, <2>3, EmptyQueues DEF Init, QueuesOK
<1>2. FlagsOK  BY Zenon DEF Init, FlagsOK
<1>3. ThreadOK  BY DEF Init, ThreadOK, Places, Returns
<1>4. ValuesOK  BY DEF Init, ValuesOK
<1> QED  BY <1>1, <1>2, <1>3, <1>4

LEMMA TypeStep == TypeOK /\ [Next]_vars => TypeOK'
<1> SUFFICES ASSUME TypeOK, [Next]_vars PROVE TypeOK'
  OBVIOUS
<1>1. QueuesOK /\ FlagsOK /\ ThreadOK /\ ValuesOK  BY TypeParts
<1>2. QueuesOK'  BY <1>1, QueuesStep DEF ValuesOK
<1>3. FlagsOK'  BY <1>1, FlagsStep
<1>4. ThreadOK'  BY <1>1, ThreadStep
<1>5. ValuesOK'  BY <1>1, ValuesStep
<1> QED  BY <1>2, <1>3, <1>4, <1>5 DEF TypeOK, QueuesOK, FlagsOK, ThreadOK, ValuesOK

\* The variables of the LTE thread keep the values of their C types, and the message
\* queue, the queue of pending commands and the receive ring never exceed their
\* capacities (my_send_msg, my_lte_enqueue_msg, lte_uart_cb), whatever these are.
THEOREM TypeCorrect == Spec => []TypeOK
<1> QED  BY TypeInit, TypeStep, PTL DEF Spec
-----------------------------------------------------------------------------
(* The transmit semaphore *)

\* SemGuardsTransfer is not inductive: that a sender that took the semaphore finds the
\* UART free has to be carried along.
SemInv ==
  /\ SemGuardsTransfer
  /\ ~forced /\ pc \in {"wake", "tx"} => air = None

LEMMA SemStep ==
  ASSUME TypeOK, SemInv, [Next]_vars
  PROVE  SemInv'
<1>0. /\ ret \notin {"wake", "tx", "cut"} /\ out # None /\ sem \in {0, 1}
      /\ WakeBytes # None /\ YModem # None
  BY DEF TypeOK, Returns, None, WakeBytes, YModem
<1>1. CASE SendBegin \/ SendRefused \/ SendTakeTimeout
  BY <1>0, <1>1 DEF SendBegin, SendRefused, SendTakeTimeout, Return, link, SemInv, SemGuardsTransfer
<1>2. CASE SendTake
  BY <1>0, <1>2 DEF SendTake, SemInv, SemGuardsTransfer
<1>3. CASE SendWake
  BY <1>0, <1>3 DEF SendWake, SemInv, SemGuardsTransfer
<1>4. CASE SendWoken
  BY <1>0, <1>4 DEF SendWoken, SemInv, SemGuardsTransfer
<1>5. CASE SendWakeTimeout
  <2>1. ~forced' => air = None  BY <1>5 DEF SendWakeTimeout
  <2>2. UNCHANGED air /\ sem' = 1 /\ pc' = ret  BY <1>5 DEF SendWakeTimeout, Return
  <2> QED  BY <1>0, <2>1, <2>2 DEF SemInv, SemGuardsTransfer
<1>6. CASE SendData
  BY <1>0, <1>6 DEF SendData, Return, SemInv, SemGuardsTransfer
<1>7. CASE SendFails
  <2>1. ~forced' => air = None  BY <1>7 DEF SendFails
  <2>2. UNCHANGED air /\ sem' = 1 /\ pc' = ret  BY <1>7 DEF SendFails, Return
  <2> QED  BY <1>0, <2>1, <2>2 DEF SemInv, SemGuardsTransfer
<1>8. CASE PwrOffWait
  BY <1>8 DEF PwrOffWait, SemInv, SemGuardsTransfer
<1>9. CASE PwrOffCut
  <2>1. ~forced' => air = None  BY <1>9 DEF PwrOffCut
  <2>2. UNCHANGED air /\ sem' = 1 /\ pc' = "offsleep"  BY <1>9 DEF PwrOffCut
  <2> QED  BY <2>1, <2>2 DEF SemInv, SemGuardsTransfer
<1>10. CASE TxDone
  <2>1. ~forced' => ~forced \/ pc \notin {"wake", "tx"}  BY <1>10, Zenon DEF TxDone
  <2>2. air # None /\ air' = None /\ sem' = 1 /\ UNCHANGED pc  BY <1>10 DEF TxDone, thread
  <2> QED  BY <2>1, <2>2 DEF SemInv, SemGuardsTransfer
<1>11. CASE OnPwrOff \/ OnRev \/ PwrOffSlept \/ RevEnd \/ Report \/ Drain \/ OtaEnd
  BY <1>11 DEF OnPwrOff, OnRev, PwrOffSlept, RevEnd, Report, Drain, OtaEnd, UartSend, Receive, link,
               SemInv, SemGuardsTransfer
<1>12. CASE OnBleData \/ my_lte_handle_fota \/ LineMcuOta \/ OtaReply
  <2>1. UNCHANGED <<sem, air, forced>> /\ pc \in {"recv", "rev", "otareply"}
    BY <1>12 DEF OnBleData, my_lte_handle_fota, LineMcuOta, OtaReply, Receive, Line, link
  <2>2. pc' \in {"send", "recv", "rev", "ota"}
    BY <1>12 DEF OnBleData, my_lte_handle_fota, LineMcuOta, OtaReply, my_lte_send_msg, UartSend
  <2> QED  BY <2>1, <2>2 DEF SemInv, SemGuardsTransfer
<1>13. CASE LinePowerOn \/ LinePowerOff \/ LineState \/ OtaReceive
  BY <1>13 DEF LinePowerOn, LinePowerOff, LineState, OtaReceive, UartSend, Line, link,
               SemInv, SemGuardsTransfer
<1>14. CASE OnTxDone \/ OnUartIdle \/ OnPwrOn \/ OnPulse \/ OnWakeup \/ lte_wake_pin_isr \/ Timers
            \/ Others \/ UNCHANGED vars
  <2>1. UNCHANGED <<sem, air, forced, pc>>
    BY <1>14 DEF OnTxDone, OnUartIdle, OnPwrOn, OnPulse, OnWakeup, lte_wake_pin_isr, Timers, WindowEnds,
                 IdleDue, lte_uart_idle_timer_handler, lte_pulse_timer_handler, Others, ModuleUp,
                 ModuleLine, Post, AppOta, link, thread, vars
  <2> QED  BY <2>1 DEF SemInv, SemGuardsTransfer
<1> QED
  BY <1>1, <1>2, <1>3, <1>4, <1>5, <1>6, <1>7, <1>8, <1>9, <1>10, <1>11, <1>12, <1>13, <1>14
  DEF Next, Thread, Sending, Handling, PoweringOff, Reading, Interrupts

\* However the LTE thread, the completion interrupt and the power-off interleave,
\* s_TxDoneSem stands for the transfer under way: my_lte_uart_send gives it back on every
\* path that does not start one, and an exception begins only with a forced give.
THEOREM SemaphoreCorrect == Spec => []SemGuardsTransfer
<1>1. Init => SemInv
  BY DEF Init, SemInv, SemGuardsTransfer, None
<1>2. TypeOK /\ SemInv /\ [Next]_vars => SemInv'
  BY SemStep
<1>3. SemInv => SemGuardsTransfer
  BY DEF SemInv
<1> QED  BY <1>1, <1>2, <1>3, TypeCorrect, PTL DEF Spec
-----------------------------------------------------------------------------
(* The order of transmission *)

\* The thread is in my_lte_uart_send or my_lte_uart_send_ymodem.
Busy == pc \in {"send", "take", "wake", "wakewait", "tx"}

\* A command in the message queue is later than all that were taken from it, ...
QueueOrder ==
  \A i \in 1..Len(q) : q[i].cmd > 0 =>
    /\ q[i].cmd <= posted /\ lastSent < q[i].cmd
    /\ Busy => out < q[i].cmd
    /\ \A j \in 1..Len(pending) : pending[j] < q[i].cmd
    /\ \A j \in 1..Len(q) : i < j /\ q[j].cmd > 0 => q[i].cmd < q[j].cmd

\* ... one that waits for the module is later than the ones handed to the UART, ...
PendingOrder ==
  \A i \in 1..Len(pending) : pending[i] > 0 =>
    /\ pending[i] <= posted /\ lastSent < pending[i]
    /\ Busy => out < pending[i]
    /\ \A j \in 1..Len(pending) : i < j /\ pending[j] > 0 => pending[i] < pending[j]

\* ... and one on its way to the UART is later than the last that reached it.
SentOrder ==
  /\ lastSent <= posted
  /\ Busy /\ out > 0 => lastSent < out /\ out <= posted

\* Once the module is ready, commands wait only while my_lte_handle_power_on runs: no
\* command from the message queue can overtake them.
Draining == pc \in {"report", "drain"} \/ (Busy /\ ret \in {"report", "drain"})
Drained == ready /\ ~Draining => pending = <<>>

Numbers == 
  /\ \A i \in 1..Len(q) : q[i].cmd \in Nat
  /\ \A i \in 1..Len(pending) : pending[i] \in Nat
  /\ Len(q) \in Nat /\ Len(pending) \in Nat
  /\ out \in Int /\ posted \in Nat /\ lastSent \in Nat

LEMMA TypeNumbers == TypeOK => Numbers
<1> SUFFICES ASSUME TypeOK PROVE Numbers
  OBVIOUS
<1>1. q \in Seq(Msgs) /\ pending \in Seq(Nat)  BY DEF TypeOK
<1>2. \A i \in 1..Len(q) : q[i] \in Msgs  BY <1>1
<1>3. \A i \in 1..Len(q) : q[i].cmd \in Nat  BY <1>2 DEF Msgs
<1>4. \A i \in 1..Len(pending) : pending[i] \in Nat  BY <1>1
<1>5. Len(q) \in Nat /\ Len(pending) \in Nat  BY <1>1
<1>6. out \in Int /\ posted \in Nat /\ lastSent \in Nat  BY DEF TypeOK, YModem
<1> QED  BY <1>3, <1>4, <1>5, <1>6 DEF Numbers

\* A step that removes commands, or adds only messages of the thread itself, and at most
\* hands the command on its way to the UART.
LEMMA OrderKept ==
  ASSUME Numbers, Numbers', QueueOrder, PendingOrder, SentOrder,
         NEW d \in {0, 1}, NEW e \in {0, 1},
         \A i \in 1..Len(q') : q'[i].cmd = 0 \/ (i + d \in 1..Len(q) /\ q'[i] = q[i + d]),
         \A i \in 1..Len(pending') :
            pending'[i] = 0 \/ (i + e \in 1..Len(pending) /\ pending'[i] = pending[i + e]),
         posted' = posted,
         \/ lastSent' = lastSent /\ (Busy' => out' <= 0 \/ (Busy /\ out' = out))
         \/ lastSent' = out /\ Busy /\ out > 0 /\ ~Busy'
  PROVE  QueueOrder' /\ PendingOrder' /\ SentOrder'
<1>1. SentOrder'
  BY DEF SentOrder, Numbers
<1>2. QueueOrder'
  <2> SUFFICES ASSUME NEW i \in 1..Len(q'), q'[i].cmd > 0
               PROVE  /\ q'[i].cmd <= posted' /\ lastSent' < q'[i].cmd
                      /\ Busy' => out' < q'[i].cmd
                      /\ \A j \in 1..Len(pending') : pending'[j] < q'[i].cmd
                      /\ \A j \in 1..Len(q') : i < j /\ q'[j].cmd > 0 => q'[i].cmd < q'[j].cmd
    BY Zenon DEF QueueOrder
  <2>1. i + d \in 1..Len(q) /\ q'[i] = q[i + d] /\ q[i + d].cmd > 0 /\ q[i + d].cmd \in Nat  BY DEF Numbers
  <2>2. /\ q[i + d].cmd <= posted /\ lastSent < q[i + d].cmd
        /\ Busy => out < q[i + d].cmd
        /\ \A j \in 1..Len(pending) : pending[j] < q[i + d].cmd
        /\ \A j \in 1..Len(q) : i + d < j /\ q[j].cmd > 0 => q[i + d].cmd < q[j].cmd
    BY <2>1, Zenon DEF QueueOrder
  <2>3. q'[i].cmd <= posted' /\ lastSent' < q'[i].cmd  BY <2>1, <2>2
  <2>4. ASSUME Busy' PROVE out' < q'[i].cmd
    <3>1. out' <= 0 \/ (Busy /\ out' = out)  BY <2>4
    <3>2. q'[i].cmd = q[i + d].cmd  BY <2>1
    <3>3. out' \in Int  BY DEF Numbers
    <3> QED  BY <2>1, <2>2, <3>1, <3>2, <3>3
  <2>5. ASSUME NEW j \in 1..Len(pending') PROVE pending'[j] < q'[i].cmd
    <3>1. CASE pending'[j] = 0  BY <2>1, <3>1
    <3>2. CASE j + e \in 1..Len(pending) /\ pending'[j] = pending[j + e]  BY <2>1, <2>2, <3>2
    <3> QED  BY <3>1, <3>2
  <2>6. ASSUME NEW j \in 1..Len(q'), i < j, q'[j].cmd > 0 PROVE q'[i].cmd < q'[j].cmd
    <3>1. j + d \in 1..Len(q) /\ q'[j] = q[j + d] /\ q[j + d].cmd > 0  BY <2>6, SMTT(30) DEF Numbers
    <3>2. i + d < j + d  BY <2>6 DEF Numbers
    <3> QED  BY <2>1, <2>2, <3>1, <3>2
  <2> QED  BY <2>3, <2>4, <2>5, <2>6
<1>3. PendingOrder'
  <2> SUFFICES ASSUME NEW i \in 1..Len(pending'), pending'[i] > 0
               PROVE  /\ pending'[i] <= posted' /\ lastSent' < pending'[i]
                      /\ Busy' => out' < pending'[i]
                      /\ \A j \in 1..Len(pending') :
                           i < j /\ pending'[j] > 0 => pending'[i] < pending'[j]
    BY Zenon DEF PendingOrder
  <2>0. pending'[i] # 0  OBVIOUS
  <2>1. i + e \in 1..Len(pending) /\ pending'[i] = pending[i + e]  BY <2>0
  <2>2. /\ pending[i + e] <= posted /\ lastSent < pending[i + e]
        /\ Busy => out < pending[i + e]
        /\ \A j \in 1..Len(pending) : i + e < j /\ pending[j] > 0 => pending[i + e] < pending[j]
    BY <2>1, Zenon DEF PendingOrder
  <2>3. pending'[i] <= posted' /\ lastSent' < pending'[i]  BY <2>1, <2>2
  <2>4. Busy' => out' < pending'[i]  BY <2>1, <2>2 DEF Numbers
  <2>6. ASSUME NEW j \in 1..Len(pending'), i < j, pending'[j] > 0 PROVE pending'[i] < pending'[j]
    <3>1. j + e \in 1..Len(pending) /\ pending'[j] = pending[j + e]  BY <2>6 DEF Numbers
    <3>2. i + e < j + e  BY <2>6 DEF Numbers
    <3> QED  BY <2>1, <2>2, <2>6, <3>1, <3>2
  <2> QED  BY <2>3, <2>4, <2>6
<1> QED  BY <1>1, <1>2, <1>3

\* What is in a queue after my_send_msg, ...
LEMMA PutElements ==
  ASSUME NEW s \in Seq(Msgs), NEW m
  PROVE  \A i \in 1..Len(Put(s, m)) :
           (i \in 1..Len(s) /\ Put(s, m)[i] = s[i]) \/ (i = Len(Put(s, m)) /\ Put(s, m)[i] = m)
BY DEF Put

\* ... and after lte_send_command.
LEMMA CommandElements ==
  ASSUME NEW s \in Seq(Msgs), NEW n \in Nat, Len(s) <= QueueLen
  PROVE  \A i \in 1..Len(lte_send_command(s, n)) :
           \/ i \in 1..Len(s) /\ lte_send_command(s, n)[i] = s[i]
           \/ lte_send_command(s, n)[i].cmd = 0
           \/ i = Len(lte_send_command(s, n)) /\ lte_send_command(s, n)[i].cmd = n
<1>1. PICK t : t = IF power THEN s ELSE Put(s, Msg("PWRON"))  OBVIOUS
<1>2. Msg("PWRON") \in Msgs /\ Msg("PWRON").cmd = 0 /\ Cmd(n).cmd = n  BY MsgType DEF Msg, Cmd, MsgIds
<1>3. t \in Seq(Msgs)  BY <1>1, <1>2, PutType
<1>4. \A i \in 1..Len(t) : (i \in 1..Len(s) /\ t[i] = s[i]) \/ t[i].cmd = 0
  <2>1. CASE t = s  BY <2>1
  <2>2. CASE t = Put(s, Msg("PWRON"))  BY <2>2, <1>2, PutElements
  <2> QED  BY <1>1, <2>1, <2>2
<1>5. lte_send_command(s, n) = Put(t, Cmd(n))  BY <1>1 DEF lte_send_command
<1>6. \A i \in 1..Len(Put(t, Cmd(n))) :
        \/ i \in 1..Len(t) /\ Put(t, Cmd(n))[i] = t[i]
        \/ i = Len(Put(t, Cmd(n))) /\ Put(t, Cmd(n))[i] = Cmd(n)
  BY <1>3, PutElements
<1> QED  BY <1>2, <1>4, <1>5, <1>6

\* my_lte_enqueue_msg keeps all or all but the first, and appends.
LEMMA EnqueueElements ==
  ASSUME QueuesOK, NEW n \in Nat, my_lte_enqueue_msg(n)
  PROVE  \E e \in {0, 1} : \A i \in 1..Len(pending') :
           \/ i + e \in 1..Len(pending) /\ pending'[i] = pending[i + e]
           \/ i = Len(pending') /\ pending'[i] = n
<1>1. pending \in Seq(Nat) /\ Len(pending) \in Nat  BY DEF QueuesOK
<1>2. PendLen \in Nat \ {0}  BY SizesAssumption
<1>3. CASE Len(pending) >= PendLen
  <2>1. pending # <<>>  BY <1>1, <1>2, <1>3
  <2>2. PICK t : t = Tail(pending)  OBVIOUS
  <2>3. t \in Seq(Nat) /\ Len(t) = Len(pending) - 1 /\ \A i \in 1..Len(t) : t[i] = pending[i + 1]
    BY <1>1, <2>1, <2>2, TailType
  <2>4. pending' = Append(t, n) \/ pending' = t  BY <1>3, <2>2 DEF my_lte_enqueue_msg
  <2>5. Len(t) \in Nat /\ \A i \in 1..Len(t) : i + 1 \in 1..Len(pending)  BY <1>1, <2>3
  <2>6. CASE pending' = t  BY <2>3, <2>5, <2>6
  <2>7. CASE pending' = Append(t, n)
    <3>1. Len(pending') = Len(t) + 1 /\ pending'[Len(t) + 1] = n /\ \A i \in 1..Len(t) : pending'[i] = t[i]
      BY <2>3, <2>7
    <3>2. \A i \in 1..Len(pending') : i \in 1..Len(t) \/ i = Len(t) + 1  BY <2>5, <3>1
    <3>3. \A i \in 1..Len(pending') : \/ i + 1 \in 1..Len(pending) /\ pending'[i] = pending[i + 1]
                                      \/ i = Len(pending') /\ pending'[i] = n
      BY <2>3, <2>5, <3>1, <3>2
    <3> QED  BY <3>3
  <2> QED  BY <2>4, <2>6, <2>7
<1>4. CASE Len(pending) < PendLen
  <2>1. pending' = Append(pending, n) \/ pending' = pending  BY <1>1, <1>2, <1>4 DEF my_lte_enqueue_msg
  <2>2. \A i \in 1..Len(pending') : \/ i + 0 \in 1..Len(pending) /\ pending'[i] = pending[i + 0]
                                    \/ i = Len(pending') /\ pending'[i] = n
    BY <1>1, <2>1, SMTT(30)
  <2> QED  BY <2>2
<1> QED  BY <1>1, <1>2, <1>3, <1>4

\* The command at the head of the message queue is handled: it goes to the UART, or
\* behind those that wait.
LEMMA OrderOnBleData ==
  ASSUME TypeOK, Numbers, Numbers', QueueOrder, PendingOrder, SentOrder, Drained, OnBleData
  PROVE  QueueOrder' /\ PendingOrder' /\ SentOrder'
<1>1. q # <<>> /\ q' = Tail(q) /\ pc = "recv" /\ UNCHANGED <<posted, lastSent>>
      /\ my_lte_send_msg(Head(q).cmd, "recv")
  BY DEF OnBleData, Receive
<1>2. PICK c : c = q[1].cmd  OBVIOUS
<1>3. q \in Seq(Msgs)  BY DEF TypeOK
<1>4. Head(q) = q[1] /\ Len(q') = Len(q) - 1 /\ 1 \in 1..Len(q)
      /\ \A i \in 1..Len(q') : q'[i] = q[i + 1] /\ i + 1 \in 1..Len(q) /\ i + 1 > 1
  BY <1>1, <1>3, TailType
<1>5. c \in Nat  BY <1>2, <1>4 DEF Numbers
<1>6. c > 0 => /\ c <= posted /\ lastSent < c
               /\ \A j \in 1..Len(pending) : pending[j] < c
               /\ \A j \in 1..Len(q') : q'[j].cmd > 0 => c < q'[j].cmd
  BY <1>2, <1>4 DEF QueueOrder
<1>7. \A i \in 1..Len(q') : q'[i].cmd > 0 =>
        /\ q'[i].cmd <= posted' /\ lastSent' < q'[i].cmd /\ c < q'[i].cmd
        /\ \A j \in 1..Len(pending) : pending[j] < q'[i].cmd
        /\ \A j \in 1..Len(q') : i < j /\ q'[j].cmd > 0 => q'[i].cmd < q'[j].cmd
  <2> SUFFICES ASSUME NEW i \in 1..Len(q'), q'[i].cmd > 0
               PROVE  /\ q'[i].cmd <= posted' /\ lastSent' < q'[i].cmd /\ c < q'[i].cmd
                      /\ \A j \in 1..Len(pending) : pending[j] < q'[i].cmd
                      /\ \A j \in 1..Len(q') : i < j /\ q'[j].cmd > 0 => q'[i].cmd < q'[j].cmd
    OBVIOUS
  <2>1. q'[i] = q[i + 1] /\ i + 1 \in 1..Len(q)  BY <1>4
  <2>2. /\ q[i + 1].cmd <= posted /\ lastSent < q[i + 1].cmd
        /\ \A j \in 1..Len(pending) : pending[j] < q[i + 1].cmd
        /\ \A j \in 1..Len(q) : i + 1 < j /\ q[j].cmd > 0 => q[i + 1].cmd < q[j].cmd
    BY <2>1, Zenon DEF QueueOrder
  <2>3. c < q'[i].cmd  BY <1>5, <1>6
  <2>4. ASSUME NEW j \in 1..Len(q'), i < j, q'[j].cmd > 0 PROVE q'[i].cmd < q'[j].cmd
    <3>1. q'[j] = q[j + 1] /\ j + 1 \in 1..Len(q) /\ i + 1 < j + 1  BY <1>4, <2>4
    <3> QED  BY <2>1, <2>2, <2>4, <3>1
  <2> QED  BY <1>1, <2>1, <2>2, <2>3, <2>4
<1>8. CASE ready /\ UartSend(c, "recv") /\ UNCHANGED pending
  <2>1. pending = <<>>  BY <1>1, <1>8 DEF Drained, Draining, Busy
  <2>2. out' = c  BY <1>8 DEF UartSend
  <2>3. QueueOrder'  BY <1>7, <1>8, <2>2 DEF QueueOrder
  <2>4. PendingOrder'  BY <1>8, <2>1 DEF PendingOrder
  <2>5. SentOrder'  BY <1>1, <1>6, <2>2 DEF SentOrder
  <2> QED  BY <2>3, <2>4, <2>5
<1>9. CASE my_lte_enqueue_msg(c) /\ pc' = "recv"
  <2>0. ~Busy'  BY <1>9 DEF Busy
  <2>1. PICK e \in {0, 1} : \A i \in 1..Len(pending') :
          \/ i + e \in 1..Len(pending) /\ pending'[i] = pending[i + e]
          \/ i = Len(pending') /\ pending'[i] = c
    BY <1>5, <1>9, EnqueueElements DEF TypeOK, QueuesOK
  <2>2. SentOrder'  BY <1>1, <2>0 DEF SentOrder
  <2>3. QueueOrder'
    <3>1. ASSUME NEW i \in 1..Len(q'), q'[i].cmd > 0, NEW j \in 1..Len(pending')
          PROVE  pending'[j] < q'[i].cmd
      BY <1>7, <2>1, <3>1
    <3> QED  BY <1>7, <2>0, <3>1 DEF QueueOrder
  <2>4. PendingOrder'
    <3> SUFFICES ASSUME NEW i \in 1..Len(pending'), pending'[i] > 0
                 PROVE  /\ pending'[i] <= posted' /\ lastSent' < pending'[i]
                        /\ \A j \in 1..Len(pending') :
                             i < j /\ pending'[j] > 0 => pending'[i] < pending'[j]
      BY <2>0, Zenon DEF PendingOrder
    <3>1. CASE i = Len(pending') /\ pending'[i] = c
      <4>1. \A j \in 1..Len(pending') : ~(i < j)  BY <3>1 DEF Numbers
      <4> QED  BY <1>1, <1>6, <3>1, <4>1
    <3>2. CASE i + e \in 1..Len(pending) /\ pending'[i] = pending[i + e]
      <4>1. /\ pending[i + e] <= posted /\ lastSent < pending[i + e]
            /\ \A j \in 1..Len(pending) : i + e < j /\ pending[j] > 0 => pending[i + e] < pending[j]
        BY <3>2, Zenon DEF PendingOrder
      <4>2. ASSUME NEW j \in 1..Len(pending'), i < j, pending'[j] > 0 PROVE pending'[i] < pending'[j]
        <5>1. CASE j + e \in 1..Len(pending) /\ pending'[j] = pending[j + e]
          <6>1. i + e < j + e  BY <4>2 DEF Numbers
          <6> QED  BY <3>2, <4>1, <4>2, <5>1, <6>1
        <5>2. CASE pending'[j] = c  BY <1>6, <3>2, <4>2, <5>2
        <5> QED  BY <2>1, <5>1, <5>2
      <4> QED  BY <1>1, <3>2, <4>1, <4>2
    <3> QED  BY <2>1, <3>1, <3>2
  <2> QED  BY <2>2, <2>3, <2>4
<1> QED  BY <1>1, <1>2, <1>4, <1>8, <1>9 DEF my_lte_send_msg

\* The first of the commands that wait goes to the UART.
LEMMA OrderDrain ==
  ASSUME TypeOK, Numbers, Numbers', QueueOrder, PendingOrder, SentOrder, Drain
  PROVE  QueueOrder' /\ PendingOrder' /\ SentOrder'
<1>1. UNCHANGED <<q, posted, lastSent>> /\ pc = "drain"  BY DEF Drain, env
<1>2. CASE pc' = "rev" /\ UNCHANGED pending
  <2>1. ~Busy'  BY <1>2 DEF Busy
  <2> QED  BY <1>1, <1>2, <2>1 DEF QueueOrder, PendingOrder, SentOrder
<1>3. CASE pending # <<>> /\ pending' = Tail(pending) /\ UartSend(Head(pending), "drain")
  <2>1. pending \in Seq(Nat)  BY DEF TypeOK
  <2>2. out' = pending[1] /\ 1 \in 1..Len(pending) /\ Len(pending') = Len(pending) - 1
        /\ \A i \in 1..Len(pending') :
             pending'[i] = pending[i + 1] /\ i + 1 \in 1..Len(pending) /\ i + 1 > 1
    BY <1>3, <2>1, TailType DEF UartSend
  <2>3. pending[1] \in Nat  BY <2>2 DEF Numbers
  <2>4. SentOrder'  BY <1>1, <2>2, <2>3 DEF SentOrder, PendingOrder
  <2>5. QueueOrder'
    <3> SUFFICES ASSUME NEW i \in 1..Len(q), q[i].cmd > 0
                 PROVE  /\ q[i].cmd <= posted /\ lastSent < q[i].cmd /\ out' < q[i].cmd
                        /\ \A j \in 1..Len(pending') : pending'[j] < q[i].cmd
                        /\ \A j \in 1..Len(q) : i < j /\ q[j].cmd > 0 => q[i].cmd < q[j].cmd
      BY <1>1, Zenon DEF QueueOrder
    <3>1. /\ q[i].cmd <= posted /\ lastSent < q[i].cmd
          /\ \A j \in 1..Len(pending) : pending[j] < q[i].cmd
          /\ \A j \in 1..Len(q) : i < j /\ q[j].cmd > 0 => q[i].cmd < q[j].cmd
      BY Zenon DEF QueueOrder
    <3> QED  BY <2>2, <3>1
  <2>6. PendingOrder'
    <3> SUFFICES ASSUME NEW i \in 1..Len(pending'), pending'[i] > 0
                 PROVE  /\ pending'[i] <= posted' /\ lastSent' < pending'[i] /\ out' < pending'[i]
                        /\ \A j \in 1..Len(pending') :
                             i < j /\ pending'[j] > 0 => pending'[i] < pending'[j]
      BY Zenon DEF PendingOrder
    <3>1. pending'[i] = pending[i + 1] /\ i + 1 \in 1..Len(pending) /\ i + 1 > 1  BY <2>2
    <3>2. /\ pending[i + 1] <= posted /\ lastSent < pending[i + 1]
          /\ \A j \in 1..Len(pending) : i + 1 < j /\ pending[j] > 0 => pending[i + 1] < pending[j]
      BY <3>1, Zenon DEF PendingOrder
    <3>3. pending[1] > 0 => pending[1] < pending[i + 1]  BY <2>2, <3>1 DEF PendingOrder
    <3>4. out' < pending'[i]  BY <2>2, <2>3, <3>1, <3>3
    <3>5. ASSUME NEW j \in 1..Len(pending'), i < j, pending'[j] > 0 PROVE pending'[i] < pending'[j]
      <4>1. pending'[j] = pending[j + 1] /\ j + 1 \in 1..Len(pending) /\ i + 1 < j + 1  BY <2>2, <3>5
      <4> QED  BY <3>1, <3>2, <3>5, <4>1
    <3> QED  BY <1>1, <3>1, <3>2, <3>4, <3>5
  <2> QED  BY <2>4, <2>5, <2>6
<1> QED  BY <1>2, <1>3 DEF Drain

\* A command posted by another thread is the latest.
LEMMA OrderPost ==
  ASSUME TypeOK, Numbers, Numbers', QueueOrder, PendingOrder, SentOrder, Post
  PROVE  QueueOrder' /\ PendingOrder' /\ SentOrder'
<1>1. UNCHANGED <<pending, out, pc, lastSent>> /\ posted' = posted + 1  BY DEF Post, thread
<1>2. q \in Seq(Msgs) /\ Len(q) <= QueueLen  BY DEF TypeOK
<1>3. \A i \in 1..Len(q') : \/ i \in 1..Len(q) /\ q'[i] = q[i]
                            \/ q'[i].cmd = 0
                            \/ i = Len(q') /\ q'[i].cmd = posted + 1
  <2>1. CASE q' = lte_send_command(q, posted + 1)  BY <1>2, <2>1, CommandElements, SMTT(30) DEF Numbers
  <2>2. CASE q' = q  BY <2>2
  <2>3. CASE q' = Put(q, Msg("PWRON"))  BY <1>2, <2>3, PutElements DEF Msg
  <2> QED  BY <2>1, <2>2, <2>3 DEF Post
<1>4. SentOrder'  BY <1>1 DEF SentOrder, Busy, Numbers
<1>5. PendingOrder'  BY <1>1 DEF PendingOrder, Busy, Numbers
<1>6. QueueOrder'
  <2> SUFFICES ASSUME NEW i \in 1..Len(q'), q'[i].cmd > 0
               PROVE  /\ q'[i].cmd <= posted' /\ lastSent' < q'[i].cmd
                      /\ Busy' => out' < q'[i].cmd
                      /\ \A j \in 1..Len(pending') : pending'[j] < q'[i].cmd
                      /\ \A j \in 1..Len(q') : i < j /\ q'[j].cmd > 0 => q'[i].cmd < q'[j].cmd
    BY Zenon DEF QueueOrder
  <2>1. CASE i = Len(q') /\ q'[i].cmd = posted + 1
    <3>1. \A j \in 1..Len(q') : ~(i < j)  BY <2>1 DEF Numbers
    <3>2. lastSent < posted + 1 /\ (Busy => out < posted + 1)  BY DEF SentOrder, Numbers
    <3>3. ASSUME NEW j \in 1..Len(pending) PROVE pending[j] < posted + 1
      <4>1. pending[j] \in Nat /\ posted \in Nat  BY <3>3 DEF Numbers
      <4>2. pending[j] > 0 => pending[j] <= posted  BY <3>3 DEF PendingOrder
      <4> QED  BY <4>1, <4>2
    <3> QED  BY <1>1, <2>1, <3>1, <3>2, <3>3 DEF Busy, Numbers
  <2>2. CASE i \in 1..Len(q) /\ q'[i] = q[i]
    <3>1. /\ q[i].cmd <= posted /\ lastSent < q[i].cmd
          /\ Busy => out < q[i].cmd
          /\ \A j \in 1..Len(pending) : pending[j] < q[i].cmd
          /\ \A j \in 1..Len(q) : i < j /\ q[j].cmd > 0 => q[i].cmd < q[j].cmd
      BY <2>2, Zenon DEF QueueOrder
    <3>2. q[i].cmd \in Nat /\ posted \in Nat  BY <2>2 DEF Numbers
    <3>3. ASSUME NEW j \in 1..Len(q'), i < j, q'[j].cmd > 0 PROVE q'[i].cmd < q'[j].cmd
      BY <1>3, <2>2, <3>1, <3>2, <3>3
    <3>4. q'[i].cmd <= posted'  BY <1>1, <2>2, <3>1, <3>2
    <3>5. Busy' => out' < q'[i].cmd  BY <1>1, <2>2, <3>1 DEF Busy
    <3> QED  BY <1>1, <2>2, <3>1, <3>3, <3>4, <3>5
  <2> QED  BY <1>3, <2>1, <2>2
<1> QED  BY <1>4, <1>5, <1>6

\* The other steps satisfy the conditions of OrderKept.
LEMMA OrderStep ==
  ASSUME TypeOK, TypeOK', QueueOrder, PendingOrder, SentOrder, Drained, [Next]_vars
  PROVE  QueueOrder' /\ PendingOrder' /\ SentOrder'
<1>0. Numbers /\ Numbers'
  <2>1. Numbers  BY TypeNumbers
  <2>2. TypeOK' => Numbers'  BY TypeNumbers, PTL
  <2> QED  BY <2>1, <2>2
<1> DEFINE QShort(d) == \A i \in 1..Len(q') : q'[i].cmd = 0 \/ (i + d \in 1..Len(q) /\ q'[i] = q[i + d])
           PShort(e) == \A i \in 1..Len(pending') :
                          pending'[i] = 0 \/ (i + e \in 1..Len(pending) /\ pending'[i] = pending[i + e])
           Sent == /\ posted' = posted
                   /\ \/ lastSent' = lastSent /\ (Busy' => out' <= 0 \/ (Busy /\ out' = out))
                      \/ lastSent' = out /\ Busy /\ out > 0 /\ ~Busy'
<1>a. ASSUME NEW d \in {0, 1}, NEW e \in {0, 1}, QShort(d), PShort(e), Sent
      PROVE  QueueOrder' /\ PendingOrder' /\ SentOrder'
  BY <1>0, <1>a, OrderKept
<1>b. q \in Seq(Msgs) /\ Len(q) <= QueueLen /\ ret \in Returns /\ QueuesOK
  BY DEF TypeOK, QueuesOK
<1>c. (UNCHANGED q => QShort(0)) /\ (UNCHANGED pending => PShort(0))
      /\ (q' = <<>> => QShort(0)) /\ (pending' = <<>> => PShort(0))
  BY <1>0 DEF Numbers
<1>d. ASSUME NEW i \in MsgIds, q' = Put(q, Msg(i)) PROVE QShort(0)
  <2>1. Msg(i).cmd = 0  BY DEF Msg
  <2> QED  BY <1>b, <1>d, <2>1, <1>0, PutElements DEF Numbers
<1>e. ASSUME NEW b, b \in Returns, my_lte_send_msg(0, b)
      PROVE  (\E e \in {0, 1} : PShort(e)) /\ (Busy' => out' <= 0)
  <2>1. CASE UNCHANGED pending /\ UartSend(0, b)  BY <1>c, <2>1 DEF UartSend
  <2>2. CASE my_lte_enqueue_msg(0) /\ pc' = b
    <3>1. ~Busy'  BY <1>e, <2>2 DEF Busy, Returns
    <3> QED  BY <1>b, <2>2, <3>1, EnqueueElements
  <2> QED  BY <1>e, <2>1, <2>2 DEF my_lte_send_msg
<1> HIDE DEF QShort, PShort
<1>1. CASE Sending
  <2>1. UNCHANGED <<q, pending>> /\ posted' = posted /\ Busy
    BY <1>1 DEF Sending, SendBegin, SendRefused, SendTake, SendTakeTimeout, SendWake, SendWoken,
                SendWakeTimeout, SendData, SendFails, env, Busy
  <2>2. out' = out
    BY <1>1 DEF Sending, SendBegin, SendRefused, SendTake, SendTakeTimeout, SendWake, SendWoken,
                SendWakeTimeout, SendData, SendFails, Return
  <2>3. lastSent' = lastSent \/ (lastSent' = out /\ out > 0 /\ ~Busy')
    BY <1>1, <1>b DEF Sending, SendBegin, SendRefused, SendTake, SendTakeTimeout, SendWake, SendWoken,
                SendWakeTimeout, SendData, SendFails, Return, Busy, Returns
  <2> QED  BY <1>a, <1>c, <2>1, <2>2, <2>3
<1>2. CASE OnTxDone \/ OnUartIdle \/ OnPwrOn \/ OnWakeup \/ OnPwrOff \/ OnRev \/ OnPulse
  <2>1. q # <<>> /\ UNCHANGED <<pending, posted, lastSent>>
    BY <1>2 DEF OnTxDone, OnUartIdle, OnPwrOn, OnWakeup, OnPwrOff, OnRev, OnPulse, Receive, env
  <2>2. ~Busy'
    BY <1>2 DEF OnTxDone, OnUartIdle, OnPwrOn, OnWakeup, OnPwrOff, OnRev, OnPulse, Receive, thread, Busy
  <2>3. q' = Tail(q) \/ q' = lte_send_command(Tail(q), 0)
    BY <1>2 DEF OnTxDone, OnUartIdle, OnPwrOn, OnWakeup, OnPwrOff, OnRev, OnPulse
  <2>4. PICK t : t = Tail(q)  OBVIOUS
  <2>5. t \in Seq(Msgs) /\ Len(t) <= QueueLen
        /\ \A i \in 1..Len(t) : i + 1 \in 1..Len(q) /\ t[i] = q[i + 1]
    BY <1>b, <2>1, <2>4, TailType, TakeType
  <2>6. QShort(1)
    <3>1. CASE q' = t  BY <2>5, <3>1 DEF QShort
    <3>2. CASE q' = lte_send_command(t, 0)
      <4>1. \A i \in 1..Len(q') : (i \in 1..Len(t) /\ q'[i] = t[i]) \/ q'[i].cmd = 0
        BY <2>5, <3>2, CommandElements
      <4> QED  BY <2>5, <4>1 DEF QShort
    <3> QED  BY <2>3, <2>4, <3>1, <3>2
  <2> QED  BY <1>a, <1>c, <2>1, <2>2, <2>6
<1>3. CASE OnBleData  BY <1>0, <1>3, OrderOnBleData
<1>4. CASE PoweringOff \/ RevEnd
  <2>1. UNCHANGED <<q, posted, lastSent>> /\ (UNCHANGED pending \/ pending' = <<>>) /\ ~Busy'
    BY <1>4 DEF PoweringOff, PwrOffWait, PwrOffCut, PwrOffSlept, RevEnd, env, Busy
  <2> QED  BY <1>a, <1>c, <2>1
<1>5. CASE LinePowerOn \/ LineState \/ LinePowerOff
  <2>1. UNCHANGED <<pending, posted, lastSent>> /\ out' = 0
    BY <1>5 DEF LinePowerOn, LineState, LinePowerOff, UartSend, env
  <2>2. UNCHANGED q \/ q' = Put(q, Msg("PWROFF"))
    BY <1>5 DEF LinePowerOn, LineState, LinePowerOff
  <2>3. QShort(0)  BY <1>c, <1>d, <2>2 DEF MsgIds
  <2> QED  BY <1>a, <1>c, <2>1, <2>3
<1>6. CASE Report
  <2>1. q' = Status(q, Reports) /\ UNCHANGED <<pending, posted, lastSent>> /\ ~Busy'
    BY <1>6 DEF Report, env, Busy
  <2>2. \A i \in 1..Len(q') : IF i <= Len(q) THEN q'[i] = q[i] ELSE q'[i].cmd = 0
    BY <1>b, <2>1, StatusType, SizesAssumption
  <2>3. QShort(0)  BY <1>0, <2>2, SMTT(30) DEF QShort, Numbers
  <2> QED  BY <1>a, <1>c, <2>1, <2>3
<1>7. CASE Drain  BY <1>0, <1>7, OrderDrain
<1>8. CASE my_lte_handle_fota \/ LineMcuOta \/ OtaReply
  <2>1. UNCHANGED <<q, posted, lastSent>> /\ \E b \in Returns : my_lte_send_msg(0, b)
    BY <1>8 DEF my_lte_handle_fota, LineMcuOta, OtaReply, Returns
  <2> QED  BY <1>a, <1>c, <1>e, <2>1
<1>9. CASE OtaReceive \/ OtaEnd
  <2>1. q' = <<>> /\ pending' = <<>> /\ UNCHANGED <<posted, lastSent>> /\ (Busy' => out' = YModem)
    BY <1>9 DEF OtaReceive, OtaEnd, my_lte_purge_dfu_queues, UartSend, env, Busy
  <2> QED  BY <1>a, <1>c, <2>1 DEF YModem
<1>10. CASE Interrupts \/ ModuleUp \/ ModuleLine \/ AppOta \/ UNCHANGED vars
  <2>1. UNCHANGED <<pending, posted, lastSent, pc, out>>
    BY <1>10 DEF Interrupts, TxDone, lte_wake_pin_isr, Timers, WindowEnds, IdleDue,
                 lte_uart_idle_timer_handler, lte_pulse_timer_handler, ModuleUp, ModuleLine,
                 AppOta, thread, env, vars
  <2>2. UNCHANGED q \/ \E i \in MsgIds : q' = Put(q, Msg(i))
    BY <1>10 DEF Interrupts, TxDone, lte_wake_pin_isr, Timers, WindowEnds, IdleDue,
                 lte_uart_idle_timer_handler, lte_pulse_timer_handler, ModuleUp, ModuleLine, RxReady,
                 AppOta, vars, MsgIds
  <2>3. QShort(0)  BY <1>c, <1>d, <2>2
  <2> QED  BY <1>a, <1>c, <2>1, <2>3 DEF Busy
<1>11. CASE Post  BY <1>0, <1>11, OrderPost
<1> QED
  BY <1>1, <1>2, <1>3, <1>4, <1>5, <1>6, <1>7, <1>8, <1>9, <1>10, <1>11
  DEF Next, Thread, Handling, Reading, Others

\* Commands stop waiting as soon as the module is ready.
LEMMA DrainedStep ==
  ASSUME TypeOK, Drained, [Next]_vars
  PROVE  Drained'
<1>0. ret \in Returns  BY DEF TypeOK
<1>1. CASE Sending
  <2>1. UNCHANGED <<ready, pending, ret>> /\ Busy
    BY <1>1 DEF Sending, SendBegin, SendRefused, SendTake, SendTakeTimeout, SendWake, SendWoken,
                SendWakeTimeout, SendData, SendFails, Return, link, Busy
  <2>2. Busy' \/ pc' = ret
    BY <1>1 DEF Sending, SendBegin, SendRefused, SendTake, SendTakeTimeout, SendWake, SendWoken,
                SendWakeTimeout, SendData, SendFails, Return, Busy
  <2>3. Draining => Draining'  BY <1>0, <2>1, <2>2 DEF Draining, Busy, Returns
  <2> QED  BY <2>1, <2>3 DEF Drained
<1>2. CASE UNCHANGED <<ready, pending, pc, ret>>
  BY <1>2 DEF Drained, Draining, Busy
<1>3. CASE pending' = <<>> \/ ~ready'
  BY <1>3 DEF Drained
<1>4. CASE OnPwrOff \/ OnRev \/ PwrOffWait \/ PwrOffSlept \/ RevEnd \/ LinePowerOff \/ LineState
  <2>1. UNCHANGED <<ready, pending>> /\ ~Draining
    BY <1>4 DEF OnPwrOff, OnRev, PwrOffWait, PwrOffSlept, RevEnd, LinePowerOff, LineState, Receive, Line,
                link, Draining, Busy
  <2> QED  BY <2>1 DEF Drained
<1>5. CASE OnBleData \/ my_lte_handle_fota \/ LineMcuOta \/ OtaReply
  <2>1. UNCHANGED ready /\ ~Draining /\ (ready => UNCHANGED pending)
    BY <1>5 DEF OnBleData, my_lte_handle_fota, LineMcuOta, OtaReply, Receive, Line, my_lte_send_msg,
                link, Draining, Busy
  <2> QED  BY <2>1 DEF Drained
<1>6. CASE LinePowerOn \/ Report
  BY <1>6 DEF LinePowerOn, Report, UartSend, Drained, Draining, Busy
<1>7. CASE Drain
  BY <1>7 DEF Drain, UartSend, Drained, Draining, Busy
<1>8. CASE PwrOffCut \/ OtaReceive \/ OtaEnd
  BY <1>3, <1>8 DEF PwrOffCut, OtaReceive, OtaEnd, my_lte_purge_dfu_queues
<1>9. CASE OnTxDone \/ OnUartIdle \/ OnPwrOn \/ OnPulse \/ OnWakeup \/ Interrupts \/ Others \/ UNCHANGED vars
  BY <1>2, <1>9 DEF OnTxDone, OnUartIdle, OnPwrOn, OnPulse, OnWakeup, Interrupts, TxDone,
               lte_wake_pin_isr, Timers, WindowEnds, IdleDue, lte_uart_idle_timer_handler,
               lte_pulse_timer_handler, Others, ModuleUp, ModuleLine, Post, AppOta, link, thread, vars
<1> QED
  BY <1>1, <1>4, <1>5, <1>6, <1>7, <1>8, <1>9 DEF Next, Thread, Handling, PoweringOff, Reading

OrderInv == QueueOrder /\ PendingOrder /\ SentOrder /\ Drained

\* A step that puts a command on the wire is SendData.
LEMMA OnlySendDataTransmits ==
  ASSUME TypeOK, [Next]_vars, air' # air, air' > 0
  PROVE  Busy /\ air' = out
<1>1. UNCHANGED air \/ air' = None \/ SendWake \/ SendData
  BY DEF Next, Thread, Sending, Handling, PoweringOff, Reading, Interrupts, Timers, Others, SendBegin,
         SendRefused, SendTake, SendTakeTimeout, SendWoken, SendWakeTimeout, SendFails, OnTxDone,
         OnUartIdle, OnPwrOn, OnBleData, OnPulse, OnWakeup, OnPwrOff, OnRev, PwrOffWait, PwrOffCut,
         PwrOffSlept, RevEnd, LinePowerOn, Report, Drain, LinePowerOff, LineState, my_lte_handle_fota,
         LineMcuOta, OtaReceive, OtaEnd, OtaReply, TxDone, lte_wake_pin_isr, WindowEnds, IdleDue,
         lte_uart_idle_timer_handler, lte_pulse_timer_handler, ModuleUp, ModuleLine, Post, AppOta,
         link, vars
<1>2. ~SendWake  BY DEF SendWake, WakeBytes
<1>3. air' # None  BY DEF None
<1> QED  BY <1>1, <1>2, <1>3 DEF SendData, Busy

\* Whatever the lengths of the queues, commands leave in the order in which they were
\* posted and at most once: those kept for a starting module (my_lte_enqueue_msg) are all
\* sent by my_lte_process_queued_msgs before my_lte_send_msg sends one directly.
THEOREM InOrder == Spec => TransmitsInOrder
<1>1. Init => OrderInv
  <2> SUFFICES ASSUME Init PROVE OrderInv
    OBVIOUS
  <2>1. Len(q) = 1 /\ q[1].cmd = 1 /\ Len(pending) = 0 /\ posted = 1 /\ lastSent = 0 /\ pc = "recv"
        /\ pending = <<>>
    BY DEF Init, Cmd
  <2> QED  BY <2>1 DEF OrderInv, QueueOrder, PendingOrder, SentOrder, Drained, Busy
<1>2. TypeOK /\ TypeOK' /\ OrderInv /\ [Next]_vars => OrderInv'
  BY OrderStep, DrainedStep DEF OrderInv
<1>3. TypeOK /\ OrderInv /\ [Next]_vars => [air' # air /\ air' > 0 => air' > lastSent]_vars
  <2> SUFFICES ASSUME TypeOK, OrderInv, [Next]_vars, air' # air, air' > 0 PROVE air' > lastSent
    OBVIOUS
  <2>1. Busy /\ air' = out  BY OnlySendDataTransmits
  <2> QED  BY <2>1, TypeNumbers DEF OrderInv, SentOrder, Numbers
<1> QED  BY <1>1, <1>2, <1>3, TypeCorrect, PTL DEF Spec, TransmitsInOrder

=============================================================================
