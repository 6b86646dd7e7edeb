------------------------------ MODULE LteLink ------------------------------
(***************************************************************************)
(* The serial link to the 4G module (my_lte.c): the LTE thread with its    *)
(* message queue, the UART driver's completions, the transmit semaphore,   *)
(* the queue of commands that wait for the module, the idle timer that     *)
(* suspends the UART, and the power switch.  The thread blocks in the      *)
(* middle of its handlers, so that every wait is a step of its own; the    *)
(* interrupts (completion, reception, wake-up pin, timer) and the other    *)
(* threads run between any two steps.                                      *)
(*                                                                         *)
(* A command of another thread is its number in posting order; 0 is        *)
(* anything the LTE thread sends of its own accord.  A received line is    *)
(* its kind.  The 4G module and the UART driver are external.              *)
(***************************************************************************)
EXTENDS Integers, Sequences

CONSTANTS QueueLen,    \* entries of my_lte_msgq
          PendLen,     \* LTE_MSG_QUEUE_SIZE
          RingLen,     \* lines that fit in the receive ring
          Reports,     \* status commands posted when the module comes up
          MaxCmd,      \* bound: commands of other threads
          MaxLines,    \* bound: lines of the module
          MaxUpdates,  \* bound: updates by phone
          MaxWakes,    \* bound: pulses on the wake-up pin
          MaxFaults    \* bound: failing driver, power and memory calls

ASSUME SizesAssumption ==
  /\ QueueLen \in Nat \ {0} /\ PendLen \in Nat \ {0} /\ RingLen \in Nat \ {0}
  /\ Reports \in Nat /\ MaxCmd \in Nat \ {0}
  /\ MaxLines \in Nat /\ MaxUpdates \in Nat /\ MaxWakes \in Nat /\ MaxFaults \in Nat

VARIABLES
  q,              \* my_lte_msgq
  power,          \* s_lte_power_state
  ready,          \* g_bLteReady
  active,         \* s_lte_uart_ctx.active: the receiver is on
  tx_busy,        \* s_lte_uart_ctx.tx_busy
  wakeup_pending, \* s_lte_uart_ctx.wakeup_pending
  window,         \* the 2.5 s in which no wake-up bytes are needed are not over
  idle,           \* the 3 s idle timer: stopped, running, or about to expire
  sem,            \* s_TxDoneSem
  air,            \* what the UART is transmitting
  pending,        \* s_lte_msg_queue
  ring,           \* lines in s_lte_rb
  fota,           \* g_lte_ota_in_progress
  ota,            \* my_ota_flash_is_busy: who updates the firmware
  pc, out, ret,   \* the LTE thread: place, what it is sending, where it returns to
  posted,         \* commands posted by other threads
  lines, updates, wakes, faults,  \* counters of the bounds
  lastSent,       \* history: the last command handed to the UART
  forced          \* history: the semaphore was given although a transfer was under way

link == <<power, ready, active, tx_busy, wakeup_pending, window, idle, sem, air>>
thread == <<pc, out, ret>>
env == <<posted, lines, updates, wakes, faults>>
vars == <<q, link, pending, ring, fota, ota, thread, env, lastSent, forced>>

None == -1
WakeBytes == -2
YModem == -3

MsgIds == {"TX_DONE", "UART_IDLE", "PWRON", "PWROFF", "REV", "BLE_DATA", "PULSE", "WAKEUP"}
Lines == {"PWRON", "PWROFF", "STATE", "FOTA_ENTER", "FOTA_EXIT", "MCUOTA"}
Msgs == [id : MsgIds, cmd : Nat]
Msg(i) == [id |-> i, cmd |-> 0]
Cmd(n) == [id |-> "BLE_DATA", cmd |-> n]

\* Mutant: the capacity is not respected
PutAnyway(queue, m) == Append(queue, m)

\* my_send_msg, my_send_msg_data: a message for a full queue is dropped
Put(queue, m) == IF Len(queue) < QueueLen THEN Append(queue, m) ELSE queue

\* lte_send_command: the command is preceded by PWRON if the power is off now
lte_send_command(queue, n) ==
  Put(IF power THEN queue ELSE Put(queue, Msg("PWRON")), Cmd(n))

\* n status commands of the LTE thread in a row, with the power on
Status(queue, n) ==
  LET room == QueueLen - Len(queue)
  IN  queue \o [i \in 1..(IF n < room THEN n ELSE room) |-> Cmd(0)]

Fault == faults < MaxFaults /\ faults' = faults + 1

Init ==
  /\ q = <<Cmd(1)>> /\ posted = 1      \* my_lte_task begins with the command TIME
  /\ power = TRUE /\ ready = FALSE /\ active = FALSE
  /\ tx_busy = FALSE /\ wakeup_pending = FALSE /\ window = FALSE
  /\ idle = "off" /\ sem = 1 /\ air = None
  /\ pending = <<>> /\ ring = <<>> /\ fota = FALSE /\ ota = "no"
  /\ pc = "recv" /\ out = 0 /\ ret = "recv"
  /\ lines = 0 /\ updates = 0 /\ wakes = 0 /\ faults = 0
  /\ lastSent = 0 /\ forced = FALSE
-----------------------------------------------------------------------------
(* The pieces the handlers are made of *)

\* lte_uart_activity_kick, after a step that leaves active as it says
lte_uart_activity_kick == idle' = IF active' THEN "fresh" ELSE idle

\* lte_uart_ensure_active with result 0.  my_pm_device_resume also returns 0 when
\* the UART could not be resumed and its bus was released again.
EnsureActive ==
  /\ power
  /\ \/ active' = TRUE /\ UNCHANGED faults
     \/ ~active /\ UNCHANGED active /\ Fault

\* lte_uart_ensure_active with an error
EnsureFails ==
  /\ power => ~active /\ faults < MaxFaults
  /\ faults' = IF power THEN faults + 1 ELSE faults

\* my_pm_device_suspend; the callers ignore an error
Suspend ==
  \/ active' = FALSE /\ UNCHANGED faults
  \/ active /\ UNCHANGED active /\ Fault

lte_uart_can_suspend == ~fota /\ ota = "no" /\ pending = <<>> /\ ring = <<>> /\ ~tx_busy

\* my_lte_enqueue_msg: a full queue loses its oldest message, even if there is no
\* memory for the new one
my_lte_enqueue_msg(data) ==
  LET kept == IF Len(pending) >= PendLen THEN Tail(pending) ELSE pending
  IN  \/ pending' = Append(kept, data) /\ UNCHANGED faults
      \/ pending' = kept /\ Fault

\* my_lte_uart_send, my_lte_uart_send_ymodem: the thread goes on in step "send"
UartSend(data, back) == pc' = "send" /\ out' = data /\ ret' = back

\* my_lte_send_msg
my_lte_send_msg(data, back) ==
  \/ ready /\ UartSend(data, back) /\ UNCHANGED <<pending, faults>>
  \/ ~ready /\ my_lte_enqueue_msg(data) /\ pc' = back /\ UNCHANGED <<out, ret>>

Return == pc' = ret /\ UNCHANGED <<out, ret>>
-----------------------------------------------------------------------------
(* my_lte_uart_send and my_lte_uart_send_ymodem *)

\* Mutant: a send does not restart the idle timer
SendBeginNoKick ==
  /\ pc = "send" /\ (ready \/ out = YModem)
  /\ EnsureActive
  /\ pc' = "take"
  /\ UNCHANGED <<q, power, ready, tx_busy, wakeup_pending, window, idle, sem, air, pending, ring,
                 fota, ota, out, ret, posted, lines, updates, wakes, lastSent, forced>>

\* checks, resume, idle timer
SendBegin ==
  /\ pc = "send" /\ (ready \/ out = YModem)
  /\ EnsureActive /\ lte_uart_activity_kick
  /\ pc' = "take"
  /\ UNCHANGED <<q, power, ready, tx_busy, wakeup_pending, window, sem, air, pending, ring,
                 fota, ota, out, ret, posted, lines, updates, wakes, lastSent, forced>>

SendRefused ==
  /\ pc = "send"
  /\ \/ ~(ready \/ out = YModem) /\ UNCHANGED faults
     \/ EnsureFails
  /\ Return
  /\ UNCHANGED <<q, link, pending, ring, fota, ota, posted, lines, updates, wakes, lastSent, forced>>

\* k_sem_take for the previous transfer
SendTake ==
  /\ pc = "take" /\ sem = 1
  /\ sem' = 0 /\ tx_busy' = TRUE
  /\ pc' = IF out = YModem \/ window THEN "tx" ELSE "wake"
  /\ UNCHANGED <<q, power, ready, active, wakeup_pending, window, idle, air, pending, ring,
                 fota, ota, out, ret, env, lastSent, forced>>

\* Mutant: the semaphore is given on this path too
SendTakeTimeoutGives ==
  /\ pc = "take" /\ sem = 0 /\ sem' = 1
  /\ Return
  /\ UNCHANGED <<q, power, ready, active, tx_busy, wakeup_pending, window, idle, air, pending, ring,
                 fota, ota, env, lastSent, forced>>

SendTakeTimeout ==
  /\ pc = "take" /\ sem = 0
  /\ Return
  /\ UNCHANGED <<q, link, pending, ring, fota, ota, env, lastSent, forced>>

\* uart_tx of the wake-up bytes
SendWake ==
  /\ pc = "wake" /\ air = None
  /\ air' = WakeBytes /\ pc' = "wakewait"
  /\ UNCHANGED <<q, power, ready, active, tx_busy, wakeup_pending, window, idle, sem, pending, ring,
                 fota, ota, out, ret, env, lastSent, forced>>

\* the wait for their completion
SendWoken ==
  /\ pc = "wakewait" /\ sem = 1
  /\ sem' = 0 /\ pc' = "tx"
  /\ UNCHANGED <<q, power, ready, active, tx_busy, wakeup_pending, window, idle, air, pending, ring,
                 fota, ota, out, ret, env, lastSent, forced>>

SendWakeTimeout ==
  /\ pc = "wakewait" /\ sem = 0
  /\ tx_busy' = FALSE /\ sem' = 1 /\ forced' = (air # None)
  /\ Return
  /\ UNCHANGED <<q, power, ready, active, wakeup_pending, window, idle, air, pending, ring,
                 fota, ota, env, lastSent>>

\* memcpy and uart_tx of the data
SendData ==
  /\ pc = "tx" /\ air = None
  /\ window' = TRUE /\ air' = out
  /\ lastSent' = IF out > 0 THEN out ELSE lastSent
  /\ Return
  /\ UNCHANGED <<q, power, ready, active, tx_busy, wakeup_pending, idle, sem, pending, ring,
                 fota, ota, env, forced>>

\* either uart_tx fails, or refuses because the UART is still transmitting
SendFails ==
  /\ pc \in {"wake", "tx"}
  /\ \/ air # None /\ UNCHANGED faults
     \/ air = None /\ Fault
  /\ window' = (window \/ pc = "tx")
  /\ tx_busy' = FALSE /\ sem' = 1 /\ forced' = (air # None)
  /\ Return
  /\ UNCHANGED <<q, power, ready, active, wakeup_pending, idle, air, pending, ring,
                 fota, ota, posted, lines, updates, wakes, lastSent>>
-----------------------------------------------------------------------------
(* my_lte_task: one message *)

Receive(i) == pc = "recv" /\ q # <<>> /\ Head(q).id = i

OnTxDone ==
  /\ Receive("TX_DONE") /\ q' = Tail(q)
  /\ tx_busy' = FALSE
  /\ UNCHANGED <<power, ready, active, wakeup_pending, window, idle, sem, air, pending, ring,
                 fota, ota, thread, env, lastSent, forced>>

OnUartIdle ==
  /\ Receive("UART_IDLE") /\ q' = Tail(q)
  /\ \/ active /\ lte_uart_can_suspend /\ Suspend
     \/ ~(active /\ lte_uart_can_suspend) /\ UNCHANGED <<active, faults>>
  /\ UNCHANGED <<power, ready, tx_busy, wakeup_pending, window, idle, sem, air, pending, ring,
                 fota, ota, thread, posted, lines, updates, wakes, lastSent, forced>>

\* my_lte_pwr_on(true)
OnPwrOn ==
  /\ Receive("PWRON") /\ q' = Tail(q)
  /\ \/ power' = TRUE /\ UNCHANGED faults
     \/ ~power /\ UNCHANGED power /\ Fault
  /\ UNCHANGED <<ready, active, tx_busy, wakeup_pending, window, idle, sem, air, pending, ring,
                 fota, ota, thread, posted, lines, updates, wakes, lastSent, forced>>

OnBleData ==
  /\ Receive("BLE_DATA") /\ q' = Tail(q)
  /\ my_lte_send_msg(Head(q).cmd, "recv")
  /\ UNCHANGED <<link, ring, fota, ota, posted, lines, updates, wakes, lastSent, forced>>

\* send_lte_pulse
OnPulse ==
  /\ Receive("PULSE")
  /\ q' = IF ready THEN lte_send_command(Tail(q), 0) ELSE Tail(q)
  /\ UNCHANGED <<link, pending, ring, fota, ota, thread, env, lastSent, forced>>

OnWakeup ==
  /\ Receive("WAKEUP") /\ q' = Tail(q)
  /\ wakeup_pending' = FALSE
  /\ \/ EnsureActive /\ lte_uart_activity_kick /\ window' = TRUE
     \/ EnsureFails /\ UNCHANGED <<active, idle, window>>
  /\ UNCHANGED <<power, ready, tx_busy, sem, air, pending, ring,
                 fota, ota, thread, posted, lines, updates, wakes, lastSent, forced>>

\* the beginning of my_lte_pwroff_handle; a refused power-off sleeps as well
OnPwrOff ==
  /\ Receive("PWROFF") /\ q' = Tail(q)
  /\ \/ /\ fota \/ ota # "no"
        /\ pc' = "offsleep" /\ UNCHANGED <<idle, window>>
     \/ /\ ~fota /\ ota = "no"
        /\ idle' = "off" /\ window' = FALSE
        /\ pc' = IF tx_busy THEN "offwait" ELSE "cut"
  /\ UNCHANGED <<power, ready, active, tx_busy, wakeup_pending, sem, air, pending, ring,
                 fota, ota, out, ret, env, lastSent, forced>>

\* the wait for the transfer under way, with or without success
PwrOffWait ==
  /\ pc = "offwait"
  /\ sem' = 0 /\ pc' = "cut"
  /\ UNCHANGED <<q, power, ready, active, tx_busy, wakeup_pending, window, idle, air, pending, ring,
                 fota, ota, out, ret, env, lastSent, forced>>

\* the rest of my_lte_pwroff_handle
PwrOffCut ==
  /\ pc = "cut"
  /\ \/ active' = FALSE /\ power' = FALSE /\ UNCHANGED faults
     \/ active' = active /\ power' = FALSE /\ active /\ Fault
     \/ active' = FALSE /\ power' = power /\ power /\ Fault
  /\ tx_busy' = FALSE /\ wakeup_pending' = FALSE /\ sem' = 1 /\ forced' = (air # None)
  /\ ring' = <<>> /\ pending' = <<>> /\ ready' = FALSE
  /\ pc' = "offsleep"
  /\ UNCHANGED <<q, window, idle, air, fota, ota, out, ret, posted, lines, updates, wakes, lastSent>>

PwrOffSlept ==
  /\ pc = "offsleep" /\ pc' = "recv"
  /\ UNCHANGED <<q, link, pending, ring, fota, ota, out, ret, env, lastSent, forced>>

OnRev ==
  /\ Receive("REV") /\ q' = Tail(q)
  /\ idle' = (IF active THEN "fresh" ELSE idle) /\ window' = TRUE
  /\ pc' = "rev"
  /\ UNCHANGED <<power, ready, active, tx_busy, wakeup_pending, sem, air, pending, ring,
                 fota, ota, out, ret, env, lastSent, forced>>
-----------------------------------------------------------------------------
(* my_lte_handle_recv and my_lte_parse_cmd: one line *)

Line(l) == pc = "rev" /\ ring # <<>> /\ Head(ring) = l /\ ring' = Tail(ring)

RevEnd ==
  /\ pc = "rev" /\ ring = <<>> /\ pc' = "recv"
  /\ UNCHANGED <<q, link, pending, ring, fota, ota, out, ret, env, lastSent, forced>>

\* my_lte_handle_power_on: first the answer, then Report, then Drain
LinePowerOn ==
  /\ Line("PWRON")
  /\ ready' = TRUE /\ fota' = FALSE
  /\ UartSend(0, "report")
  /\ UNCHANGED <<q, power, active, tx_busy, wakeup_pending, window, idle, sem, air, pending,
                 ota, env, lastSent, forced>>

\* work mode, Bluetooth information, LED and pulse go through the queue
Report ==
  /\ pc = "report" /\ pc' = "drain"
  /\ q' = Status(q, Reports)
  /\ UNCHANGED <<link, pending, ring, fota, ota, out, ret, env, lastSent, forced>>

\* Mutant: the head of the queue stays
DrainKeepsHead ==
  /\ pc = "drain"
  /\ \/ pending # <<>> /\ pending' = pending /\ UartSend(Head(pending), "drain")
     \/ pending = <<>> /\ pc' = "rev" /\ UNCHANGED <<pending, out, ret>>
  /\ UNCHANGED <<q, link, ring, fota, ota, env, lastSent, forced>>

\* my_lte_process_queued_msgs
Drain ==
  /\ pc = "drain"
  /\ \/ pending # <<>> /\ pending' = Tail(pending) /\ UartSend(Head(pending), "drain")
     \/ pending = <<>> /\ pc' = "rev" /\ UNCHANGED <<pending, out, ret>>
  /\ UNCHANGED <<q, link, ring, fota, ota, env, lastSent, forced>>

\* my_lte_handle_power_off: the request is posted before the answer is sent
LinePowerOff ==
  /\ Line("PWROFF")
  /\ q' = Put(q, Msg("PWROFF")) /\ UartSend(0, "rev")
  /\ UNCHANGED <<link, pending, fota, ota, env, lastSent, forced>>

\* my_lte_handle_state, _sn, _getmot, _gettime, _gpsstate: answered at once
LineState ==
  /\ Line("STATE") /\ UartSend(0, "rev")
  /\ UNCHANGED <<q, link, pending, fota, ota, env, lastSent, forced>>

my_lte_handle_fota ==
  /\ \/ Line("FOTA_ENTER") /\ fota' = TRUE
     \/ Line("FOTA_EXIT") /\ fota' = FALSE
  /\ my_lte_send_msg(0, "rev")
  /\ UNCHANGED <<q, link, ota, posted, lines, updates, wakes, lastSent, forced>>

\* LTE+MCUOTA: my_dfu_lte_prepare and its answer
LineMcuOta ==
  /\ Line("MCUOTA")
  /\ \/ ota # "no" /\ my_lte_send_msg(0, "rev") /\ UNCHANGED ota
     \/ ota = "no" /\ ota' = "lte" /\ my_lte_send_msg(0, "ota")
     \/ ota = "no" /\ UNCHANGED ota /\ my_lte_send_msg(0, "rev")   \* bad parameters
  /\ UNCHANGED <<q, link, fota, posted, lines, updates, wakes, lastSent, forced>>

my_lte_purge_dfu_queues == q' = <<>> /\ pending' = <<>> /\ ring' = <<>>

\* my_dfu_lte_start: purge, the YModem session (one transmission stands for all), ...
OtaReceive ==
  /\ pc = "ota"
  /\ my_lte_purge_dfu_queues /\ UartSend(YModem, "otaend")
  /\ UNCHANGED <<link, fota, ota, env, lastSent, forced>>

\* ... purge again; after a success the session is held until the reset
OtaEnd ==
  /\ pc = "otaend" /\ pc' = "otareply"
  /\ my_lte_purge_dfu_queues /\ ota' \in {"no", "lte"}
  /\ UNCHANGED <<link, fota, out, ret, env, lastSent, forced>>

\* LTE+MCUOTA=SUCCESS or FAIL
OtaReply ==
  /\ pc = "otareply" /\ my_lte_send_msg(0, "rev")
  /\ UNCHANGED <<q, link, ring, fota, ota, posted, lines, updates, wakes, lastSent, forced>>
-----------------------------------------------------------------------------
(* Interrupts and timers *)

\* lte_uart_cb, UART_TX_DONE and UART_TX_ABORTED
TxDone ==
  /\ air # None /\ air' = None
  /\ q' = Put(q, Msg("TX_DONE")) /\ sem' = 1
  /\ forced' = (forced /\ pc \in {"wake", "tx"})
  /\ UNCHANGED <<power, ready, active, tx_busy, wakeup_pending, window, idle, pending, ring,
                 fota, ota, thread, env, lastSent>>

\* lte_uart_cb, UART_RX_RDY
RxReady(l) ==
  /\ active
  /\ ring' = IF Len(ring) < RingLen THEN Append(ring, l) ELSE ring
  /\ q' = Put(q, Msg("REV"))

lte_wake_pin_isr ==
  /\ wakes < MaxWakes /\ wakes' = wakes + 1
  /\ \/ ~wakeup_pending /\ wakeup_pending' = TRUE /\ q' = Put(q, Msg("WAKEUP"))
     \/ wakeup_pending /\ UNCHANGED <<wakeup_pending, q>>
  /\ UNCHANGED <<power, ready, active, tx_busy, window, idle, sem, air, pending, ring,
                 fota, ota, thread, posted, lines, updates, faults, lastSent, forced>>

\* seconds pass only when nothing is under way: handlers and transfers are shorter
Quiet == pc = "recv" /\ q = <<>> /\ air = None

\* 2.5 s after the last kick, and 3 s
WindowEnds ==
  /\ Quiet /\ window /\ window' = FALSE
  /\ UNCHANGED <<q, power, ready, active, tx_busy, wakeup_pending, idle, sem, air, pending, ring,
                 fota, ota, thread, env, lastSent, forced>>

IdleDue ==
  /\ Quiet /\ ~window /\ idle = "fresh" /\ idle' = "due"
  /\ UNCHANGED <<q, power, ready, active, tx_busy, wakeup_pending, window, sem, air, pending, ring,
                 fota, ota, thread, env, lastSent, forced>>

lte_uart_idle_timer_handler ==
  /\ idle = "due" /\ idle' = "off"
  /\ q' = Put(q, Msg("UART_IDLE"))
  /\ UNCHANGED <<power, ready, active, tx_busy, wakeup_pending, window, sem, air, pending, ring,
                 fota, ota, thread, env, lastSent, forced>>

\* every 60 s; one that coincides with traffic is like any other command
lte_pulse_timer_handler ==
  /\ Quiet /\ idle = "off"
  /\ q' = Put(q, Msg("PULSE"))
  /\ UNCHANGED <<link, pending, ring, fota, ota, thread, env, lastSent, forced>>
-----------------------------------------------------------------------------
(* The 4G module, the other threads, an update by the phone *)

\* external: the module reports that it is up until it is heard, and again after it
\* restarted itself
ModuleUp ==
  /\ power /\ RxReady("PWRON")
  /\ \/ ~ready /\ ring = <<>> /\ (\A i \in 1..Len(q) : q[i].id # "REV") /\ UNCHANGED lines
     \/ ready /\ lines < MaxLines /\ lines' = lines + 1
  /\ UNCHANGED <<link, pending, fota, ota, thread, posted, updates, wakes, faults, lastSent, forced>>

\* external: any other line, also from a module that was not heard yet
ModuleLine ==
  /\ power /\ lines < MaxLines /\ lines' = lines + 1
  /\ \E l \in Lines \ {"PWRON"} : RxReady(l)
  /\ UNCHANGED <<link, pending, fota, ota, thread, posted, updates, wakes, faults, lastSent, forced>>

\* lte_send_command in another thread; there may be no memory for the command
Post ==
  /\ posted < MaxCmd /\ posted' = posted + 1
  /\ \/ q' = lte_send_command(q, posted + 1) /\ UNCHANGED faults
     \/ q' = (IF power THEN q ELSE Put(q, Msg("PWRON"))) /\ Fault
  /\ UNCHANGED <<link, pending, ring, fota, ota, thread, lines, updates, wakes, lastSent, forced>>

\* external: an update through the phone begins, or ends without success
AppOta ==
  /\ \/ ota = "no" /\ updates < MaxUpdates /\ updates' = updates + 1 /\ ota' = "app"
     \/ ota = "app" /\ ota' = "no" /\ UNCHANGED updates
  /\ UNCHANGED <<q, link, pending, ring, fota, thread, posted, lines, wakes, faults, lastSent, forced>>
-----------------------------------------------------------------------------
Sending == SendBegin \/ SendRefused \/ SendTake \/ SendTakeTimeout \/ SendWake \/ SendWoken
             \/ SendWakeTimeout \/ SendData \/ SendFails
Handling == OnTxDone \/ OnUartIdle \/ OnPwrOn \/ OnBleData \/ OnPulse \/ OnWakeup \/ OnPwrOff \/ OnRev
PoweringOff == PwrOffWait \/ PwrOffCut \/ PwrOffSlept
Reading == RevEnd \/ LinePowerOn \/ Report \/ Drain \/ LinePowerOff \/ LineState
             \/ my_lte_handle_fota \/ LineMcuOta \/ OtaReceive \/ OtaEnd \/ OtaReply
Thread == Sending \/ Handling \/ PoweringOff \/ Reading
Timers == WindowEnds \/ IdleDue \/ lte_uart_idle_timer_handler \/ lte_pulse_timer_handler
Interrupts == TxDone \/ lte_wake_pin_isr \/ Timers
Others == ModuleUp \/ ModuleLine \/ Post \/ AppOta

Next == Thread \/ Interrupts \/ Others

Spec == Init /\ [][Next]_vars

(* The thread runs, transfers end, timers expire, and a module that starts *)
(* says so as soon as it is heard.                                         *)
FairSpec ==
  /\ Spec /\ WF_vars(Thread) /\ WF_vars(TxDone) /\ WF_vars(ModuleUp /\ ~ready)
  /\ WF_vars(WindowEnds) /\ WF_vars(IdleDue) /\ WF_vars(lte_uart_idle_timer_handler)
  /\ WF_vars(lte_pulse_timer_handler)
-----------------------------------------------------------------------------
(* Properties *)

Places == {"recv", "rev", "send", "take", "wake", "wakewait", "tx", "offwait", "cut", "offsleep",
           "report", "drain", "ota", "otaend", "otareply"}
Returns == {"recv", "rev", "report", "drain", "ota", "otaend"}

\* The variables have the values of their C types, and the queues their capacity.
TypeOK ==
  /\ q \in Seq(Msgs) /\ Len(q) <= QueueLen
  /\ power \in BOOLEAN /\ ready \in BOOLEAN /\ active \in BOOLEAN /\ tx_busy \in BOOLEAN
  /\ wakeup_pending \in BOOLEAN /\ window \in BOOLEAN /\ fota \in BOOLEAN /\ forced \in BOOLEAN
  /\ idle \in {"off", "fresh", "due"} /\ sem \in {0, 1}
  /\ air \in Nat \cup {None, WakeBytes, YModem}
  /\ pending \in Seq(Nat) /\ Len(pending) <= PendLen
  /\ ring \in Seq(Lines) /\ Len(ring) <= RingLen
  /\ ota \in {"no", "app", "lte"}
  /\ pc \in Places /\ ret \in Returns
  /\ out \in Nat \cup {YModem}
  /\ posted \in Nat /\ lines \in Nat /\ updates \in Nat /\ wakes \in Nat /\ faults \in Nat /\ lastSent \in Nat

\* s_TxDoneSem is taken exactly while a transfer is under way or its owner is about to
\* start it, unless it was given by force: after a wait for the wake-up bytes was given
\* up, or at a power-off that did not wait.  Then only the completion can restore it.
SemGuardsTransfer ==
  ~forced /\ pc # "cut" => (sem = 0 <=> air # None \/ pc \in {"wake", "tx"})

\* Commands reach the UART in the order in which they were posted, and each at most
\* once, whether they are sent at once or wait for the module (my_lte_send_msg).
TransmitsInOrder == [][air' # air /\ air' > 0 => air' > lastSent]_vars

\* The UART is not kept on for good by a lost or refused UART_IDLE or a lost TX_DONE:
\* the next pulse starts the timer again.  What may keep it on is listed.
UartSleeps ==
  []<>(~active \/ fota \/ ota # "no" \/ pending # <<>> \/ ring # <<>> \/ ~power)

=============================================================================
