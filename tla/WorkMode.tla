------------------------------ MODULE WorkMode ------------------------------
(***************************************************************************)
(* Work modes and low-power running (main.c): the main thread serialises   *)
(* mode switches, battery checks and requests of other threads through its *)
(* message queue, and steers the BLE and G-sensor threads through theirs.  *)
(* Command handlers, timers and the 4G module run between any two          *)
(* messages; some command handlers change the mode, a timer or the scan    *)
(* configuration directly.                                                 *)
(*                                                                         *)
(* The battery is known by its place relative to lprunning_threshold, the  *)
(* parameters of smart mode by what they make of the wake-up timer in each *)
(* motion state.  The 4G module is external; how commands reach it is in   *)
(* LteLink.  Timers are slow: one expires again, and the battery is        *)
(* measured again, after the main thread handled the message of the last   *)
(* time.                                                                   *)
(***************************************************************************)
EXTENDS Integers, Sequences

CONSTANTS Modes,     \* the work modes
          Policy,    \* smart mode: what each motion state makes of the wake-up timer
          BootModes, \* the saved work modes at boot
          BootLevels,\* places of the battery at boot
          QueueLen,  \* entries of each message queue
          Inputs,    \* the commands, keys, motions and battery changes of this instance
          MaxInput,  \* bound: how many of them
          MaxRestart \* bound: power-ups of the 4G module after the first

Levels == {"low", "mid", "high"}
AllModes == {"CONTINUOUS", "LONG_LIFE", "SMART", "ALWAYS_ONLINE"}

ASSUME ConstantsAssumption ==
  /\ Modes \subseteq AllModes /\ BootModes \subseteq Modes
  /\ Policy \in [{"STATIC", "MOTION"} -> {"no_report", "always_on", "sleep"}]
  /\ Policy["MOTION"] # "no_report"
  /\ BootLevels \subseteq Levels
  /\ QueueLen \in Nat \ {0} /\ MaxInput \in Nat /\ MaxRestart \in Nat

VARIABLES
  mainq, bleq, gq,   \* my_main_msgq, my_ble_msgq, my_gsensor_msgq
  current,           \* gConfigParam ... current_mode
  last,              \* s_last_work_mode
  lp, saved,         \* s_lprunning_active, s_lprunning_saved_mode
  hold_off,          \* s_lprunning_hold_off
  lpTimer,           \* MY_TIMER_LPSLEEP
  sw,                \* lprunning_sw
  level,             \* get_show_percent() against the threshold
  lteTimer,          \* MY_TIMER_LTE_POWER
  scan,              \* the BLE thread scans as configured
  updating,          \* bt_updata_cmd_handler has found the device out of low-power running
  sensor, motion,    \* sensor_ready, last_gsensor_state
  lte,               \* the 4G module: "leaving" before its power is cut, "cycling" if a
                     \* power-on waits behind that
  informed,          \* it was told to run at low power since it started
  shutdown_request,  \* g_shutdown_request
  pwroff,            \* the LTE thread or the module has the command PWROFF
  off,               \* System OFF
  inputs, restarts,  \* counters of the bounds
  lost,              \* history: a full queue dropped a message
  scanBy,            \* history: what decided last whether to scan: "mode", "hand", "command"
  barred             \* history: left low power by hand, battery low ever since

work == <<current, last, lteTimer>>
lowpower == <<lp, saved, hold_off, lpTimer>>
battery == <<sw, level>>
scanning == <<bleq, scan, updating, scanBy>>
gsensor == <<sensor, motion>>
shutdown == <<shutdown_request, pwroff>>
vars == <<mainq, gq, work, lowpower, battery, scanning, gsensor, lte, informed,
          shutdown, off, inputs, restarts, lost, barred>>

Msg(i) == [id |-> i, mode |-> "none"]
SwitchMsg(m) == [id |-> "SWITCH", mode |-> m]

Full(queue) == Len(queue) >= QueueLen

\* Mutant: the message is stored although the queue is full
PutAlways(queue, m) == Append(queue, m)

\* my_send_msg, my_send_msg_data: a full queue drops the message
Put(queue, m) == IF Full(queue) THEN queue ELSE Append(queue, m)

\* a message posted by a thread other than the main thread
Post(m) == mainq' = Put(mainq, m) /\ lost' = (lost \/ Full(mainq))

Pending(i) == \E k \in 1 .. Len(mainq) : mainq[k].id = i

gsensor_is_required_mode(m) == m \in {"SMART", "CONTINUOUS", "ALWAYS_ONLINE"}

\* g_bLteReady == 1: from the module's report to the cut of its power
Ready == lte \in {"ready", "leaving", "cycling"}

\* MY_MSG_LTE_PWRON, handled behind a power-off that is queued
PowerOn ==
  lte' = CASE lte = "off" -> "starting" [] lte = "leaving" -> "cycling" [] OTHER -> lte

\* lte_send_command: the same, if the power is off
Command == PowerOn \/ (lte = "leaving" /\ lte' = lte)

Init ==
  /\ current \in BootModes /\ mainq = <<SwitchMsg(current)>> /\ bleq = <<>> /\ gq = <<>>
  /\ last = "SHUTDOWN" /\ lp = FALSE /\ saved = "SMART" /\ hold_off = FALSE
  /\ sw \in BOOLEAN /\ level \in BootLevels /\ lteTimer = "off" /\ lpTimer = FALSE
  /\ scan = TRUE /\ updating = FALSE /\ scanBy = "mode"
  /\ sensor = gsensor_is_required_mode(current) /\ motion = "STATIC"
  /\ lte = "starting" /\ informed = FALSE /\ off = FALSE
  /\ shutdown_request = FALSE /\ pwroff = FALSE
  /\ inputs = 0 /\ restarts = 0 /\ lost = FALSE /\ barred = FALSE
-----------------------------------------------------------------------------
(* The main thread *)

Receive(i) == ~off /\ mainq # <<>> /\ Head(mainq).id = i

\* switch_work_mode_internal from its first assignment on, with the handlers of the
\* modes; rest is the queue without the message.  The wake-up of the uploads that it
\* posts to the BLE thread is in ScanUpload.
EnterMode(mode, rest) ==
  /\ last' = mode /\ current' = mode
  /\ IF mode = "SMART" THEN Command ELSE PowerOn
  /\ lteTimer' = IF mode \in {"CONTINUOUS", "ALWAYS_ONLINE"} THEN "off" ELSE lteTimer
  /\ gq' = Put(gq, IF gsensor_is_required_mode(mode) THEN "HIGH" ELSE "LOW")
  /\ mainq' = IF mode = "LONG_LIFE" THEN Put(rest, Msg("RESET")) ELSE rest

\* Mutant: leaving low power by hand does not hold off the next entry
LeaveByHandNoHold ==
  /\ lp' = FALSE /\ lpTimer' = FALSE /\ UNCHANGED hold_off
  /\ scanBy' = IF scanBy = "mode" THEN "hand" ELSE scanBy
  /\ barred' = (level = "low")

\* switch_work_mode_internal: low-power running ends because the mode is switched; nothing
\* tells the BLE thread to scan again
LeaveByHand ==
  /\ lp' = FALSE /\ lpTimer' = FALSE /\ hold_off' = TRUE
  /\ scanBy' = IF scanBy = "mode" THEN "hand" ELSE scanBy
  /\ barred' = (level = "low")

\* MY_MSG_WORK_MODE_SWITCH: switch_work_mode_internal
OnSwitch ==
  /\ Receive("SWITCH")
  /\ \/ lp /\ LeaveByHand
     \/ ~lp /\ UNCHANGED <<lp, lpTimer, hold_off, scanBy, barred>>
  /\ LET mode == Head(mainq).mode
     IN  \/ /\ ~lp /\ last = mode
            /\ mainq' = Tail(mainq) /\ UNCHANGED <<gq, work, lte, off, lost>>
         \/ /\ lp \/ last # mode
            /\ mode # "SHUTDOWN" /\ EnterMode(mode, Tail(mainq))
            /\ lost' = (lost \/ Full(gq)) /\ UNCHANGED off
         \/ /\ lp \/ last # mode
            /\ mode = "SHUTDOWN" /\ last' = mode /\ off' = TRUE       \* go_to_system_off
            /\ mainq' = Tail(mainq) /\ UNCHANGED <<gq, current, lteTimer, lte, lost>>
  /\ UNCHANGED <<saved, battery, bleq, scan, updating, gsensor, informed, shutdown, inputs,
                 restarts>>

\* handle_lprunning_enter; sending LPSLEEP powers the module on
handle_lprunning_enter ==
  /\ saved' = current /\ lp' = TRUE
  /\ bleq' = Put(bleq, "ENTER") /\ scanBy' = "mode" /\ gq' = Put(gq, "LOW")
  /\ lteTimer' = "off" /\ lpTimer' = TRUE
  /\ informed' = TRUE /\ Command
  /\ lost' = (lost \/ Full(bleq) \/ Full(gq))
  /\ mainq' = Tail(mainq)
  /\ UNCHANGED <<current, last, hold_off, scan, updating>>

\* Mutant: the BLE thread is not told that low-power running ended
handle_lprunning_exit_silent ==
  /\ lp' = FALSE /\ lpTimer' = FALSE
  /\ EnterMode(saved, Tail(mainq))
  /\ scanBy' = "mode" /\ lost' = (lost \/ Full(gq))
  /\ UNCHANGED <<bleq, saved, hold_off, informed, scan, updating>>

\* handle_lprunning_exit, in low-power running
handle_lprunning_exit ==
  /\ lp' = FALSE /\ lpTimer' = FALSE
  /\ EnterMode(saved, Tail(mainq))
  /\ bleq' = Put(bleq, "EXIT") /\ scanBy' = "mode"
  /\ lost' = (lost \/ Full(gq) \/ Full(bleq))
  /\ UNCHANGED <<saved, hold_off, informed, scan, updating>>

\* MY_MSG_LPSLEEP_EXIT
OnExit ==
  /\ Receive("EXIT")
  /\ \/ lp /\ handle_lprunning_exit
     \/ /\ ~lp /\ mainq' = Tail(mainq)
        /\ UNCHANGED <<gq, work, lowpower, scanning, lte, informed, lost>>
  /\ UNCHANGED <<battery, gsensor, shutdown, off, inputs, restarts, barred>>

\* MY_MSG_LPSLEEP_BATTERY_CHECK: handle_lprunning_battery_check
OnCheck ==
  /\ Receive("CHECK")
  /\ \/ sw /\ ~lp /\ level = "low" /\ ~hold_off /\ handle_lprunning_enter
     \/ sw /\ lp /\ level = "high" /\ handle_lprunning_exit
     \/ /\ ~(sw /\ (IF lp THEN level = "high" ELSE level = "low" /\ ~hold_off))
        /\ hold_off' = (hold_off /\ ~(sw /\ ~lp /\ level # "low"))
        /\ mainq' = Tail(mainq)
        /\ UNCHANGED <<gq, work, lp, saved, lpTimer, scanning, lte, informed, lost>>
  /\ UNCHANGED <<battery, gsensor, shutdown, off, inputs, restarts, barred>>

\* MY_MSG_LPSLEEP_LTE_SYNC: handle_lprunning_lte_sync
OnSync ==
  /\ Receive("SYNC") /\ mainq' = Tail(mainq)
  /\ \/ lp /\ informed' = TRUE /\ Command
     \/ ~lp /\ UNCHANGED <<informed, lte>>
  /\ UNCHANGED <<gq, work, lowpower, battery, scanning, gsensor, shutdown, off,
                 inputs, restarts, lost, barred>>

\* MY_MSG_LPSLEEP_CLEAR_HOLD_OFF
OnClearHoldOff ==
  /\ Receive("CLEAR") /\ mainq' = Tail(mainq)
  /\ hold_off' = FALSE /\ barred' = FALSE
  /\ UNCHANGED <<gq, work, lp, saved, lpTimer, battery, scanning, gsensor, lte, informed,
                 shutdown, off, inputs, restarts, lost>>

\* MY_MSG_RESET_LTE_TIMER: set_reset_lte_timer
OnResetTimer ==
  /\ Receive("RESET") /\ mainq' = Tail(mainq)
  /\ lteTimer' = "once"
  /\ UNCHANGED <<gq, current, last, lowpower, battery, scanning, gsensor, lte, informed,
                 shutdown, off, inputs, restarts, lost, barred>>

\* MY_MSG_CTRL_KEY_LONG_PRESS: the command KEY, and go_to_shutdown unless the key is locked.
\* go_to_shutdown does nothing while the device is charged; with the module ready it sends
\* PWROFF to it, which lte_send_command may drop unnoticed.
OnLongPress ==
  /\ Receive("KEY_LONG") /\ Command
  /\ \/ mainq' = Tail(mainq) /\ UNCHANGED shutdown
     \/ /\ Ready /\ shutdown_request' = TRUE /\ pwroff' \in {TRUE, pwroff}
        /\ mainq' = Tail(mainq)
     \/ ~Ready /\ mainq' = Put(Tail(mainq), Msg("SHUTDOWN")) /\ UNCHANGED shutdown
  /\ UNCHANGED <<gq, work, lowpower, battery, scanning, gsensor, informed, off,
                 inputs, restarts, lost, barred>>

\* Mutant: the shutdown is only noted, not executed
OnShutdownNoted ==
  /\ Receive("SHUTDOWN") /\ shutdown_request' = FALSE /\ mainq' = Tail(mainq)
  /\ UNCHANGED <<pwroff, gq, work, lowpower, battery, scanning, gsensor, lte, informed, off,
                 inputs, restarts, lost, barred>>

\* MY_MSG_CTRL_SHUTDOWN_REQUEST
OnShutdown ==
  /\ Receive("SHUTDOWN")
  /\ shutdown_request' = FALSE /\ mainq' = Put(Tail(mainq), SwitchMsg("SHUTDOWN"))
  /\ UNCHANGED <<pwroff, gq, work, lowpower, battery, scanning, gsensor, lte, informed, off,
                 inputs, restarts, lost, barred>>
-----------------------------------------------------------------------------
(* The BLE thread and the G-sensor thread *)

\* MY_MSG_SCAN_LPSLEEP_ENTER, MY_MSG_SCAN_LPSLEEP_EXIT
OnScanMode ==
  /\ ~off /\ bleq # <<>> /\ bleq' = Tail(bleq)
  /\ scan' = (Head(bleq) = "EXIT")
  /\ UNCHANGED <<updating, scanBy, mainq, gq, work, lowpower, battery, gsensor, lte, informed,
                 shutdown, off, inputs, restarts, lost, barred>>

\* the motion policy, in motion state s, and what its callers send to the module, even
\* without reports: an alarm, if they are enabled, or the new parameters
smart_mode_apply_lte_policy(s) ==
  /\ lteTimer' = IF Policy[s] = "sleep" THEN "period" ELSE "off"
  /\ \/ Policy[s] # "no_report" /\ PowerOn
     \/ Policy[s] = "no_report" /\ (Command \/ UNCHANGED lte)

\* HIGH_POWER and LOW_POWER resume and suspend the sensor; MOTION is a MOTION_CHECK that
\* finds another state: my_gsensor_motion_state_check, get_motion_status
OnSensorMsg ==
  /\ ~off /\ gq # <<>> /\ gq' = Tail(gq)
  /\ \/ Head(gq) = "HIGH" /\ sensor' = TRUE /\ UNCHANGED <<motion, lteTimer, lte>>
     \/ Head(gq) = "LOW" /\ sensor' = FALSE /\ UNCHANGED <<motion, lteTimer, lte>>
     \/ /\ Head(gq) = "MOTION" /\ sensor /\ UNCHANGED sensor
        /\ motion' \in {"STATIC", "MOTION"} \ {motion}
        /\ smart_mode_apply_lte_policy(motion')
     \/ Head(gq) = "MOTION" /\ ~sensor /\ UNCHANGED <<sensor, motion, lteTimer, lte>>
  /\ UNCHANGED <<mainq, current, last, lowpower, battery, scanning, informed,
                 shutdown, off, inputs, restarts, lost, barred>>
-----------------------------------------------------------------------------
(* Timers, battery, the 4G module *)

Input(i) == ~off /\ i \in Inputs /\ inputs < MaxInput /\ inputs' = inputs + 1

\* gsensor_state_check_timer_cb, when the device began or ceased to move
MotionCheck ==
  /\ Input("motion") /\ sensor
  /\ gq' = Put(gq, "MOTION") /\ lost' = (lost \/ Full(gq))
  /\ UNCHANGED <<mainq, work, lowpower, battery, scanning, gsensor, lte, informed,
                 shutdown, off, restarts, barred>>

\* awaken_lte_timer_callback
awaken_lte_timer_callback ==
  /\ ~off /\ lteTimer # "off" /\ ~Pending("RESET")
  /\ lteTimer' = IF lteTimer = "once" THEN "off" ELSE lteTimer
  /\ \/ current = "LONG_LIFE" /\ Post(Msg("RESET"))
     \/ current # "LONG_LIFE" /\ UNCHANGED <<mainq, lost>>
  /\ PowerOn
  /\ UNCHANGED <<gq, current, last, lowpower, battery, scanning, gsensor, informed,
                 shutdown, off, inputs, restarts, barred>>

\* lprunning_wakeup_timer_callback: nothing if the module is powered
lprunning_wakeup_timer_callback ==
  /\ ~off /\ lpTimer /\ lte = "off"
  /\ PowerOn
  /\ UNCHANGED <<mainq, gq, work, lowpower, battery, scanning, gsensor, informed,
                 shutdown, off, inputs, restarts, lost, barred>>

\* the battery is charged or used: low is below the threshold, high at least 5 above it
BatteryChanges ==
  /\ Input("battery") /\ level' \in Levels \ {level}
  /\ barred' = (barred /\ level' = "low")
  /\ UNCHANGED <<mainq, gq, work, lowpower, sw, scanning, gsensor, lte, informed,
                 shutdown, off, restarts, lost>>

\* Mutants: the check is posted only in low-power running, or only outside of it
BatteryMeasuredInLp ==
  /\ ~off /\ sw /\ lp /\ ~Pending("CHECK")
  /\ Post(Msg("CHECK"))
  /\ UNCHANGED <<gq, work, lowpower, battery, scanning, gsensor, lte, informed,
                 shutdown, off, inputs, restarts, barred>>

BatteryMeasuredNotInLp ==
  /\ ~off /\ sw /\ ~lp /\ ~Pending("CHECK")
  /\ Post(Msg("CHECK"))
  /\ UNCHANGED <<gq, work, lowpower, battery, scanning, gsensor, lte, informed,
                 shutdown, off, inputs, restarts, barred>>

\* the end of a battery measurement
BatteryMeasured ==
  /\ ~off /\ sw /\ ~Pending("CHECK")
  /\ Post(Msg("CHECK"))
  /\ UNCHANGED <<gq, work, lowpower, battery, scanning, gsensor, lte, informed,
                 shutdown, off, inputs, restarts, barred>>

\* external: the module is up; my_lte_handle_power_on posts LPSLEEP_LTE_SYNC
ModuleUp ==
  /\ ~off /\ lte = "starting" /\ lte' = "ready" /\ informed' = FALSE
  /\ Post(Msg("SYNC"))
  /\ UNCHANGED <<gq, work, lowpower, battery, scanning, gsensor, shutdown, off,
                 inputs, restarts, barred>>

\* external: the module asks to be switched off, on its own account or because it was told
\* to; my_lte_handle_power_off answers, and posts the power-off to its own thread
my_lte_handle_power_off ==
  /\ ~off /\ lte = "ready" /\ lte' = "leaving" /\ pwroff' = FALSE
  /\ \/ shutdown_request /\ Post(Msg("SHUTDOWN")) /\ UNCHANGED restarts
     \/ /\ ~shutdown_request /\ restarts < MaxRestart /\ restarts' = restarts + 1
        /\ UNCHANGED <<mainq, lost>>
  /\ UNCHANGED <<gq, work, lowpower, battery, scanning, gsensor, informed, shutdown_request,
                 off, inputs, barred>>

\* MY_MSG_LTE_PWROFF: the power is cut, unless an update or the factory test is under way.
\* A command behind it waits for the next start.
my_lte_pwroff_handle ==
  /\ ~off /\ lte \in {"leaving", "cycling"}
  /\ lte' \in {"ready", IF lte = "cycling" THEN "starting" ELSE "off"}
  /\ UNCHANGED <<mainq, gq, work, lowpower, battery, scanning, gsensor, informed, shutdown,
                 off, inputs, restarts, lost, barred>>
-----------------------------------------------------------------------------
(* The user: commands by phone, 4G or cable run in the thread that received them *)

\* modeset_cmd_handler with a mode only, and switch_work_mode
ModeSet ==
  /\ Input("MODESET")
  /\ \E m \in Modes : current' = (IF last # m THEN m ELSE current) /\ Post(SwitchMsg(m))
  /\ UNCHANGED <<gq, last, lteTimer, lowpower, battery, scanning, gsensor, lte, informed,
                 shutdown, off, restarts, barred>>

\* modeset_cmd_handler with parameters of the current mode
ModeParams ==
  /\ Input("PARAMS") /\ current \in {"LONG_LIFE", "SMART"}
  /\ \/ current = "LONG_LIFE" /\ Post(Msg("RESET")) /\ UNCHANGED lteTimer
     \/ current = "SMART" /\ smart_mode_apply_lte_policy(motion) /\ UNCHANGED <<mainq, lost>>
  /\ Command
  /\ UNCHANGED <<gq, current, last, lowpower, battery, scanning, gsensor, informed,
                 shutdown, off, restarts, barred>>

\* lprunning_cmd_handler; LPSLEEP,ON may set another threshold
LpSleep ==
  /\ Input("LPSLEEP") /\ sw' \in BOOLEAN
  /\ level' \in IF sw' THEN Levels ELSE {level}
  /\ barred' = (barred /\ level' = "low")
  /\ Post(Msg(IF sw' THEN "CLEAR" ELSE "EXIT"))
  /\ UNCHANGED <<gq, work, lowpower, scanning, gsensor, lte, informed,
                 shutdown, off, restarts>>

\* bt_updata_cmd_handler, refused in low-power running: what it has found may have changed
\* when it applies the configuration; a message that the BLE thread still has then follows
BtUpdata ==
  /\ Input("BT_UPDATA") /\ ~lp /\ ~updating /\ updating' = TRUE
  /\ UNCHANGED <<mainq, gq, work, lowpower, battery, bleq, scan, scanBy, gsensor, lte, informed,
                 shutdown, off, restarts, lost, barred>>

BtUpdataApply ==
  /\ ~off /\ updating /\ updating' = FALSE /\ scan' = TRUE
  /\ scanBy' = IF bleq = <<>> THEN "command" ELSE scanBy
  /\ UNCHANGED <<mainq, gq, work, lowpower, battery, bleq, gsensor, lte, informed,
                 shutdown, off, inputs, restarts, lost, barred>>

LongPress ==
  /\ Input("KEY") /\ Post(Msg("KEY_LONG"))
  /\ UNCHANGED <<gq, work, lowpower, battery, scanning, gsensor, lte, informed,
                 shutdown, off, restarts, barred>>
-----------------------------------------------------------------------------
Main == OnSwitch \/ OnExit \/ OnCheck \/ OnSync \/ OnClearHoldOff \/ OnResetTimer
        \/ OnLongPress \/ OnShutdown
Threads == OnScanMode \/ OnSensorMsg
Timers == MotionCheck \/ awaken_lte_timer_callback \/ lprunning_wakeup_timer_callback
          \/ BatteryMeasured
Outside == BatteryChanges \/ ModuleUp \/ my_lte_handle_power_off \/ my_lte_pwroff_handle
User == ModeSet \/ ModeParams \/ LpSleep \/ BtUpdata \/ BtUpdataApply \/ LongPress

Next == Main \/ Threads \/ Timers \/ Outside \/ User

Spec == Init /\ [][Next]_vars

(* The main thread and the LTE thread run, and the module starts when      *)
(* powered and asks to be switched off when it has heard PWROFF.  The      *)
(* battery is measured again and again at moments of its own: if there is  *)
(* room in the queue again and again, a check gets in.                     *)
FairSpec ==
  /\ Spec
  /\ WF_vars(Main)
  /\ WF_vars(ModuleUp \/ my_lte_pwroff_handle \/ (my_lte_handle_power_off /\ pwroff))
  /\ SF_vars(BatteryMeasured)
-----------------------------------------------------------------------------
(* Properties *)

Ids == {"RESET", "EXIT", "CHECK", "SYNC", "CLEAR", "KEY_LONG", "SHUTDOWN"}
Msgs == [id : Ids, mode : {"none"}] \cup [id : {"SWITCH"}, mode : AllModes \cup {"SHUTDOWN"}]

\* The variables have the values of their C types, and no queue exceeds its capacity.
TypeOK ==
  /\ mainq \in Seq(Msgs) /\ Len(mainq) <= QueueLen
  /\ bleq \in Seq({"ENTER", "EXIT"}) /\ Len(bleq) <= QueueLen
  /\ gq \in Seq({"HIGH", "LOW", "MOTION"}) /\ Len(gq) <= QueueLen
  /\ current \in AllModes /\ last \in AllModes \cup {"SHUTDOWN"} /\ saved \in AllModes
  /\ lp \in BOOLEAN /\ hold_off \in BOOLEAN /\ lpTimer \in BOOLEAN /\ sw \in BOOLEAN
  /\ level \in Levels /\ lteTimer \in {"off", "once", "period"}
  /\ scan \in BOOLEAN /\ updating \in BOOLEAN /\ scanBy \in {"mode", "hand", "command"}
  /\ sensor \in BOOLEAN /\ motion \in {"STATIC", "MOTION"}
  /\ lte \in {"off", "starting", "ready", "leaving", "cycling"} /\ informed \in BOOLEAN
  /\ shutdown_request \in BOOLEAN /\ pwroff \in BOOLEAN
  /\ off \in BOOLEAN /\ inputs \in Nat /\ restarts \in Nat
  /\ lost \in BOOLEAN /\ barred \in BOOLEAN

\* After the user left low-power running by a mode switch with a low battery, the device
\* does not enter it again before the battery reached the threshold (or another threshold
\* was set) or an LPSLEEP,ON was handled, whatever checks were under way (the purpose of
\* s_lprunning_hold_off).
HandOverrides == barred => ~lp

Settled == ~off /\ ~lost /\ mainq = <<>> /\ bleq = <<>> /\ gq = <<>>

\* Whatever order mode switches, battery checks and commands took, once the queues are
\* empty the device does what its mode says: one mode is in force, the timer of low-power
\* running and the sensor follow it, a module that is up knows of it, and the device scans
\* exactly outside low-power running.  Two exceptions to the last: a switch by hand out of
\* low-power running (main.c:376-384) leaves the scan paused until low-power running ends the
\* next time or BT_UPDATA is applied, and a BT_UPDATA accepted before low-power running began
\* and applied after it (my_cmd_setting.c:2188, 2295) scans in it.
SettledAgrees ==
  Settled =>
    /\ last = current /\ lpTimer = lp
    /\ sensor = (~lp /\ gsensor_is_required_mode(current))
    /\ scanBy = "mode" => scan = ~lp
    /\ scanBy = "hand" => ~scan /\ ~lp
    /\ scanBy = "command" => scan
    /\ lp /\ lte = "ready" => informed

\* A battery that stays low brings low-power running on, unless it is held off or switched
\* off (handle_lprunning_battery_check) ...
LowBatteryEnters ==
  sw /\ level = "low" /\ ~hold_off ~> lp \/ hold_off \/ level # "low" \/ ~sw \/ off

\* ... and one that is charged again ends it.
ChargedExits == lp /\ level = "high" ~> ~lp \/ level # "high" \/ ~sw \/ off

\* A shutdown that waits for the module to finish (g_shutdown_request) is completed if its
\* PWROFF was handed to the LTE thread, also when the module is about to be switched off or
\* starts meanwhile; except while the command waits for the next start of a module that is off.
\* A PWROFF that lte_send_command drops (main.c:729) is not repeated: such a request waits for
\* the module to switch itself off.
ShutdownCompletes ==
  shutdown_request /\ pwroff ~> off \/ lost \/ (pwroff /\ lte = "off")

=============================================================================
