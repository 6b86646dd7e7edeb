--------------------------- MODULE WorkModeProofs ---------------------------
(***************************************************************************)
(* Theorems about WorkMode for every set of modes, every motion policy,    *)
(* every queue length and every bound: the type invariant, that a manual   *)
(* exit from low-power running is respected, and that a device that has    *)
(* settled does what its mode says.                                        *)
(***************************************************************************)
EXTENDS WorkMode, TLAPS

(* Queues *)

LEMMA PutType ==
  ASSUME NEW S, NEW s \in Seq(S), NEW m \in S, Len(s) <= QueueLen
  PROVE  Put(s, m) \in Seq(S) /\ Len(Put(s, m)) <= QueueLen
BY ConstantsAssumption DEF Put, Full

\* a queue with room stores the message last
LEMMA PutStores ==
  ASSUME NEW S, NEW s \in Seq(S), NEW m \in S, ~Full(s)
  PROVE  /\ Len(Put(s, m)) = Len(s) + 1 /\ Len(s) \in Nat
         /\ Put(s, m)[Len(s) + 1] = m
         /\ \A i \in 1 .. Len(s) : Put(s, m)[i] = s[i]
BY DEF Put, Full

LEMMA TailType ==
  ASSUME NEW S, NEW s \in Seq(S), s # <<>>
  PROVE  /\ Tail(s) \in Seq(S) /\ Len(Tail(s)) = Len(s) - 1 /\ Len(s) \in Nat \ {0}
         /\ Head(s) \in S /\ Head(s) = s[1]
         /\ \A i \in 1 .. Len(Tail(s)) : Tail(s)[i] = s[i + 1]
OBVIOUS

LEMMA MsgType == \A i \in Ids : Msg(i) \in Msgs
BY DEF Msg, Msgs

LEMMA SwitchType == \A m \in AllModes \cup {"SHUTDOWN"} : SwitchMsg(m) \in Msgs
BY DEF SwitchMsg, Msgs

\* a post keeps the queue of the main thread within its capacity
LEMMA PostType ==
  ASSUME TypeOK, NEW m \in Msgs, Post(m)
  PROVE  mainq' \in Seq(Msgs) /\ Len(mainq') <= QueueLen /\ lost' \in BOOLEAN
BY PutType DEF Post, TypeOK, Full

\* the message taken from the queue of the main thread
LEMMA ReceiveType ==
  ASSUME TypeOK, NEW i, Receive(i)
  PROVE  /\ Tail(mainq) \in Seq(Msgs) /\ Len(Tail(mainq)) < QueueLen
         /\ Len(Tail(mainq)) = Len(mainq) - 1 /\ Len(mainq) \in Nat \ {0}
         /\ mainq # <<>> /\ Head(mainq) \in Msgs /\ Head(mainq) = mainq[1] /\ Head(mainq).id = i
         /\ \A k \in 1 .. Len(Tail(mainq)) : Tail(mainq)[k] = mainq[k + 1]
<1>1. mainq \in Seq(Msgs) /\ mainq # <<>> /\ Len(mainq) <= QueueLen /\ Head(mainq).id = i
  BY DEF TypeOK, Receive
<1>2. /\ Tail(mainq) \in Seq(Msgs) /\ Len(Tail(mainq)) = Len(mainq) - 1
      /\ Len(mainq) \in Nat \ {0} /\ Head(mainq) \in Msgs /\ Head(mainq) = mainq[1]
      /\ \A k \in 1 .. Len(Tail(mainq)) : Tail(mainq)[k] = mainq[k + 1]
  BY <1>1, TailType
<1> QED  BY <1>1, <1>2, ConstantsAssumption

LEMMA SwitchMode ==
  ASSUME NEW m \in Msgs, m.id = "SWITCH"
  PROVE  m.mode \in AllModes \cup {"SHUTDOWN"}
BY DEF Msgs, Ids
-----------------------------------------------------------------------------
(* Type correctness, in three parts *)

QueuesOK ==
  /\ mainq \in Seq(Msgs) /\ Len(mainq) <= QueueLen
  /\ bleq \in Seq({"ENTER", "EXIT"}) /\ Len(bleq) <= QueueLen
  /\ gq \in Seq({"HIGH", "LOW", "MOTION"}) /\ Len(gq) <= QueueLen

FlagsOK ==
  /\ lp \in BOOLEAN /\ hold_off \in BOOLEAN /\ lpTimer \in BOOLEAN /\ sw \in BOOLEAN
  /\ scan \in BOOLEAN /\ updating \in BOOLEAN /\ sensor \in BOOLEAN /\ informed \in BOOLEAN
  /\ shutdown_request \in BOOLEAN /\ pwroff \in BOOLEAN /\ off \in BOOLEAN
  /\ lost \in BOOLEAN /\ barred \in BOOLEAN

LteStates == {"off", "starting", "ready", "leaving", "cycling"}

ValuesOK ==
  /\ current \in AllModes /\ last \in AllModes \cup {"SHUTDOWN"} /\ saved \in AllModes
  /\ level \in Levels /\ lteTimer \in {"off", "once", "period"} /\ motion \in {"STATIC", "MOTION"}
  /\ scanBy \in {"mode", "hand", "command"} /\ lte \in LteStates
  /\ inputs \in Nat /\ restarts \in Nat

LEMMA TypeParts == TypeOK <=> QueuesOK /\ FlagsOK /\ ValuesOK
BY DEF TypeOK, QueuesOK, FlagsOK, ValuesOK, LteStates

LEMMA TypeInit == Init => TypeOK
<1> SUFFICES ASSUME Init PROVE TypeOK  OBVIOUS
<1>1. current \in AllModes /\ level \in Levels  BY ConstantsAssumption DEF Init
<1>2. SwitchMsg(current) \in Msgs  BY <1>1, SwitchType
<1>3. QueuesOK
  <2>1. mainq \in Seq(Msgs) /\ Len(mainq) = 1  BY <1>2 DEF Init
  <2> QED  BY <2>1, ConstantsAssumption DEF Init, QueuesOK
<1>4. FlagsOK
  <2>1. gsensor_is_required_mode(current) \in BOOLEAN  BY DEF gsensor_is_required_mode
  <2> QED  BY <2>1 DEF Init, FlagsOK
<1>5. ValuesOK  BY <1>1 DEF Init, ValuesOK, LteStates, AllModes
<1> QED  BY <1>3, <1>4, <1>5, TypeParts

\* entering a mode
LEMMA EnterModeType ==
  ASSUME TypeOK, NEW mode \in AllModes, NEW rest \in Seq(Msgs), Len(rest) < QueueLen,
         EnterMode(mode, rest)
  PROVE  /\ mainq' \in Seq(Msgs) /\ Len(mainq') <= QueueLen
         /\ gq' \in Seq({"HIGH", "LOW", "MOTION"}) /\ Len(gq') <= QueueLen
         /\ current' \in AllModes /\ last' \in AllModes /\ lteTimer' \in {"off", "once", "period"}
         /\ lte' \in LteStates
<1>1. Msg("RESET") \in Msgs  BY MsgType DEF Ids
<1>2. Len(rest) <= QueueLen  BY ConstantsAssumption
<1>3. Put(rest, Msg("RESET")) \in Seq(Msgs) /\ Len(Put(rest, Msg("RESET"))) <= QueueLen
  BY <1>1, <1>2, PutType
<1>4. mainq' \in Seq(Msgs) /\ Len(mainq') <= QueueLen  BY <1>2, <1>3 DEF EnterMode
<1>5. gq \in Seq({"HIGH", "LOW", "MOTION"}) /\ Len(gq) <= QueueLen  BY DEF TypeOK
<1>6. (IF gsensor_is_required_mode(mode) THEN "HIGH" ELSE "LOW") \in {"HIGH", "LOW", "MOTION"}
  OBVIOUS
<1>7. gq' \in Seq({"HIGH", "LOW", "MOTION"}) /\ Len(gq') <= QueueLen
  BY <1>5, <1>6, PutType DEF EnterMode
<1> QED  BY <1>4, <1>7 DEF EnterMode, Command, PowerOn, TypeOK, LteStates

LEMMA TypeNext == TypeOK /\ [Next]_vars => TypeOK'
<1> SUFFICES ASSUME TypeOK, [Next]_vars PROVE TypeOK'  OBVIOUS
<1> USE DEF work, lowpower, battery, scanning, gsensor, shutdown
<1>0. QueuesOK /\ FlagsOK /\ ValuesOK  BY TypeParts
<1>1. CASE OnSwitch
  <2>1. Receive("SWITCH")  BY <1>1 DEF OnSwitch
  <2>2. /\ Tail(mainq) \in Seq(Msgs) /\ Len(Tail(mainq)) < QueueLen /\ Head(mainq) \in Msgs
        /\ Head(mainq).id = "SWITCH" /\ Len(Tail(mainq)) = Len(mainq) - 1
    BY <2>1, ReceiveType
  <2> DEFINE mode == Head(mainq).mode
  <2>3. mode \in AllModes \cup {"SHUTDOWN"}  BY <2>2, SwitchMode
  <2>4. Len(Tail(mainq)) <= QueueLen  BY <2>2, ConstantsAssumption
  <2>5. FlagsOK'  BY <1>0, <1>1, ZenonT(60) DEF OnSwitch, LeaveByHand, FlagsOK, Full
  <2>5a. scanBy' \in {"mode", "hand", "command"}
    BY <1>0, <1>1 DEF OnSwitch, LeaveByHand, ValuesOK
  <2>6. CASE ~lp /\ last = mode
    BY <1>0, <1>1, <2>2, <2>4, <2>5, <2>5a, <2>6
    DEF OnSwitch, TypeOK, QueuesOK, FlagsOK, ValuesOK, LteStates
  <2>7. CASE (lp \/ last # mode) /\ mode # "SHUTDOWN"
    <3>1. EnterMode(mode, Tail(mainq)) /\ mode \in AllModes  BY <1>1, <2>3, <2>7 DEF OnSwitch
    <3>2. /\ mainq' \in Seq(Msgs) /\ Len(mainq') <= QueueLen
          /\ gq' \in Seq({"HIGH", "LOW", "MOTION"}) /\ Len(gq') <= QueueLen
          /\ current' \in AllModes /\ last' \in AllModes /\ lteTimer' \in {"off", "once", "period"}
          /\ lte' \in LteStates
      BY <2>2, <3>1, EnterModeType
    <3> QED
      BY <1>0, <1>1, <2>5, <2>5a, <3>2
      DEF OnSwitch, TypeOK, QueuesOK, FlagsOK, ValuesOK, LteStates
  <2>8. CASE (lp \/ last # mode) /\ mode = "SHUTDOWN"
    BY <1>0, <1>1, <2>2, <2>4, <2>5, <2>5a, <2>8
    DEF OnSwitch, TypeOK, QueuesOK, FlagsOK, ValuesOK, LteStates
  <2> QED  BY <2>6, <2>7, <2>8
<1>2. ASSUME Receive("EXIT") \/ Receive("CHECK"), lp, handle_lprunning_exit,
             UNCHANGED <<battery, gsensor, shutdown, off, inputs, restarts, barred>>
      PROVE  TypeOK'
  <2>1. Tail(mainq) \in Seq(Msgs) /\ Len(Tail(mainq)) < QueueLen  BY <1>2, ReceiveType
  <2>2. EnterMode(saved, Tail(mainq)) /\ saved \in AllModes
    BY <1>0, <1>2 DEF handle_lprunning_exit, ValuesOK, LteStates
  <2>3. /\ mainq' \in Seq(Msgs) /\ Len(mainq') <= QueueLen
        /\ gq' \in Seq({"HIGH", "LOW", "MOTION"}) /\ Len(gq') <= QueueLen
        /\ current' \in AllModes /\ last' \in AllModes /\ lteTimer' \in {"off", "once", "period"}
        /\ lte' \in LteStates
    BY <2>1, <2>2, EnterModeType
  <2>4. bleq' \in Seq({"ENTER", "EXIT"}) /\ Len(bleq') <= QueueLen
    BY <1>0, <1>2, PutType DEF handle_lprunning_exit, QueuesOK
  <2>5. FlagsOK'  BY <1>0, <1>2 DEF handle_lprunning_exit, FlagsOK, Full
  <2>6. ValuesOK'  BY <1>0, <1>2, <2>3 DEF handle_lprunning_exit, ValuesOK, LteStates
  <2> QED  BY <2>3, <2>4, <2>5, <2>6 DEF TypeOK, QueuesOK, FlagsOK, ValuesOK, LteStates
<1>3. ASSUME Receive("CHECK"), handle_lprunning_enter,
             UNCHANGED <<battery, gsensor, shutdown, off, inputs, restarts, barred>>
      PROVE  TypeOK'
  <2>1. Tail(mainq) \in Seq(Msgs) /\ Len(Tail(mainq)) <= QueueLen
    BY <1>3, ReceiveType, ConstantsAssumption
  <2>2. bleq' \in Seq({"ENTER", "EXIT"}) /\ Len(bleq') <= QueueLen
    BY <1>0, <1>3, PutType DEF handle_lprunning_enter, QueuesOK
  <2>3. gq' \in Seq({"HIGH", "LOW", "MOTION"}) /\ Len(gq') <= QueueLen
    BY <1>0, <1>3, PutType DEF handle_lprunning_enter, QueuesOK
  <2>4. FlagsOK'  BY <1>0, <1>3 DEF handle_lprunning_enter, FlagsOK, Full
  <2>5. ValuesOK'  BY <1>0, <1>3 DEF handle_lprunning_enter, ValuesOK, LteStates, Command, PowerOn
  <2> QED
    BY <1>3, <2>1, <2>2, <2>3, <2>4, <2>5
    DEF handle_lprunning_enter, TypeOK, QueuesOK, FlagsOK, ValuesOK, LteStates
<1>4. CASE OnExit
  <2>1. Tail(mainq) \in Seq(Msgs) /\ Len(Tail(mainq)) <= QueueLen
    BY <1>4, ReceiveType, ConstantsAssumption DEF OnExit
  <2>2. CASE ~lp
    <3>1. /\ mainq' = Tail(mainq) /\ UNCHANGED <<gq, work, lowpower, scanning, lte, informed, lost>>
          /\ UNCHANGED <<battery, gsensor, shutdown, off, inputs, restarts, barred>>
      BY <1>4, <2>2 DEF OnExit
    <3> QED  BY <1>0, <2>1, <3>1 DEF TypeOK, QueuesOK, FlagsOK, ValuesOK, LteStates
  <2>3. CASE lp  BY <1>2, <1>4, <2>3 DEF OnExit
  <2> QED  BY <1>0, <2>2, <2>3 DEF FlagsOK
<1>5. CASE OnCheck
  <2>1. Tail(mainq) \in Seq(Msgs) /\ Len(Tail(mainq)) <= QueueLen
    BY <1>5, ReceiveType, ConstantsAssumption DEF OnCheck
  <2>2. CASE handle_lprunning_enter  BY <1>3, <1>5, <2>2 DEF OnCheck
  <2>3. CASE lp /\ handle_lprunning_exit  BY <1>2, <1>5, <2>3 DEF OnCheck
  <2>4. CASE ~handle_lprunning_enter /\ ~(lp /\ handle_lprunning_exit)
    <3>1. /\ hold_off' = (hold_off /\ ~(sw /\ ~lp /\ level # "low")) /\ mainq' = Tail(mainq)
          /\ UNCHANGED <<gq, work, lp, saved, lpTimer, scanning, lte, informed, lost>>
          /\ UNCHANGED <<battery, gsensor, shutdown, off, inputs, restarts, barred>>
      BY <1>5, <2>4 DEF OnCheck
    <3> QED  BY <1>0, <2>1, <3>1 DEF TypeOK, QueuesOK, FlagsOK, ValuesOK, LteStates
  <2> QED  BY <2>2, <2>3, <2>4
<1>6. CASE OnSync \/ OnClearHoldOff \/ OnResetTimer
  <2>1. Tail(mainq) \in Seq(Msgs) /\ Len(Tail(mainq)) <= QueueLen
    BY <1>6, ReceiveType, ConstantsAssumption DEF OnSync, OnClearHoldOff, OnResetTimer
  <2>2. mainq' = Tail(mainq) /\ UNCHANGED <<bleq, gq>>
    BY <1>6 DEF OnSync, OnClearHoldOff, OnResetTimer
  <2>3. hold_off' \in BOOLEAN /\ barred' \in BOOLEAN
    BY <1>0, <1>6 DEF OnSync, OnClearHoldOff, OnResetTimer, FlagsOK
  <2>4. informed' \in BOOLEAN
    BY <1>0, <1>6 DEF OnSync, OnClearHoldOff, OnResetTimer, FlagsOK
  <2>5. UNCHANGED <<lp, lpTimer, sw, scan, updating, sensor, shutdown_request, pwroff, off, lost>>
    BY <1>6 DEF OnSync, OnClearHoldOff, OnResetTimer
  <2>6. ValuesOK'
    BY <1>0, <1>6 DEF OnSync, OnClearHoldOff, OnResetTimer, Command, PowerOn, ValuesOK, LteStates
  <2>7. FlagsOK'  BY <1>0, <2>3, <2>4, <2>5 DEF FlagsOK
  <2> QED  BY <1>0, <2>1, <2>2, <2>6, <2>7 DEF TypeOK, QueuesOK, FlagsOK, ValuesOK, LteStates
<1>7. CASE OnLongPress \/ OnShutdown
  <2>1. Tail(mainq) \in Seq(Msgs) /\ Len(Tail(mainq)) <= QueueLen
    <3>1. Receive("KEY_LONG") \/ Receive("SHUTDOWN")  BY <1>7 DEF OnLongPress, OnShutdown
    <3> QED  BY <3>1, ReceiveType, ConstantsAssumption
  <2>2. Msg("SHUTDOWN") \in Msgs  BY MsgType DEF Ids
  <2>3. SwitchMsg("SHUTDOWN") \in Msgs  BY SwitchType
  <2>4. mainq' \in Seq(Msgs) /\ Len(mainq') <= QueueLen
    BY <1>7, <2>1, <2>2, <2>3, PutType DEF OnLongPress, OnShutdown
  <2>5. UNCHANGED <<bleq, gq>>  BY <1>7 DEF OnLongPress, OnShutdown
  <2>6. FlagsOK'
    <3>1. shutdown_request' \in BOOLEAN /\ pwroff' \in BOOLEAN
      BY <1>0, <1>7 DEF OnLongPress, OnShutdown, FlagsOK
    <3>2. UNCHANGED <<lp, hold_off, lpTimer, sw, scan, updating, sensor, informed, off, lost,
                      barred>>
      BY <1>7 DEF OnLongPress, OnShutdown
    <3> QED  BY <1>0, <3>1, <3>2 DEF FlagsOK
  <2>7. ValuesOK'  BY <1>0, <1>7 DEF OnLongPress, OnShutdown, Command, PowerOn, ValuesOK, LteStates
  <2> QED  BY <1>0, <2>4, <2>5, <2>6, <2>7 DEF TypeOK, QueuesOK, FlagsOK, ValuesOK, LteStates
<1>8. CASE OnScanMode
  <2>1. bleq' \in Seq({"ENTER", "EXIT"}) /\ Len(bleq') <= QueueLen
    BY <1>0, <1>8, TailType, ConstantsAssumption DEF OnScanMode, QueuesOK
  <2> QED  BY <1>0, <1>8, <2>1 DEF OnScanMode, TypeOK, QueuesOK, FlagsOK, ValuesOK, LteStates
<1>9. CASE OnSensorMsg
  <2>1. gq' \in Seq({"HIGH", "LOW", "MOTION"}) /\ Len(gq') <= QueueLen
    BY <1>0, <1>9, TailType, ConstantsAssumption DEF OnSensorMsg, QueuesOK
  <2>2. FlagsOK'  BY <1>0, <1>9, ZenonT(60) DEF OnSensorMsg, FlagsOK
  <2>3. ValuesOK'
    BY <1>0, <1>9
    DEF OnSensorMsg, smart_mode_apply_lte_policy, Command, PowerOn, ValuesOK, LteStates
  <2>4. UNCHANGED <<mainq, bleq>>  BY <1>9 DEF OnSensorMsg
  <2> QED  BY <1>0, <2>1, <2>2, <2>3, <2>4 DEF TypeOK, QueuesOK, FlagsOK, ValuesOK, LteStates
<1>10. CASE MotionCheck
  <2>1. gq' \in Seq({"HIGH", "LOW", "MOTION"}) /\ Len(gq') <= QueueLen
    BY <1>0, <1>10, PutType DEF MotionCheck, QueuesOK
  <2> QED
    BY <1>0, <1>10, <2>1
    DEF MotionCheck, Input, Full, TypeOK, QueuesOK, FlagsOK, ValuesOK, LteStates
<1>11. CASE awaken_lte_timer_callback
  <2>1. mainq' \in Seq(Msgs) /\ Len(mainq') <= QueueLen /\ lost' \in BOOLEAN
    <3>1. Msg("RESET") \in Msgs  BY MsgType DEF Ids
    <3> QED  BY <1>0, <1>11, <3>1, PostType DEF awaken_lte_timer_callback, QueuesOK, FlagsOK
  <2>2. FlagsOK'  BY <1>0, <1>11, <2>1 DEF awaken_lte_timer_callback, FlagsOK
  <2>3. ValuesOK'
    BY <1>0, <1>11
    DEF awaken_lte_timer_callback, Command, PowerOn, ValuesOK, LteStates
  <2>4. UNCHANGED <<bleq, gq>>  BY <1>11 DEF awaken_lte_timer_callback
  <2> QED  BY <1>0, <2>1, <2>2, <2>3, <2>4 DEF TypeOK, QueuesOK, FlagsOK, ValuesOK, LteStates
<1>12. CASE lprunning_wakeup_timer_callback \/ BatteryChanges \/ my_lte_pwroff_handle
  <2>1. UNCHANGED <<mainq, bleq, gq>>
    BY <1>12 DEF lprunning_wakeup_timer_callback, BatteryChanges, my_lte_pwroff_handle
  <2>2. FlagsOK'
    <3>1. /\ UNCHANGED <<lp, hold_off, lpTimer, sw, scan, updating, sensor, informed>>
          /\ UNCHANGED <<shutdown_request, pwroff, off, lost>>
      BY <1>12 DEF lprunning_wakeup_timer_callback, BatteryChanges, my_lte_pwroff_handle
    <3>2. barred' \in BOOLEAN
      BY <1>0, <1>12
      DEF lprunning_wakeup_timer_callback, BatteryChanges, my_lte_pwroff_handle, FlagsOK
    <3> QED  BY <1>0, <3>1, <3>2 DEF FlagsOK
  <2>3. ValuesOK'
    BY <1>0, <1>12
    DEF lprunning_wakeup_timer_callback, BatteryChanges, my_lte_pwroff_handle, Input, PowerOn,
        ValuesOK, LteStates
  <2> QED  BY <1>0, <2>1, <2>2, <2>3 DEF TypeOK, QueuesOK, FlagsOK, ValuesOK, LteStates
<1>12a. CASE BtUpdata \/ BtUpdataApply
  <2>1. UNCHANGED <<mainq, bleq, gq>>  BY <1>12a DEF BtUpdata, BtUpdataApply
  <2>2. FlagsOK'
    <3>1. /\ UNCHANGED <<lp, hold_off, lpTimer, sw, sensor, informed>>
          /\ UNCHANGED <<shutdown_request, pwroff, off, lost, barred>>
      BY <1>12a DEF BtUpdata, BtUpdataApply
    <3>2. updating' \in BOOLEAN /\ (scan' = scan \/ scan' = TRUE)
      BY <1>12a DEF BtUpdata, BtUpdataApply
    <3> QED  BY <1>0, <3>1, <3>2, ZenonT(120) DEF FlagsOK
  <2>3. ValuesOK'  BY <1>0, <1>12a DEF BtUpdata, BtUpdataApply, Input, ValuesOK, LteStates
  <2> QED  BY <1>0, <2>1, <2>2, <2>3, TypeParts DEF QueuesOK, TypeOK, FlagsOK, ValuesOK, LteStates
<1>13. CASE BatteryMeasured \/ ModuleUp \/ my_lte_handle_power_off \/ LongPress
  <2>1. mainq' \in Seq(Msgs) /\ Len(mainq') <= QueueLen /\ lost' \in BOOLEAN
    <3>1. \A i \in {"CHECK", "SYNC", "SHUTDOWN", "KEY_LONG"} : Msg(i) \in Msgs
      BY MsgType DEF Ids
    <3> QED
      BY <1>0, <1>13, <3>1, PostType
      DEF BatteryMeasured, ModuleUp, my_lte_handle_power_off, LongPress, QueuesOK, FlagsOK
  <2>2. FlagsOK'
    BY <1>0, <1>13, <2>1, ZenonT(180)
    DEF BatteryMeasured, ModuleUp, my_lte_handle_power_off, LongPress, FlagsOK
  <2>3. ValuesOK'
    BY <1>0, <1>13
    DEF BatteryMeasured, ModuleUp, my_lte_handle_power_off, LongPress, Input, ValuesOK, LteStates
  <2>4. UNCHANGED <<bleq, gq>>
    BY <1>13
    DEF BatteryMeasured, ModuleUp, my_lte_handle_power_off, LongPress
  <2> QED  BY <1>0, <2>1, <2>2, <2>3, <2>4 DEF TypeOK, QueuesOK, FlagsOK, ValuesOK, LteStates
<1>14. CASE ModeSet
  <2>1. PICK m \in Modes : current' = (IF last # m THEN m ELSE current) /\ Post(SwitchMsg(m))
    BY <1>14 DEF ModeSet
  <2>2. m \in AllModes /\ SwitchMsg(m) \in Msgs  BY ConstantsAssumption, SwitchType
  <2>3. mainq' \in Seq(Msgs) /\ Len(mainq') <= QueueLen /\ lost' \in BOOLEAN
    BY <2>1, <2>2, PostType
  <2>4. FlagsOK'  BY <1>0, <1>14, <2>3 DEF ModeSet, FlagsOK
  <2>5. current' \in AllModes  BY <1>0, <2>1, <2>2 DEF ValuesOK, LteStates
  <2>6. ValuesOK'  BY <1>0, <1>14, <2>5 DEF ModeSet, Input, ValuesOK, LteStates
  <2>7. UNCHANGED <<bleq, gq>>  BY <1>14 DEF ModeSet
  <2> QED  BY <1>0, <2>3, <2>4, <2>6, <2>7 DEF TypeOK, QueuesOK, FlagsOK, ValuesOK, LteStates
<1>15. CASE ModeParams
  <2>1. mainq' \in Seq(Msgs) /\ Len(mainq') <= QueueLen /\ lost' \in BOOLEAN
    <3>1. Msg("RESET") \in Msgs  BY MsgType DEF Ids
    <3> QED  BY <1>0, <1>15, <3>1, PostType DEF ModeParams, QueuesOK, FlagsOK
  <2>2. FlagsOK'  BY <1>0, <1>15, <2>1 DEF ModeParams, FlagsOK
  <2>3. ValuesOK'
    BY <1>0, <1>15
    DEF ModeParams, Input, smart_mode_apply_lte_policy, Command, PowerOn, ValuesOK, LteStates
  <2>4. UNCHANGED <<bleq, gq>>  BY <1>15 DEF ModeParams
  <2> QED  BY <1>0, <2>1, <2>2, <2>3, <2>4 DEF TypeOK, QueuesOK, FlagsOK, ValuesOK, LteStates
<1>16. CASE LpSleep
  <2>1. Msg(IF sw' THEN "CLEAR" ELSE "EXIT") \in Msgs  BY MsgType DEF Ids
  <2>2. mainq' \in Seq(Msgs) /\ Len(mainq') <= QueueLen /\ lost' \in BOOLEAN
    BY <1>16, <2>1, PostType DEF LpSleep
  <2>3. FlagsOK'
    <3>1. barred' \in BOOLEAN /\ sw' \in BOOLEAN  BY <1>16 DEF LpSleep
    <3>2. UNCHANGED <<lp, hold_off, lpTimer, scan, updating, sensor, informed, shutdown_request,
                      pwroff, off>>
      BY <1>16 DEF LpSleep
    <3> QED  BY <1>0, <2>2, <3>1, <3>2 DEF FlagsOK
  <2>4. ValuesOK'
    <3>1. level' \in Levels  BY <1>0, <1>16 DEF LpSleep, ValuesOK, LteStates
    <3> QED  BY <1>0, <1>16, <3>1 DEF LpSleep, Input, ValuesOK, LteStates
  <2>5. UNCHANGED <<bleq, gq>>  BY <1>16 DEF LpSleep
  <2> QED  BY <1>0, <2>2, <2>3, <2>4, <2>5 DEF TypeOK, QueuesOK, FlagsOK, ValuesOK, LteStates
<1>17. CASE UNCHANGED vars
  BY <1>0, <1>17 DEF vars, TypeOK, QueuesOK, FlagsOK, ValuesOK, LteStates
<1> QED
  BY <1>1, <1>4, <1>5, <1>6, <1>7, <1>8, <1>9, <1>10, <1>11, <1>12, <1>12a, <1>13, <1>14, <1>15,
     <1>16,
     <1>17
  DEF Next, Main, Threads, Timers, Outside, User

\* Type correctness and the capacity of the three queues, for every instance.
THEOREM TypeCorrect == Spec => []TypeOK
<1> QED  BY TypeInit, TypeNext, PTL DEF Spec

-----------------------------------------------------------------------------
(* Leaving low-power running by hand *)

\* barred entails the hold-off that keeps battery checks from entering again
HoldInv == barred => ~lp /\ hold_off /\ level = "low"

LEMMA HoldInit == Init => HoldInv
BY DEF Init, HoldInv

LEMMA HoldNext == TypeOK /\ HoldInv /\ [Next]_vars => HoldInv'
<1> SUFFICES ASSUME TypeOK, HoldInv, [Next]_vars, barred' PROVE ~lp' /\ hold_off' /\ level' = "low"
  BY DEF HoldInv
<1> USE DEF work, lowpower, battery, scanning, gsensor, shutdown
<1>1. CASE OnSwitch
  <2>1. level' = level  BY <1>1 DEF OnSwitch
  <2>2. CASE lp
    <3>1. lp' = FALSE /\ hold_off' = TRUE /\ barred' = (level = "low")
      BY <1>1, <2>2 DEF OnSwitch, LeaveByHand
    <3> QED  BY <2>1, <3>1
  <2>3. CASE ~lp
    <3>1. UNCHANGED <<lp, hold_off, barred>>  BY <1>1, <2>3 DEF OnSwitch
    <3> QED  BY <2>1, <3>1 DEF HoldInv
  <2> QED  BY <2>2, <2>3
<1>2. CASE OnExit
  <2>1. UNCHANGED <<barred, hold_off, level>> /\ (lp' = FALSE \/ lp' = lp)
    BY <1>2 DEF OnExit, handle_lprunning_exit
  <2> QED  BY <2>1 DEF HoldInv
<1>3. CASE OnCheck
  <2>1. UNCHANGED <<barred, level>>  BY <1>3 DEF OnCheck
  <2>2. barred /\ ~lp /\ hold_off /\ level = "low"  BY <2>1 DEF HoldInv
  <2>3. UNCHANGED lp /\ hold_off' = (hold_off /\ ~(sw /\ ~lp /\ level # "low"))
    BY <1>3, <2>2 DEF OnCheck
  <2> QED  BY <2>1, <2>2, <2>3
<1>4. CASE OnClearHoldOff  BY <1>4 DEF OnClearHoldOff
<1>5. CASE BatteryChanges \/ LpSleep
  <2>1. UNCHANGED <<lp, hold_off>> /\ barred' = (barred /\ level' = "low")
    BY <1>5 DEF BatteryChanges, LpSleep
  <2> QED  BY <2>1 DEF HoldInv
<1>6. CASE \/ OnSync \/ OnResetTimer \/ OnLongPress \/ OnShutdown \/ Threads \/ Timers
           \/ ModuleUp \/ my_lte_handle_power_off \/ my_lte_pwroff_handle \/ ModeSet
           \/ ModeParams \/ BtUpdata \/ BtUpdataApply \/ LongPress
  <2>1. UNCHANGED <<barred, lp, hold_off, level>>
    BY <1>6
    DEF OnSync, OnResetTimer, OnLongPress, OnShutdown, Threads, OnScanMode, OnSensorMsg, Timers,
        MotionCheck, awaken_lte_timer_callback, lprunning_wakeup_timer_callback, BatteryMeasured,
        ModuleUp, my_lte_handle_power_off, my_lte_pwroff_handle, ModeSet, ModeParams, BtUpdata,
        BtUpdataApply, LongPress
  <2> QED  BY <2>1 DEF HoldInv
<1>7. CASE UNCHANGED vars
  <2>1. UNCHANGED <<barred, lp, hold_off, level>>  BY <1>7 DEF vars
  <2> QED  BY <2>1 DEF HoldInv
<1> QED
  BY <1>1, <1>2, <1>3, <1>4, <1>5, <1>6, <1>7 DEF Next, Main, Outside, User

\* No battery check, whenever it was posted, undoes the user's exit from low-power running
\* (s_lprunning_hold_off), for every instance.
THEOREM HandRespected == Spec => []HandOverrides
<1>1. HoldInv => HandOverrides  BY DEF HoldInv, HandOverrides
<1> QED  BY <1>1, TypeCorrect, HoldInit, HoldNext, PTL DEF Spec
-----------------------------------------------------------------------------
(* What the queues hold *)

Has(q, x) == \E k \in 1 .. Len(q) : q[k] = x
HasId(q, i) == \E k \in 1 .. Len(q) : q[k].id = i

LEMMA HasPut ==
  ASSUME NEW S, NEW q \in Seq(S), NEW m \in S, NEW x, Has(q, x)
  PROVE  Has(Put(q, m), x)
<1>1. CASE Full(q)  BY <1>1 DEF Put
<1>2. CASE ~Full(q)
  <2>1. /\ Len(Put(q, m)) = Len(q) + 1 /\ Len(q) \in Nat
        /\ \A i \in 1 .. Len(q) : Put(q, m)[i] = q[i]
    BY <1>2, PutStores
  <2> QED  BY <2>1 DEF Has
<1> QED  BY <1>1, <1>2

LEMMA HasIdPut ==
  ASSUME NEW S, NEW q \in Seq(S), NEW m \in S, NEW x, HasId(q, x)
  PROVE  HasId(Put(q, m), x)
<1>1. CASE Full(q)  BY <1>1 DEF Put
<1>2. CASE ~Full(q)
  <2>1. /\ Len(Put(q, m)) = Len(q) + 1 /\ Len(q) \in Nat
        /\ \A i \in 1 .. Len(q) : Put(q, m)[i] = q[i]
    BY <1>2, PutStores
  <2> QED  BY <2>1 DEF HasId
<1> QED  BY <1>1, <1>2

LEMMA HasNew ==
  ASSUME NEW S, NEW q \in Seq(S), NEW m \in S, ~Full(q)
  PROVE  Has(Put(q, m), m) /\ HasId(Put(q, m), m.id)
<1>1. Len(Put(q, m)) = Len(q) + 1 /\ Len(q) \in Nat /\ Put(q, m)[Len(q) + 1] = m  BY PutStores
<1> QED  BY <1>1 DEF Has, HasId

LEMMA HasTail ==
  ASSUME NEW S, NEW q \in Seq(S), q # <<>>, NEW x, Has(q, x), Head(q) # x
  PROVE  Has(Tail(q), x)
<1>1. /\ Len(Tail(q)) = Len(q) - 1 /\ Len(q) \in Nat \ {0} /\ Head(q) = q[1]
      /\ \A i \in 1 .. Len(Tail(q)) : Tail(q)[i] = q[i + 1]
  BY TailType
<1>2. PICK k \in 1 .. Len(q) : q[k] = x  BY DEF Has
<1>3. k - 1 \in 1 .. Len(Tail(q)) /\ (k - 1) + 1 = k  BY <1>1, <1>2
<1>4. Tail(q)[k - 1] = x  BY <1>1, <1>2, <1>3
<1> QED  BY <1>3, <1>4 DEF Has

LEMMA HasIdTail ==
  ASSUME NEW S, NEW q \in Seq(S), q # <<>>, NEW x, HasId(q, x), Head(q).id # x
  PROVE  HasId(Tail(q), x)
<1>1. /\ Len(Tail(q)) = Len(q) - 1 /\ Len(q) \in Nat \ {0} /\ Head(q) = q[1]
      /\ \A i \in 1 .. Len(Tail(q)) : Tail(q)[i] = q[i + 1]
  BY TailType
<1>2. PICK k \in 1 .. Len(q) : q[k].id = x  BY DEF HasId
<1>3. k - 1 \in 1 .. Len(Tail(q)) /\ (k - 1) + 1 = k  BY <1>1, <1>2
<1>4. Tail(q)[k - 1].id = x  BY <1>1, <1>2, <1>3
<1> QED  BY <1>3, <1>4 DEF HasId

\* the sensor, on iff on now, will be on iff target holds when q has been handled
SensorMsg(target) == IF target THEN "HIGH" ELSE "LOW"
Leads(q, on, target) ==
  \/ on = target /\ \A j \in 1 .. Len(q) : q[j] = "MOTION"
  \/ \E k \in 1 .. Len(q) : q[k] = SensorMsg(target) /\ \A j \in k + 1 .. Len(q) : q[j] = "MOTION"

SensorMsgs == {"HIGH", "LOW", "MOTION"}

LEMMA LeadsNew ==
  ASSUME NEW q \in Seq(SensorMsgs), NEW on, NEW target, ~Full(q)
  PROVE  Leads(Put(q, SensorMsg(target)), on, target)
<1> DEFINE p == Put(q, SensorMsg(target))
<1>1. SensorMsg(target) \in SensorMsgs  BY DEF SensorMsg, SensorMsgs
<1>2. Len(p) = Len(q) + 1 /\ Len(q) \in Nat /\ p[Len(q) + 1] = SensorMsg(target)
  BY <1>1, PutStores
<1> HIDE DEF p
<1>3. Len(p) \in 1 .. Len(p) /\ p[Len(p)] = SensorMsg(target) /\ Len(p) + 1 .. Len(p) = {}
  BY <1>2
<1>4. Leads(p, on, target)  BY <1>3 DEF Leads
<1> QED  BY <1>4 DEF p

LEMMA LeadsMotion ==
  ASSUME NEW q \in Seq(SensorMsgs), NEW on, NEW target, ~Full(q), Leads(q, on, target)
  PROVE  Leads(Put(q, "MOTION"), on, target)
<1> DEFINE p == Put(q, "MOTION")
<1>1. /\ Len(p) = Len(q) + 1 /\ Len(q) \in Nat /\ p[Len(q) + 1] = "MOTION"
      /\ \A i \in 1 .. Len(q) : p[i] = q[i]
  BY PutStores DEF SensorMsgs
<1> HIDE DEF p
<1>2. CASE on = target /\ \A j \in 1 .. Len(q) : q[j] = "MOTION"
  <2>1. \A j \in 1 .. Len(p) : p[j] = "MOTION"  BY <1>1, <1>2
  <2> QED  BY <1>2, <2>1 DEF Leads, p
<1>3. ASSUME NEW k \in 1 .. Len(q), q[k] = SensorMsg(target),
             \A j \in k + 1 .. Len(q) : q[j] = "MOTION"
      PROVE  Leads(Put(q, "MOTION"), on, target)
  <2>1. k \in 1 .. Len(p) /\ p[k] = SensorMsg(target)  BY <1>1, <1>3
  <2>2. \A j \in k + 1 .. Len(p) : p[j] = "MOTION"  BY <1>1, <1>3
  <2> QED  BY <2>1, <2>2 DEF Leads, p
<1> QED  BY <1>2, <1>3 DEF Leads

LEMMA LeadsTail ==
  ASSUME NEW q \in Seq(SensorMsgs), q # <<>>, NEW on, NEW target \in BOOLEAN, Leads(q, on, target),
         NEW after, Head(q) = "HIGH" => after = TRUE, Head(q) = "LOW" => after = FALSE,
         Head(q) = "MOTION" => after = on
  PROVE  Leads(Tail(q), after, target)
<1> DEFINE t == Tail(q)
<1>1. /\ Len(t) = Len(q) - 1 /\ Len(q) \in Nat \ {0} /\ Head(q) = q[1]
      /\ \A i \in 1 .. Len(t) : t[i] = q[i + 1]
  BY TailType
<1> HIDE DEF t
<1>2. CASE on = target /\ \A j \in 1 .. Len(q) : q[j] = "MOTION"
  <2>1. Head(q) = "MOTION"  BY <1>1, <1>2
  <2>2. \A j \in 1 .. Len(t) : t[j] = "MOTION"  BY <1>1, <1>2
  <2> QED  BY <1>2, <2>1, <2>2 DEF Leads, t
<1>3. ASSUME NEW k \in 1 .. Len(q), q[k] = SensorMsg(target),
             \A j \in k + 1 .. Len(q) : q[j] = "MOTION"
      PROVE  Leads(Tail(q), after, target)
  <2>1. CASE k = 1
    <3>1. Head(q) = SensorMsg(target)  BY <1>1, <1>3, <2>1
    <3>2. after = target  BY <3>1 DEF SensorMsg
    <3>3. \A j \in 1 .. Len(t) : t[j] = "MOTION"  BY <1>1, <1>3, <2>1
    <3> QED  BY <3>2, <3>3 DEF Leads, t
  <2>2. CASE k # 1
    <3>1. k - 1 \in 1 .. Len(t) /\ (k - 1) + 1 = k  BY <1>1, <2>2
    <3>2. t[k - 1] = SensorMsg(target)  BY <1>1, <1>3, <3>1
    <3>3. \A j \in (k - 1) + 1 .. Len(t) : t[j] = "MOTION"  BY <1>1, <1>3, <3>1
    <3> QED  BY <3>1, <3>2, <3>3 DEF Leads, t
  <2> QED  BY <2>1, <2>2
<1> QED  BY <1>2, <1>3 DEF Leads
-----------------------------------------------------------------------------
(* A settled device: what each queue still holds makes up for the difference *)

TimerInv == lpTimer = lp

\* a mode in force that is not the one set has its switch under way
ModeInv == ~off /\ ~lost /\ current # last => Has(mainq, SwitchMsg(current))

\* the scan is as what decided last wants it, or the last message makes it so
ScanTarget == scanBy = "command" \/ (scanBy = "mode" /\ ~lp)
ScanMsg(target) == IF target THEN "EXIT" ELSE "ENTER"
ScanLeads(q, on, target) == IF q = <<>> THEN on = target ELSE q[Len(q)] = ScanMsg(target)
ScanInv == ~lost => (scanBy = "hand" => ~lp) /\ ScanLeads(bleq, scan, ScanTarget)

\* the sensor is as the mode asks, or the last message makes it so
SensorInv ==
  ~off /\ ~lost /\ (lp \/ last # "SHUTDOWN") =>
    Leads(gq, sensor, ~lp /\ gsensor_is_required_mode(last))

\* a module that is up, or about to be switched off, in low-power running was told or will be
InformInv == ~lost /\ lp /\ Ready => informed \/ HasId(mainq, "SYNC")

SettledInv == TimerInv /\ ModeInv /\ ScanInv /\ SensorInv /\ InformInv

LEMMA SettledInit == Init => SettledInv
<1> SUFFICES ASSUME Init PROVE SettledInv  OBVIOUS
<1>1. TimerInv  BY DEF Init, TimerInv
<1>2. ModeInv
  <2>1. mainq = <<SwitchMsg(current)>>  BY DEF Init
  <2>2. Len(mainq) = 1 /\ mainq[1] = SwitchMsg(current)  BY <2>1
  <2> QED  BY <2>2 DEF ModeInv, Has
<1>3. ScanInv  BY DEF Init, ScanInv, ScanLeads, ScanTarget
<1>4. SensorInv  BY DEF Init, SensorInv
<1>5. InformInv  BY DEF Init, InformInv, Ready
<1> QED  BY <1>1, <1>2, <1>3, <1>4, <1>5 DEF SettledInv

\* the loss of a message is not undone
LEMMA Monotone == TypeOK /\ [Next]_vars /\ ~lost' => ~lost
<1> SUFFICES ASSUME TypeOK, [Next]_vars, ~lost' PROVE ~lost  OBVIOUS
<1> USE DEF work, lowpower, battery, scanning, gsensor, shutdown
<1>1. CASE OnSwitch \/ OnExit \/ OnCheck
  BY <1>1 DEF OnSwitch, OnExit, OnCheck, handle_lprunning_enter, handle_lprunning_exit
<1>2. CASE OnSync \/ OnClearHoldOff \/ OnResetTimer \/ OnLongPress \/ OnShutdown \/ Threads
  BY <1>2
  DEF OnSync, OnClearHoldOff, OnResetTimer, OnLongPress, OnShutdown, Threads, OnScanMode,
      OnSensorMsg
<1>3. CASE Timers
  BY <1>3
  DEF Timers, MotionCheck, awaken_lte_timer_callback, lprunning_wakeup_timer_callback,
      BatteryMeasured, Post
<1>4. CASE Outside \/ User
  BY <1>4
  DEF Outside, BatteryChanges, ModuleUp,
        my_lte_handle_power_off, my_lte_pwroff_handle, User, ModeSet, ModeParams, LpSleep, BtUpdata,
        BtUpdataApply, LongPress, Post
<1>5. CASE UNCHANGED vars  BY <1>5 DEF vars
<1> QED  BY <1>1, <1>2, <1>3, <1>4, <1>5 DEF Next, Main

LEMMA TimerNext == TypeOK /\ TimerInv /\ [Next]_vars => TimerInv'
<1> SUFFICES ASSUME TypeOK, TimerInv, [Next]_vars PROVE TimerInv'  OBVIOUS
<1> USE DEF work, lowpower, battery, scanning, gsensor, shutdown
<1>1. CASE OnSwitch \/ OnExit \/ OnCheck
  <2>1. \/ lp' = FALSE /\ lpTimer' = FALSE
        \/ lp' = TRUE /\ lpTimer' = TRUE
        \/ UNCHANGED <<lp, lpTimer>>
    BY <1>1
    DEF OnSwitch, LeaveByHand, OnExit, OnCheck, handle_lprunning_enter, handle_lprunning_exit
  <2>2. CASE lp' = FALSE /\ lpTimer' = FALSE  BY <2>2 DEF TimerInv
  <2>3. CASE lp' = TRUE /\ lpTimer' = TRUE  BY <2>3 DEF TimerInv
  <2>4. CASE UNCHANGED <<lp, lpTimer>>  BY <2>4 DEF TimerInv
  <2> QED  BY <2>1, <2>2, <2>3, <2>4
<1>2. CASE \/ OnSync \/ OnClearHoldOff \/ OnResetTimer \/ OnLongPress \/ OnShutdown \/ Threads
           \/ Timers \/ Outside \/ User \/ UNCHANGED vars
  <2>1. UNCHANGED <<lp, lpTimer>>
    BY <1>2
    DEF OnSync, OnClearHoldOff, OnResetTimer, OnLongPress, OnShutdown, Threads, OnScanMode,
        OnSensorMsg, Timers, MotionCheck, awaken_lte_timer_callback,
        lprunning_wakeup_timer_callback, BatteryMeasured, Outside, BatteryChanges, ModuleUp,
        my_lte_handle_power_off, my_lte_pwroff_handle, User, ModeSet, ModeParams, LpSleep, BtUpdata,
        BtUpdataApply, LongPress, vars
  <2> QED  BY <2>1 DEF TimerInv
<1> QED  BY <1>1, <1>2 DEF Next, Main

LEMMA ScanNew ==
  ASSUME NEW q \in Seq({"ENTER", "EXIT"}), NEW on, NEW target, ~Full(q)
  PROVE  ScanLeads(Put(q, ScanMsg(target)), on, target)
<1> DEFINE p == Put(q, ScanMsg(target))
<1>1. ScanMsg(target) \in {"ENTER", "EXIT"}  BY DEF ScanMsg
<1>2. Len(p) = Len(q) + 1 /\ Len(q) \in Nat /\ p[Len(q) + 1] = ScanMsg(target)
  BY <1>1, PutStores
<1> HIDE DEF p
<1>3. p # <<>> /\ p[Len(p)] = ScanMsg(target)  BY <1>2
<1>4. ScanLeads(p, on, target)  BY <1>3 DEF ScanLeads
<1> QED  BY <1>4 DEF p

LEMMA ScanNext == TypeOK /\ ScanInv /\ [Next]_vars => ScanInv'
<1> SUFFICES ASSUME TypeOK, ScanInv, [Next]_vars, ~lost'
             PROVE  (scanBy' = "hand" => ~lp') /\ ScanLeads(bleq', scan', ScanTarget')
  BY DEF ScanInv
<1> USE DEF work, lowpower, battery, scanning, gsensor, shutdown
<1>0. ~lost  BY Monotone
<1>a. bleq \in Seq({"ENTER", "EXIT"}) /\ lp \in BOOLEAN /\ scanBy \in {"mode", "hand", "command"}
  BY DEF TypeOK
<1>b. (scanBy = "hand" => ~lp) /\ ScanLeads(bleq, scan, ScanTarget)  BY <1>0 DEF ScanInv
<1>c. ASSUME UNCHANGED <<lp, bleq, scan, scanBy>>
      PROVE  (scanBy' = "hand" => ~lp') /\ ScanLeads(bleq', scan', ScanTarget')
  BY <1>b, <1>c DEF ScanTarget
<1>1. CASE OnSwitch
  <2>1. UNCHANGED <<bleq, scan>>  BY <1>1 DEF OnSwitch
  <2>2. CASE ~lp
    <3>1. UNCHANGED <<lp, scanBy>>  BY <1>1, <2>2 DEF OnSwitch
    <3> QED  BY <1>c, <2>1, <3>1
  <2>3. CASE lp
    <3>1. lp' = FALSE /\ scanBy' = IF scanBy = "mode" THEN "hand" ELSE scanBy
      BY <1>1, <2>3 DEF OnSwitch, LeaveByHand
    <3>2. ScanTarget' = ScanTarget  BY <1>a, <1>b, <2>3, <3>1 DEF ScanTarget
    <3> QED  BY <1>b, <2>1, <3>1, <3>2
  <2> QED  BY <1>a, <2>2, <2>3
<1>2. CASE handle_lprunning_exit
  <2>1. /\ bleq' = Put(bleq, "EXIT") /\ ~Full(bleq) /\ lp' = FALSE /\ scanBy' = "mode"
    BY <1>2 DEF handle_lprunning_exit
  <2>2. ScanTarget' = TRUE /\ ScanMsg(TRUE) = "EXIT"  BY <2>1 DEF ScanTarget, ScanMsg
  <2>3. ScanLeads(bleq', scan', TRUE)  BY <1>a, <2>1, <2>2, ScanNew
  <2> QED  BY <2>1, <2>2, <2>3
<1>3. CASE handle_lprunning_enter
  <2>1. /\ bleq' = Put(bleq, "ENTER") /\ ~Full(bleq) /\ lp' = TRUE /\ scanBy' = "mode"
    BY <1>3 DEF handle_lprunning_enter
  <2>2. ScanTarget' = FALSE /\ ScanMsg(FALSE) = "ENTER"  BY <2>1 DEF ScanTarget, ScanMsg
  <2>3. ScanLeads(bleq', scan', FALSE)  BY <1>a, <2>1, <2>2, ScanNew
  <2> QED  BY <2>1, <2>2, <2>3
<1>4. CASE (OnExit \/ OnCheck) /\ ~handle_lprunning_exit /\ ~handle_lprunning_enter
  <2>1. UNCHANGED <<lp, bleq, scan, scanBy>>  BY <1>4 DEF OnExit, OnCheck
  <2> QED  BY <1>c, <2>1
<1>5. CASE OnScanMode
  <2>1. /\ bleq # <<>> /\ bleq' = Tail(bleq) /\ scan' = (Head(bleq) = "EXIT")
        /\ UNCHANGED <<lp, scanBy>>
    BY <1>5 DEF OnScanMode
  <2>2. ScanTarget' = ScanTarget /\ ScanTarget \in BOOLEAN  BY <2>1 DEF ScanTarget
  <2>3. bleq[Len(bleq)] = ScanMsg(ScanTarget)  BY <1>b, <2>1 DEF ScanLeads
  <2>4. /\ Len(bleq') = Len(bleq) - 1 /\ Len(bleq) \in Nat \ {0} /\ Head(bleq) = bleq[1]
        /\ \A i \in 1 .. Len(bleq') : bleq'[i] = bleq[i + 1]
        /\ bleq' \in Seq({"ENTER", "EXIT"})
    BY <1>a, <2>1, TailType
  <2>5. CASE Len(bleq) = 1
    <3>1. Head(bleq) = ScanMsg(ScanTarget)  BY <2>3, <2>4, <2>5
    <3>2. scan' = ScanTarget  BY <2>1, <2>2, <3>1 DEF ScanMsg
    <3>3. bleq' = <<>>  BY <2>4, <2>5
    <3> QED  BY <1>b, <2>1, <2>2, <3>2, <3>3 DEF ScanLeads
  <2>6. CASE Len(bleq) # 1
    <3>1. Len(bleq') \in 1 .. Len(bleq') /\ Len(bleq') + 1 = Len(bleq)  BY <2>4, <2>6
    <3>2. bleq'[Len(bleq')] = ScanMsg(ScanTarget)  BY <2>3, <2>4, <3>1
    <3>3. bleq' # <<>>  BY <3>1
    <3> QED  BY <1>b, <2>1, <2>2, <3>2, <3>3 DEF ScanLeads
  <2> QED  BY <2>5, <2>6
<1>6. CASE BtUpdataApply
  <2>1. /\ UNCHANGED <<lp, bleq>> /\ scan' = TRUE
        /\ scanBy' = IF bleq = <<>> THEN "command" ELSE scanBy
    BY <1>6 DEF BtUpdataApply
  <2>2. CASE bleq = <<>>
    <3>1. ScanTarget' = TRUE  BY <2>1, <2>2 DEF ScanTarget
    <3> QED  BY <2>1, <2>2, <3>1 DEF ScanLeads
  <2>3. CASE bleq # <<>>
    <3>1. ScanTarget' = ScanTarget /\ scanBy' = scanBy  BY <2>1, <2>3 DEF ScanTarget
    <3> QED  BY <1>b, <2>1, <2>3, <3>1 DEF ScanLeads
  <2> QED  BY <2>2, <2>3
<1>7. CASE \/ OnSync \/ OnClearHoldOff \/ OnResetTimer \/ OnLongPress \/ OnShutdown
           \/ OnSensorMsg \/ Timers \/ Outside \/ ModeSet \/ ModeParams \/ LpSleep \/ BtUpdata
           \/ LongPress \/ UNCHANGED vars
  <2>1. UNCHANGED <<lp, bleq, scan, scanBy>>
    BY <1>7
    DEF OnSync, OnClearHoldOff, OnResetTimer, OnLongPress, OnShutdown, OnSensorMsg, Timers,
        MotionCheck, awaken_lte_timer_callback, lprunning_wakeup_timer_callback, BatteryMeasured,
        Outside, BatteryChanges, ModuleUp, my_lte_handle_power_off, my_lte_pwroff_handle, ModeSet,
        ModeParams, LpSleep, BtUpdata, LongPress, vars
  <2> QED  BY <1>c, <2>1
<1> QED  BY <1>1, <1>2, <1>3, <1>4, <1>5, <1>6, <1>7 DEF Next, Main, Threads, User

LEMMA SensorNext == TypeOK /\ SensorInv /\ [Next]_vars => SensorInv'
<1> SUFFICES ASSUME TypeOK, SensorInv, [Next]_vars, ~off', ~lost', lp' \/ last' # "SHUTDOWN"
             PROVE  Leads(gq', sensor', ~lp' /\ gsensor_is_required_mode(last'))
  BY DEF SensorInv
<1> USE DEF work, lowpower, battery, scanning, gsensor, shutdown
<1>0. ~lost  BY Monotone
<1>a. gq \in Seq(SensorMsgs)  BY DEF TypeOK, SensorMsgs
<1>b. ASSUME UNCHANGED <<lp, last, gq, sensor, off>>
      PROVE  Leads(gq', sensor', ~lp' /\ gsensor_is_required_mode(last'))
  <2>1. ~off /\ (lp \/ last # "SHUTDOWN")  BY <1>b
  <2>2. Leads(gq, sensor, ~lp /\ gsensor_is_required_mode(last))  BY <1>0, <2>1 DEF SensorInv
  <2> QED  BY <1>b, <2>2
<1>c. ASSUME NEW m, NEW rest, EnterMode(m, rest), lp' = FALSE, ~Full(gq)
      PROVE  Leads(gq', sensor', ~lp' /\ gsensor_is_required_mode(last'))
  <2>1. last' = m /\ gq' = Put(gq, SensorMsg(gsensor_is_required_mode(m)))
    BY <1>c DEF EnterMode, SensorMsg
  <2>2. Leads(gq', sensor', gsensor_is_required_mode(last'))  BY <1>a, <1>c, <2>1, LeadsNew
  <2>3. (~lp' /\ gsensor_is_required_mode(last')) = gsensor_is_required_mode(last')
    BY <1>c DEF gsensor_is_required_mode
  <2> QED  BY <2>2, <2>3
<1>1. CASE OnSwitch
  <2> DEFINE mode == Head(mainq).mode
  <2>1. CASE ~lp /\ last = mode
    <3>1. UNCHANGED <<lp, last, gq, sensor, off>>  BY <1>1, <2>1 DEF OnSwitch
    <3> QED  BY <1>b, <3>1
  <2>2. CASE (lp \/ last # mode) /\ mode # "SHUTDOWN"
    <3>1. EnterMode(mode, Tail(mainq)) /\ ~Full(gq)
      BY <1>1, <2>2 DEF OnSwitch
    <3>2. lp' = FALSE
      <4>1. lp \in BOOLEAN  BY DEF TypeOK
      <4> QED  BY <1>1, <4>1 DEF OnSwitch, LeaveByHand
    <3> QED  BY <1>c, <3>1, <3>2
  <2>3. CASE (lp \/ last # mode) /\ mode = "SHUTDOWN"
    BY <1>1, <2>3 DEF OnSwitch
  <2> QED  BY <2>1, <2>2, <2>3
<1>2. CASE handle_lprunning_exit
  <2>1. EnterMode(saved, Tail(mainq)) /\ lp' = FALSE /\ ~Full(gq)
    BY <1>2 DEF handle_lprunning_exit
  <2> QED  BY <1>c, <2>1
<1>3. CASE handle_lprunning_enter
  <2>1. lp' = TRUE /\ gq' = Put(gq, "LOW") /\ ~Full(gq)  BY <1>3 DEF handle_lprunning_enter
  <2>2. (~lp' /\ gsensor_is_required_mode(last')) = FALSE  BY <2>1
  <2>3. gq' = Put(gq, SensorMsg(FALSE))  BY <2>1 DEF SensorMsg
  <2>4. Leads(gq', sensor', FALSE)  BY <1>a, <2>1, <2>3, LeadsNew
  <2> QED  BY <2>2, <2>4
<1>4. CASE (OnExit \/ OnCheck) /\ ~handle_lprunning_exit /\ ~handle_lprunning_enter
  <2>1. UNCHANGED <<lp, last, gq, sensor, off>>  BY <1>4 DEF OnExit, OnCheck
  <2> QED  BY <1>b, <2>1
<1>5. CASE OnSensorMsg
  <2>1. UNCHANGED <<lp, last, off>> /\ gq # <<>> /\ gq' = Tail(gq)  BY <1>5 DEF OnSensorMsg
  <2> DEFINE target == ~lp /\ gsensor_is_required_mode(last)
  <2>2. target \in BOOLEAN  OBVIOUS
  <2>3. ~off /\ (lp \/ last # "SHUTDOWN")  BY <2>1
  <2>4. Leads(gq, sensor, target)  BY <1>0, <2>3 DEF SensorInv
  <2>5. Head(gq) = "HIGH" => sensor' = TRUE  BY <1>5 DEF OnSensorMsg
  <2>6. Head(gq) = "LOW" => sensor' = FALSE  BY <1>5 DEF OnSensorMsg
  <2>7. Head(gq) = "MOTION" => sensor' = sensor  BY <1>5 DEF OnSensorMsg
  <2> HIDE DEF target
  <2>8. Leads(Tail(gq), sensor', target)  BY <1>a, <2>1, <2>2, <2>4, <2>5, <2>6, <2>7, LeadsTail
  <2>9. target = (~lp' /\ gsensor_is_required_mode(last'))  BY <2>1 DEF target
  <2> QED  BY <2>1, <2>8, <2>9
<1>6. CASE MotionCheck
  <2>1. UNCHANGED <<lp, last, sensor, off>> /\ gq' = Put(gq, "MOTION") /\ ~Full(gq)
    BY <1>6 DEF MotionCheck
  <2>2. ~off /\ (lp \/ last # "SHUTDOWN")  BY <2>1
  <2>3. Leads(gq, sensor, ~lp /\ gsensor_is_required_mode(last))  BY <1>0, <2>2 DEF SensorInv
  <2>4. Leads(Put(gq, "MOTION"), sensor, ~lp /\ gsensor_is_required_mode(last))
    BY <1>a, <2>1, <2>3, LeadsMotion
  <2> QED  BY <2>1, <2>4
<1>7. CASE \/ OnSync \/ OnClearHoldOff \/ OnResetTimer \/ OnLongPress \/ OnShutdown
           \/ OnScanMode \/ awaken_lte_timer_callback \/ lprunning_wakeup_timer_callback
           \/ BatteryMeasured \/ Outside \/ User \/ UNCHANGED vars
  <2>1. UNCHANGED <<lp, last, gq, sensor, off>>
    BY <1>7
    DEF OnSync, OnClearHoldOff, OnResetTimer, OnLongPress, OnShutdown, OnScanMode,
        awaken_lte_timer_callback, lprunning_wakeup_timer_callback, BatteryMeasured, Outside,
        BatteryChanges, ModuleUp,
        my_lte_handle_power_off, my_lte_pwroff_handle, User, ModeSet, ModeParams, LpSleep, BtUpdata,
        BtUpdataApply, LongPress, vars
  <2> QED  BY <1>b, <2>1
<1> QED  BY <1>1, <1>2, <1>3, <1>4, <1>5, <1>6, <1>7 DEF Next, Main, Threads, Timers

LEMMA ModeNext == TypeOK /\ ModeInv /\ [Next]_vars => ModeInv'
<1> SUFFICES ASSUME TypeOK, ModeInv, [Next]_vars, ~off', ~lost', current' # last'
             PROVE  Has(mainq', SwitchMsg(current'))
  BY DEF ModeInv
<1> USE DEF work, lowpower, battery, scanning, gsensor, shutdown
<1>0. ~lost  BY Monotone
<1>a. mainq \in Seq(Msgs)  BY DEF TypeOK
<1>b. ASSUME UNCHANGED <<current, last, off>>  PROVE Has(mainq, SwitchMsg(current))
  <2>1. ~off /\ current # last  BY <1>b
  <2> QED  BY <1>0, <2>1 DEF ModeInv
<1>c. ASSUME NEW i, i # "SWITCH", Receive(i), UNCHANGED <<current, last, off>>
      PROVE  Has(Tail(mainq), SwitchMsg(current)) /\ Tail(mainq) \in Seq(Msgs)
  <2>1. Has(mainq, SwitchMsg(current))  BY <1>b, <1>c
  <2>2. mainq # <<>> /\ Tail(mainq) \in Seq(Msgs) /\ Head(mainq).id = i  BY <1>c, ReceiveType
  <2>3. Head(mainq) # SwitchMsg(current)  BY <1>c, <2>2 DEF SwitchMsg
  <2> QED  BY <1>a, <2>1, <2>2, <2>3, HasTail
<1>d. ASSUME NEW m \in Msgs, Post(m), UNCHANGED <<current, last, off>>
      PROVE  Has(mainq', SwitchMsg(current'))
  <2>1. Has(Put(mainq, m), SwitchMsg(current))  BY <1>a, <1>b, <1>d, HasPut
  <2> QED  BY <1>d, <2>1 DEF Post
<1>e. ASSUME UNCHANGED <<mainq, current, last, off>>  PROVE Has(mainq', SwitchMsg(current'))
  BY <1>b, <1>e
<1>1. CASE OnSwitch
  <2> DEFINE mode == Head(mainq).mode
  <2>1. CASE ~lp /\ last = mode
    <3>1. mainq' = Tail(mainq) /\ UNCHANGED <<current, last, off>>  BY <1>1, <2>1 DEF OnSwitch
    <3>2. Has(mainq, SwitchMsg(current)) /\ current # last  BY <1>b, <3>1
    <3>3. mainq # <<>>  BY <1>1 DEF OnSwitch, Receive
    <3>4. Head(mainq) # SwitchMsg(current)  BY <2>1, <3>2 DEF SwitchMsg
    <3>5. Has(Tail(mainq), SwitchMsg(current))  BY <1>a, <3>2, <3>3, <3>4, HasTail
    <3> QED  BY <3>1, <3>5
  <2>2. CASE (lp \/ last # mode) /\ mode # "SHUTDOWN"
    BY <1>1, <2>2 DEF OnSwitch, EnterMode
  <2>3. CASE (lp \/ last # mode) /\ mode = "SHUTDOWN"
    BY <1>1, <2>3 DEF OnSwitch
  <2> QED  BY <2>1, <2>2, <2>3
<1>2. CASE handle_lprunning_exit  BY <1>2 DEF handle_lprunning_exit, EnterMode
<1>3. CASE (OnExit \/ OnCheck) /\ ~handle_lprunning_exit
  <2>1. /\ mainq' = Tail(mainq) /\ UNCHANGED <<current, last, off>>
        /\ Receive("EXIT") \/ Receive("CHECK")
    BY <1>3 DEF OnExit, OnCheck, handle_lprunning_enter
  <2>2. Has(Tail(mainq), SwitchMsg(current))  BY <1>c, <2>1
  <2> QED  BY <2>1, <2>2
<1>4. CASE OnSync \/ OnClearHoldOff \/ OnResetTimer
  <2>1. /\ mainq' = Tail(mainq) /\ UNCHANGED <<current, last, off>>
        /\ Receive("SYNC") \/ Receive("CLEAR") \/ Receive("RESET")
    BY <1>4 DEF OnSync, OnClearHoldOff, OnResetTimer
  <2>2. Has(Tail(mainq), SwitchMsg(current))  BY <1>c, <2>1
  <2> QED  BY <2>1, <2>2
<1>5. CASE OnLongPress \/ OnShutdown
  <2>1. /\ \/ mainq' = Tail(mainq)
           \/ mainq' = Put(Tail(mainq), Msg("SHUTDOWN"))
           \/ mainq' = Put(Tail(mainq), SwitchMsg("SHUTDOWN"))
        /\ UNCHANGED <<current, last, off>>
        /\ Receive("KEY_LONG") \/ Receive("SHUTDOWN")
    BY <1>5 DEF OnLongPress, OnShutdown
  <2>2. Has(Tail(mainq), SwitchMsg(current)) /\ Tail(mainq) \in Seq(Msgs)  BY <1>c, <2>1
  <2>3. Msg("SHUTDOWN") \in Msgs  BY MsgType DEF Ids
  <2>4. SwitchMsg("SHUTDOWN") \in Msgs  BY SwitchType
  <2>5. /\ Has(Put(Tail(mainq), Msg("SHUTDOWN")), SwitchMsg(current))
        /\ Has(Put(Tail(mainq), SwitchMsg("SHUTDOWN")), SwitchMsg(current))
    BY <2>2, <2>3, <2>4, HasPut
  <2> QED  BY <2>1, <2>2, <2>5
<1>6. CASE ModeSet
  <2>1. PICK m \in Modes : current' = (IF last # m THEN m ELSE current) /\ Post(SwitchMsg(m))
    BY <1>6 DEF ModeSet
  <2>2. SwitchMsg(m) \in Msgs  BY ConstantsAssumption, SwitchType
  <2>3. CASE last # m
    <3>1. ~Full(mainq) /\ mainq' = Put(mainq, SwitchMsg(m))  BY <2>1 DEF Post
    <3>2. Has(mainq', SwitchMsg(m))  BY <1>a, <2>2, <3>1, HasNew
    <3> QED  BY <2>1, <2>3, <3>2
  <2>4. CASE last = m
    <3>1. UNCHANGED <<current, last, off>>  BY <1>6, <2>1, <2>4 DEF ModeSet
    <3> QED  BY <1>d, <2>1, <2>2, <3>1
  <2> QED  BY <2>3, <2>4
<1>7. CASE \/ awaken_lte_timer_callback \/ BatteryMeasured \/ ModuleUp \/ my_lte_handle_power_off
           \/ ModeParams \/ LongPress \/ LpSleep
  <2>1. \A i \in Ids : Msg(i) \in Msgs  BY MsgType
  <2>2. UNCHANGED <<current, last, off>>
    BY <1>7
    DEF awaken_lte_timer_callback, BatteryMeasured, ModuleUp, my_lte_handle_power_off, ModeParams,
        LongPress,
        LpSleep
  <2>3. (\E i \in Ids : Post(Msg(i))) \/ UNCHANGED mainq
    <3>1. CASE LpSleep
      <4>1. Post(Msg(IF sw' THEN "CLEAR" ELSE "EXIT"))  BY <3>1 DEF LpSleep
      <4>2. (IF sw' THEN "CLEAR" ELSE "EXIT") \in Ids  BY DEF Ids
      <4> QED  BY <4>1, <4>2
    <3>2. CASE ~LpSleep
      BY <1>7, <3>2
      DEF awaken_lte_timer_callback, BatteryMeasured, ModuleUp, my_lte_handle_power_off, ModeParams,
          LongPress, Ids
    <3> QED  BY <3>1, <3>2
  <2> QED  BY <1>d, <1>e, <2>1, <2>2, <2>3
<1>8. CASE \/ Threads \/ MotionCheck \/ lprunning_wakeup_timer_callback \/ BatteryChanges
           \/ my_lte_pwroff_handle \/ BtUpdata \/ BtUpdataApply \/ UNCHANGED vars
  <2>1. UNCHANGED <<mainq, current, last, off>>
    BY <1>8
    DEF Threads, OnScanMode, OnSensorMsg, MotionCheck, lprunning_wakeup_timer_callback,
        BatteryChanges, my_lte_pwroff_handle, BtUpdata, BtUpdataApply, vars
  <2> QED  BY <1>e, <2>1
<1> QED  BY <1>1, <1>2, <1>3, <1>4, <1>5, <1>6, <1>7, <1>8 DEF Next, Main, Timers, Outside, User

LEMMA InformNext == TypeOK /\ InformInv /\ [Next]_vars => InformInv'
<1> SUFFICES ASSUME TypeOK, InformInv, [Next]_vars, ~lost', lp', Ready'
             PROVE  informed' \/ HasId(mainq', "SYNC")
  BY DEF InformInv
<1> USE DEF work, lowpower, battery, scanning, gsensor, shutdown
<1>0. ~lost  BY Monotone
<1>a. mainq \in Seq(Msgs)  BY DEF TypeOK
<1>b. ASSUME Ready, UNCHANGED <<lp, informed>>  PROVE informed' \/ HasId(mainq, "SYNC")
  BY <1>0, <1>b DEF InformInv
<1>c. ASSUME NEW i, i # "SYNC", Receive(i), Ready, UNCHANGED <<lp, informed>>
      PROVE  /\ informed' \/ HasId(Tail(mainq), "SYNC")
             /\ Tail(mainq) \in Seq(Msgs)
  <2>1. mainq # <<>> /\ Tail(mainq) \in Seq(Msgs) /\ Head(mainq).id = i  BY <1>c, ReceiveType
  <2>2. CASE informed'  BY <2>1, <2>2
  <2>3. CASE ~informed'
    <3>1. HasId(mainq, "SYNC")  BY <1>b, <1>c, <2>3
    <3>2. HasId(Tail(mainq), "SYNC")  BY <1>a, <1>c, <2>1, <3>1, HasIdTail
    <3> QED  BY <2>1, <3>2
  <2> QED  BY <2>2, <2>3
<1>d. ASSUME NEW m \in Msgs, Post(m), Ready, UNCHANGED <<lp, informed>>
      PROVE  informed' \/ HasId(mainq', "SYNC")
  <2>1. HasId(mainq, "SYNC") => HasId(Put(mainq, m), "SYNC")  BY <1>a, HasIdPut
  <2> QED  BY <1>b, <1>d, <2>1 DEF Post
<1>e. ASSUME Ready, UNCHANGED <<mainq, lp, informed>>
      PROVE  informed' \/ HasId(mainq', "SYNC")
  BY <1>b, <1>e
<1>1. CASE OnSwitch
  <2>1. ~lp  BY <1>1 DEF OnSwitch, LeaveByHand
  <2>2. UNCHANGED lp  BY <1>1, <2>1 DEF OnSwitch
  <2> QED  BY <2>1, <2>2
<1>2. CASE OnExit
  <2>1. ~handle_lprunning_exit  BY DEF handle_lprunning_exit
  <2>2. Receive("EXIT") /\ mainq' = Tail(mainq) /\ UNCHANGED <<lp, informed, lte>>
    BY <1>2, <2>1 DEF OnExit
  <2> QED  BY <1>c, <2>2 DEF Ready
<1>3. CASE OnCheck
  <2>1. ~handle_lprunning_exit  BY DEF handle_lprunning_exit
  <2>2. CASE handle_lprunning_enter
    <3>1. informed' = TRUE  BY <2>2 DEF handle_lprunning_enter
    <3> QED  BY <3>1
  <2>3. CASE ~handle_lprunning_enter
    <3>1. Receive("CHECK") /\ mainq' = Tail(mainq) /\ UNCHANGED <<lp, informed, lte>>
      BY <1>3, <2>1, <2>3 DEF OnCheck
    <3> QED  BY <1>c, <3>1 DEF Ready
  <2> QED  BY <2>2, <2>3
<1>4. CASE OnSync
  <2>1. lp' = lp  BY <1>4 DEF OnSync
  <2>2. informed' = TRUE  BY <1>4, <2>1 DEF OnSync
  <2> QED  BY <2>2
<1>5. CASE OnClearHoldOff \/ OnResetTimer
  <2>1. /\ mainq' = Tail(mainq) /\ UNCHANGED <<lp, informed, lte>>
        /\ Receive("CLEAR") \/ Receive("RESET")
    BY <1>5 DEF OnClearHoldOff, OnResetTimer
  <2> QED  BY <1>c, <2>1 DEF Ready
<1>6. CASE OnLongPress \/ OnShutdown
  <2>1. /\ \/ mainq' = Tail(mainq)
           \/ mainq' = Put(Tail(mainq), Msg("SHUTDOWN"))
           \/ mainq' = Put(Tail(mainq), SwitchMsg("SHUTDOWN"))
        /\ UNCHANGED <<lp, informed>>
        /\ Receive("KEY_LONG") \/ Receive("SHUTDOWN")
    BY <1>6 DEF OnLongPress, OnShutdown
  <2>2. Ready  BY <1>6 DEF OnLongPress, OnShutdown, Command, PowerOn, Ready
  <2>3. /\ informed' \/ HasId(Tail(mainq), "SYNC")
        /\ Tail(mainq) \in Seq(Msgs)
    BY <1>c, <2>1, <2>2
  <2>4. Msg("SHUTDOWN") \in Msgs  BY MsgType DEF Ids
  <2>5. SwitchMsg("SHUTDOWN") \in Msgs  BY SwitchType
  <2>6. HasId(Tail(mainq), "SYNC") =>
          /\ HasId(Put(Tail(mainq), Msg("SHUTDOWN")), "SYNC")
          /\ HasId(Put(Tail(mainq), SwitchMsg("SHUTDOWN")), "SYNC")
    BY <2>3, <2>4, <2>5, HasIdPut
  <2> QED  BY <2>1, <2>3, <2>6
<1>7. CASE ModuleUp
  <2>1. Msg("SYNC") \in Msgs  BY MsgType DEF Ids
  <2>2. mainq' = Put(mainq, Msg("SYNC")) /\ ~Full(mainq)  BY <1>7 DEF ModuleUp, Post
  <2>3. HasId(mainq', Msg("SYNC").id)  BY <1>a, <2>1, <2>2, HasNew
  <2>4. Msg("SYNC").id = "SYNC"  BY DEF Msg
  <2> QED  BY <2>3, <2>4
<1>8. CASE my_lte_handle_power_off \/ my_lte_pwroff_handle
  <2>1. Msg("SHUTDOWN") \in Msgs  BY MsgType DEF Ids
  <2>2. Ready /\ UNCHANGED <<lp, informed>>
    BY <1>8 DEF my_lte_handle_power_off, my_lte_pwroff_handle, Ready
  <2>3. Post(Msg("SHUTDOWN")) \/ UNCHANGED mainq
    BY <1>8 DEF my_lte_handle_power_off, my_lte_pwroff_handle
  <2> QED  BY <1>d, <1>e, <2>1, <2>2, <2>3
<1>9. CASE ModeSet
  <2>1. PICK m \in Modes : Post(SwitchMsg(m))  BY <1>9 DEF ModeSet
  <2>2. SwitchMsg(m) \in Msgs  BY ConstantsAssumption, SwitchType
  <2>3. UNCHANGED <<lp, informed, lte>>  BY <1>9 DEF ModeSet
  <2> QED  BY <1>d, <2>1, <2>2, <2>3 DEF Ready
<1>10. CASE awaken_lte_timer_callback \/ BatteryMeasured \/ ModeParams \/ LongPress \/ LpSleep
  <2>1. \A i \in Ids : Msg(i) \in Msgs  BY MsgType
  <2>2. UNCHANGED <<lp, informed>>
    BY <1>10 DEF awaken_lte_timer_callback, BatteryMeasured, ModeParams, LongPress, LpSleep
  <2>3. Ready
    BY <1>10
    DEF awaken_lte_timer_callback, BatteryMeasured, ModeParams, LongPress, LpSleep, Command,
        PowerOn, Ready,
        smart_mode_apply_lte_policy
  <2>4. (\E i \in Ids : Post(Msg(i))) \/ UNCHANGED mainq
    <3>1. CASE LpSleep
      <4>1. Post(Msg(IF sw' THEN "CLEAR" ELSE "EXIT"))  BY <3>1 DEF LpSleep
      <4>2. (IF sw' THEN "CLEAR" ELSE "EXIT") \in Ids  BY DEF Ids
      <4> QED  BY <4>1, <4>2
    <3>2. CASE ~LpSleep
      BY <1>10, <3>2 DEF awaken_lte_timer_callback, BatteryMeasured, ModeParams, LongPress, Ids
    <3> QED  BY <3>1, <3>2
  <2> QED  BY <1>d, <1>e, <2>1, <2>2, <2>3, <2>4
<1>11. CASE \/ Threads \/ MotionCheck \/ lprunning_wakeup_timer_callback \/ BatteryChanges
            \/ BtUpdata \/ BtUpdataApply \/ UNCHANGED vars
  <2>1. UNCHANGED <<mainq, lp, informed>>
    BY <1>11
    DEF Threads, OnScanMode, OnSensorMsg, MotionCheck, lprunning_wakeup_timer_callback,
        BatteryChanges, BtUpdata, BtUpdataApply, vars
  <2>2. Ready
    BY <1>11
    DEF Threads, OnScanMode, OnSensorMsg, MotionCheck, lprunning_wakeup_timer_callback,
        BatteryChanges, BtUpdata, BtUpdataApply, vars, Command, PowerOn, Ready,
        smart_mode_apply_lte_policy
  <2> QED  BY <1>e, <2>1, <2>2
<1> QED
  BY <1>1, <1>2, <1>3, <1>4, <1>5, <1>6, <1>7, <1>8, <1>9, <1>10, <1>11
  DEF Next, Main, Timers, Outside, User

LEMMA SettledNext == TypeOK /\ SettledInv /\ [Next]_vars => SettledInv'
BY TimerNext, ModeNext, ScanNext, SensorNext, InformNext DEF SettledInv

\* Whatever order the messages of the three queues took, a device that lost none and has
\* handled all does what its mode says (switch_work_mode_internal, handle_lprunning_enter and
\* handle_lprunning_exit), and scans exactly outside low-power running, but for the two cases
\* that SettledAgrees excepts, for every instance.
THEOREM SettledCorrect == Spec => []SettledAgrees
<1>1. TypeOK /\ SettledInv => SettledAgrees
  <2> SUFFICES ASSUME TypeOK, SettledInv, Settled
               PROVE  /\ last = current /\ lpTimer = lp
                      /\ sensor = (~lp /\ gsensor_is_required_mode(current))
                      /\ scanBy = "mode" => scan = ~lp
                      /\ scanBy = "hand" => ~scan /\ ~lp
                      /\ scanBy = "command" => scan
                      /\ lp /\ lte = "ready" => informed
    BY DEF SettledAgrees
  <2>1. Len(mainq) = 0 /\ Len(gq) = 0 /\ bleq = <<>> /\ ~off /\ ~lost  BY DEF Settled
  <2>2. last = current
    <3>1. ~Has(mainq, SwitchMsg(current))  BY <2>1 DEF Has
    <3> QED  BY <2>1, <3>1 DEF SettledInv, ModeInv
  <2>3. lpTimer = lp  BY DEF SettledInv, TimerInv
  <2>4. sensor = (~lp /\ gsensor_is_required_mode(current))
    <3>1. last # "SHUTDOWN"  BY <2>2 DEF TypeOK, AllModes
    <3>2. Leads(gq, sensor, ~lp /\ gsensor_is_required_mode(current))
      BY <2>1, <2>2, <3>1 DEF SettledInv, SensorInv
    <3> QED  BY <2>1, <3>2 DEF Leads
  <2>5. /\ scanBy = "mode" => scan = ~lp
        /\ scanBy = "hand" => ~scan /\ ~lp
        /\ scanBy = "command" => scan
    <3>1. scan = ScanTarget /\ (scanBy = "hand" => ~lp)
      BY <2>1 DEF SettledInv, ScanInv, ScanLeads
    <3>2. lp \in BOOLEAN /\ scan \in BOOLEAN  BY DEF TypeOK
    <3> QED  BY <3>1, <3>2 DEF ScanTarget
  <2>6. ASSUME lp, lte = "ready" PROVE informed
    <3>1. ~HasId(mainq, "SYNC")  BY <2>1 DEF HasId
    <3> QED  BY <2>1, <2>6, <3>1 DEF SettledInv, InformInv, Ready
  <2> QED  BY <2>2, <2>3, <2>4, <2>5, <2>6
<1> QED  BY <1>1, TypeCorrect, SettledInit, SettledNext, PTL DEF Spec

=============================================================================
