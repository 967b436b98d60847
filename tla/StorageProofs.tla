--------------------------- MODULE StorageProofs ----------------------------
(***************************************************************************)
(* Proofs about Storage, for any weekdays, entries, day masks and dates:   *)
(* the types, what a restart finds, and that the three stores of a save    *)
(* are one step of AlarmTable for everyone who reads the store after a     *)
(* restart.                                                                *)
(***************************************************************************)
EXTENDS Storage, TLAPS

(* setAlarmsDefault fills the tables. *)
LEMMA DefaultsTyped == Defaults \in Tables
  BY StorageAssumption DEF Defaults, Table!Defaults, Tables, Directions, Table!Directions

(* What saveAlarmValues makes of the tables are tables again. *)
LEMMA EditedTyped ==
  ASSUME alarms \in Tables, NEW d \in Directions, NEW days \in SUBSET WeekDays,
         NEW e \in Entries
  PROVE  Edited(d, days, e) \in Tables
  BY DEF Edited, Tables

(* moveMotor hands back an error code if it was called with one. *)
LEMMA OutcomeTyped ==
  ASSUME NEW pos \in Goals, NEW f \in ERROR_CODE, NEW o \in Outcomes(pos, f)
  PROVE  o.error \in ERROR_CODE
  <1>1. \A p : Cleared(p, f) \in ERROR_CODE
    BY DEF Cleared, ERROR_CODE
  <1>2. TimerErrors \subseteq ERROR_CODE
    BY DEF TimerErrors, ERROR_CODE
  <1> QED
    BY <1>1, <1>2 DEF Outcomes, Reached, Interrupted, TimedOut

(* One store of a memory that is well typed, and of one table of alarms. *)
LEMMA PutTyped ==
  ASSUME TypeOK, NEW here, NEW m \in Memory, NEW there \in {"off", "running"} \cup Storing,
         put(here, m, there)
  PROVE  TypeOK'
  BY DEF TypeOK, put, ram

LEMMA TableTyped ==
  ASSUME TypeOK, NEW d \in Directions
  PROVE  putTable(d) \in Memory
  BY DEF TypeOK, putTable, Memory, Tables

(* Every step keeps the types. *)
LEMMA TypeStep == TypeOK /\ [Next]_vars => TypeOK'
<1> SUFFICES ASSUME TypeOK, [Next]_vars PROVE TypeOK'
  OBVIOUS
<1>d. /\ "MODESET_OPENING" \in Directions /\ "MODESET_CLOSING" \in Directions
  BY DEF Directions, Table!Directions
<1>0. CASE UNCHANGED vars
  BY <1>0 DEF TypeOK, vars, ram
<1>1. CASE readValuesFromFlash
  BY <1>1, DefaultsTyped, StorageAssumption
  DEF TypeOK, readValuesFromFlash, readAlarms, readLastMove, readError, Memory,
      Storing, ERROR_CODE
<1>2. CASE storeDefaults
  BY <1>2, <1>d, PutTyped, TableTyped DEF storeDefaults, Storing
<1>3. ASSUME NEW d \in Directions, NEW days \in DayMasks, NEW e \in Entries,
             saveAlarmValues(d, days, e)
      PROVE  TypeOK'
  <2>1. Edited(d, days, e) \in Tables
    BY EditedTyped, StorageAssumption DEF TypeOK
  <2> QED
    BY <1>3, <2>1 DEF TypeOK, saveAlarmValues, Storing
<1>4. CASE storeAlarms
  <2>1. [memory EXCEPT !.init_alarm = TRUE] \in Memory
    BY DEF TypeOK, Memory
  <2> QED
    BY <1>4, <2>1, <1>d, PutTyped, TableTyped DEF storeAlarms, Storing
<1>5. CASE finishWizard
  BY <1>5 DEF TypeOK, finishWizard, Memory, Storing
<1>6. CASE storeNoError
  <2>1. [memory EXCEPT !.error = "NO_ERROR"] \in Memory
    BY DEF TypeOK, Memory, ERROR_CODE
  <2> QED
    BY <1>6, <2>1, PutTyped DEF storeNoError, Storing
<1>7. ASSUME NEW pos \in Goals, NEW t \in Times, NEW o \in Outcomes(pos, errorFlag),
             moveMotor(o, t)
      PROVE  TypeOK'
  <2>1. o.error \in ERROR_CODE
    BY OutcomeTyped DEF TypeOK
  <2> QED
    BY <1>7, <2>1 DEF TypeOK, moveMotor, Storing
<1>8. CASE storeMove
  <2>1. /\ [memory EXCEPT !.lastMove = lastMove] \in Memory
        /\ [memory EXCEPT !.init_last_move = TRUE] \in Memory
        /\ memory \in Memory
    BY DEF TypeOK, Memory
  <2> QED
    BY <1>8, <2>1, PutTyped DEF storeMove, Storing
<1>9. ASSUME NEW e \in ERROR_CODE, wrongFlag(e) PROVE TypeOK'
  BY <1>9 DEF TypeOK, wrongFlag, Storing
<1>10. ASSUME NEW stuck \in BOOLEAN, statusabfrage(stuck) PROVE TypeOK'
  <2>1. errorFlag' \in ERROR_CODE
    BY <1>10 DEF TypeOK, statusabfrage, ERROR_CODE
  <2> QED
    BY <1>10, <2>1 DEF TypeOK, statusabfrage, Memory, Storing
<1>11. CASE errorKey
  BY <1>11 DEF TypeOK, errorKey, Memory, ERROR_CODE
<1>12. CASE setNextAlarm
  BY <1>12 DEF TypeOK, setNextAlarm, Memory
<1>13. CASE Off
  BY <1>13, DefaultsTyped, StorageAssumption DEF TypeOK, Off, RamLost, ERROR_CODE
<1> QED
  BY <1>0, <1>1, <1>2, <1>3, <1>4, <1>5, <1>6, <1>7, <1>8, <1>9, <1>10, <1>11,
     <1>12, <1>13 DEF Next, Settings, Errors

(* A new device has the types too. *)
LEMMA TypeInit == Init => TypeOK
<1> SUFFICES ASSUME Init PROVE TypeOK
  OBVIOUS
<1>1. "NO_ERROR" \in ERROR_CODE
  BY DEF ERROR_CODE
<1>2. memory \in Memory
  BY <1>1, DefaultsTyped, StorageAssumption DEF Init, Memory
<1>3. /\ alarms \in Tables /\ lastMove \in Times /\ errorFlag \in ERROR_CODE
      /\ pc \in {"off", "running"} \cup Storing
  BY <1>1, DefaultsTyped, StorageAssumption DEF Init
<1>4. /\ F_init_NOX \in BOOLEAN /\ F_init_last_move \in BOOLEAN
      /\ F_init_flag \in BOOLEAN
  BY DEF Init
<1> QED
  BY <1>2, <1>3, <1>4 DEF TypeOK

(* TypeOK holds whatever the weekdays, entries and dates are: the store and *)
(* the globals of main.cpp keep their types through every failure.          *)
THEOREM StorageTypes == Spec => []TypeOK
<1>1. Init => TypeOK
  BY TypeInit
<1>2. TypeOK /\ [Next]_vars => TypeOK'
  BY TypeStep
<1> QED
  BY <1>1, <1>2, PTL DEF Spec
-----------------------------------------------------------------------------
(***************************************************************************)
(* The alarms.  Between two saves the store and the globals agree.  During *)
(* a save the globals are one change ahead of what a restart would find,   *)
(* and each table that was stored is that of the globals.                  *)
(***************************************************************************)
Saving == {"save open", "save close", "save init"}

Ahead ==
  \E d \in Directions, days \in SUBSET WeekDays, e \in Entries :
    alarms = Durable!Changed(readAlarms(memory), d, days, e)

AlarmInv ==
  /\ pc \notin Saving \cup {"off"} => alarms = readAlarms(memory)
  /\ pc \in {"default open", "default close"} => ~memory.init_alarm
  /\ pc \in Saving => Ahead
  /\ pc \in {"save close", "save init"} =>
       memory.alarms["MODESET_OPENING"] = alarms["MODESET_OPENING"]
  /\ pc = "save init" =>
       memory.alarms["MODESET_CLOSING"] = alarms["MODESET_CLOSING"]

(* Tables are equal if they agree in both directions. *)
LEMMA TablesEqual ==
  ASSUME NEW a \in Tables, NEW b \in Tables,
         a["MODESET_OPENING"] = b["MODESET_OPENING"],
         a["MODESET_CLOSING"] = b["MODESET_CLOSING"]
  PROVE  a = b
  BY DEF Tables, Directions, Table!Directions

(* A restart reads tables. *)
LEMMA ReadTyped == TypeOK => readAlarms(memory) \in Tables
  BY DefaultsTyped DEF TypeOK, readAlarms, Memory

(* A change for no day at all changes nothing. *)
LEMMA NoChange ==
  ASSUME NEW t \in Tables, NEW d \in Directions, NEW e
  PROVE  Durable!Changed(t, d, {}, e) = t
  BY DEF Durable!Changed, Tables

(* A change in one direction leaves the other direction alone. *)
LEMMA ChangedOther ==
  ASSUME NEW t \in Tables, NEW d \in Directions, NEW days, NEW e,
         NEW x \in Directions, x # d
  PROVE  Durable!Changed(t, d, days, e)[x] = t[x]
  BY DEF Durable!Changed, Tables

(* A step that leaves the stored and the loaded tables alone, and does not  *)
(* go on with a save, keeps the invariant.                                  *)
LEMMA AlarmsQuiet ==
  ASSUME AlarmInv, pc \notin Saving \cup {"off"},
         pc' \notin Saving \cup {"default open", "default close"},
         UNCHANGED alarms, memory'.alarms = memory.alarms,
         memory'.init_alarm = memory.init_alarm
  PROVE  AlarmInv' /\ readAlarms(memory)' = readAlarms(memory)
  BY DEF AlarmInv, readAlarms, Saving

(* The store is read as a step of AlarmTable. *)
DurableStep == [Durable!Next]_(readAlarms(memory))

(* Every step keeps AlarmInv, and seen through a restart it is a step of    *)
(* AlarmTable or none.                                                      *)
LEMMA AlarmStep ==
  TypeOK /\ AlarmInv /\ [Next]_vars => AlarmInv' /\ DurableStep
<1> SUFFICES ASSUME TypeOK, AlarmInv, [Next]_vars PROVE AlarmInv' /\ DurableStep
  OBVIOUS
<1> DEFINE O == "MODESET_OPENING"
           C == "MODESET_CLOSING"
           R == readAlarms(memory)
<1>t. TypeOK' /\ R \in Tables /\ R' \in Tables /\ alarms \in Tables /\ alarms' \in Tables
  <2>1. TypeOK'
    BY TypeStep
  <2>2. TypeOK' => R' \in Tables
    BY DefaultsTyped DEF TypeOK, readAlarms, Memory
  <2> QED
    BY <2>1, <2>2, ReadTyped DEF TypeOK
<1>d. O \in Directions /\ C \in Directions /\ Directions = {O, C}
  BY DEF Directions, Table!Directions
<1>n. Durable!Directions = Directions
  BY DEF Directions, Table!Directions, Durable!Directions
<1>0. CASE UNCHANGED vars
  BY <1>0 DEF AlarmInv, vars, ram, DurableStep, readAlarms, Ahead
<1>1. CASE readValuesFromFlash
  BY <1>1 DEF readValuesFromFlash, AlarmInv, readAlarms, DurableStep, Saving
<1>2. CASE storeDefaults
  <2>1. /\ ~memory.init_alarm /\ ~memory'.init_alarm
        /\ UNCHANGED alarms /\ alarms = R
        /\ pc' \in {"default close", "running"}
    BY <1>2, <1>t DEF storeDefaults, put, ram, AlarmInv, Saving, putTable, TypeOK, Memory
  <2> QED
    BY <2>1 DEF AlarmInv, readAlarms, DurableStep, Saving
<1>3. ASSUME NEW d \in Directions, NEW days \in DayMasks, NEW e \in Entries,
             saveAlarmValues(d, days, e)
      PROVE  AlarmInv' /\ DurableStep
  <2>1. UNCHANGED memory /\ pc' = "save open" /\ alarms = R /\ R' = R
    BY <1>3 DEF saveAlarmValues, AlarmInv, readAlarms, Saving
  <2>2. alarms' = Durable!Changed(R', d, days, e)
    BY <1>3, <2>1 DEF saveAlarmValues, Edited, Durable!Changed
  <2>3. Ahead'
    BY <2>2, StorageAssumption DEF Ahead
  <2> QED
    BY <2>1, <2>3 DEF AlarmInv, DurableStep, Saving
<1>4. CASE storeAlarms
  <2>1. UNCHANGED alarms
    BY <1>4 DEF storeAlarms, put, ram
  <2>2. CASE put("save open", putTable(O), "save close")
    <3>1. /\ memory'.alarms = [memory.alarms EXCEPT ![O] = alarms[O]]
          /\ memory'.init_alarm = memory.init_alarm
          /\ pc = "save open" /\ pc' = "save close"
      BY <2>2 DEF put, putTable, TypeOK, Memory
    <3>2. PICK d \in Directions, days \in SUBSET WeekDays, e \in Entries :
               alarms = Durable!Changed(R, d, days, e)
      BY <3>1 DEF AlarmInv, Saving, Ahead
    <3>3. memory.alarms \in Tables /\ memory'.alarms[O] = alarms'[O]
      BY <3>1, <2>1, <1>d DEF TypeOK, Memory, Tables
    <3>4. CASE ~memory.init_alarm
      <4>1. R' = R
        BY <3>1, <3>4 DEF readAlarms
      <4>2. Ahead'
        BY <4>1, <3>2, <2>1 DEF Ahead
      <4> QED
        BY <3>1, <3>3, <4>1, <4>2 DEF AlarmInv, DurableStep, Saving
    <3>5. CASE memory.init_alarm /\ d = O
      <4>1. R = memory.alarms /\ R' = memory'.alarms
        BY <3>1, <3>5 DEF readAlarms
      <4>2. alarms[C] = R[C]
        BY <3>2, <3>5, <1>d, <1>t, ChangedOther
      <4>3. R'[C] = R[C]
        BY <4>1, <3>1, <1>d, <3>3 DEF Tables
      <4>4. R' = alarms
        BY <4>1, <4>2, <4>3, <3>3, <2>1, <1>t, TablesEqual
      <4>5. Durable!Next
        BY <4>4, <3>2, <1>n DEF Durable!Next, Durable!Save
      <4>6. alarms' = Durable!Changed(R', d, {}, e)
        BY <4>4, <2>1, <1>t, NoChange
      <4>7. Ahead'
        BY <4>6 DEF Ahead
      <4> QED
        BY <3>1, <3>3, <4>5, <4>7 DEF AlarmInv, DurableStep, Saving
    <3>6. CASE memory.init_alarm /\ d # O
      <4>1. R = memory.alarms /\ R' = memory'.alarms
        BY <3>1, <3>6 DEF readAlarms
      <4>2. alarms[O] = R[O]
        BY <3>2, <3>6, <1>d, <1>t, ChangedOther
      <4>3. R' = R
        BY <4>1, <4>2, <3>1, <3>3 DEF Tables
      <4>4. Ahead'
        BY <4>3, <3>2, <2>1 DEF Ahead
      <4> QED
        BY <3>1, <3>3, <4>3, <4>4 DEF AlarmInv, DurableStep, Saving
    <3> QED
      BY <3>4, <3>5, <3>6
  <2>3. CASE put("save close", putTable(C), "save init")
    <3>1. /\ memory'.alarms = [memory.alarms EXCEPT ![C] = alarms[C]]
          /\ memory'.init_alarm = memory.init_alarm
          /\ pc = "save close" /\ pc' = "save init"
      BY <2>3 DEF put, putTable, TypeOK, Memory
    <3>2. PICK d \in Directions, days \in SUBSET WeekDays, e \in Entries :
               alarms = Durable!Changed(R, d, days, e)
      BY <3>1 DEF AlarmInv, Saving, Ahead
    <3>3. memory'.alarms = alarms
      <4>1. memory.alarms[O] = alarms[O]
        BY <3>1 DEF AlarmInv
      <4>2. memory.alarms \in Tables /\ memory'.alarms \in Tables
        BY <1>t DEF TypeOK, Memory
      <4>3. memory'.alarms[O] = alarms[O] /\ memory'.alarms[C] = alarms[C]
        BY <3>1, <4>1, <4>2, <1>d DEF Tables
      <4> QED
        BY <4>2, <4>3, <1>t, TablesEqual
    <3>4. CASE ~memory.init_alarm
      <4>1. R' = R
        BY <3>1, <3>4 DEF readAlarms
      <4>2. Ahead'
        BY <4>1, <3>2, <2>1 DEF Ahead
      <4> QED
        BY <3>1, <3>3, <4>1, <4>2, <2>1 DEF AlarmInv, DurableStep, Saving
    <3>5. CASE memory.init_alarm
      <4>1. R' = alarms
        BY <3>1, <3>3, <3>5 DEF readAlarms
      <4>2. Durable!Next
        BY <4>1, <3>2, <1>n DEF Durable!Next, Durable!Save
      <4>3. alarms' = Durable!Changed(R', d, {}, e)
        BY <4>1, <2>1, <1>t, NoChange
      <4>4. Ahead'
        BY <4>3 DEF Ahead
      <4> QED
        BY <3>1, <3>3, <4>2, <4>4, <2>1 DEF AlarmInv, DurableStep, Saving
    <3> QED
      BY <3>4, <3>5
  <2>4. CASE put("save init", [memory EXCEPT !.init_alarm = TRUE], "error")
    <3>1. /\ memory'.alarms = memory.alarms /\ memory'.init_alarm = TRUE
          /\ pc = "save init" /\ pc' = "error"
      BY <2>4 DEF put, TypeOK, Memory
    <3>2. memory.alarms = alarms
      <4>1. memory.alarms \in Tables
        BY DEF TypeOK, Memory
      <4> QED
        BY <3>1, <4>1, <1>t, TablesEqual DEF AlarmInv
    <3>3. R' = alarms
      BY <3>1, <3>2 DEF readAlarms
    <3>4. Durable!Next
      BY <3>1, <3>3, <1>n DEF AlarmInv, Saving, Ahead, Durable!Next, Durable!Save
    <3> QED
      BY <3>1, <3>3, <3>4, <2>1 DEF AlarmInv, DurableStep, Saving
  <2> QED
    BY <1>4, <2>2, <2>3, <2>4 DEF storeAlarms
<1>5. CASE finishWizard \/ storeNoError
  BY <1>5, AlarmsQuiet
  DEF finishWizard, storeNoError, put, ram, TypeOK, Memory, DurableStep, Saving
<1>6. ASSUME NEW pos \in Goals, NEW t \in Times, NEW o \in Outcomes(pos, errorFlag),
             moveMotor(o, t)
      PROVE  AlarmInv' /\ DurableStep
  BY <1>6, AlarmsQuiet DEF moveMotor, DurableStep, Saving
<1>7. CASE storeMove
  BY <1>7, AlarmsQuiet DEF storeMove, put, ram, TypeOK, Memory, DurableStep, Saving
<1>8. ASSUME NEW e \in ERROR_CODE, wrongFlag(e) PROVE AlarmInv' /\ DurableStep
  BY <1>8, AlarmsQuiet DEF wrongFlag, DurableStep, Saving
<1>9. ASSUME NEW stuck \in BOOLEAN, statusabfrage(stuck)
      PROVE  AlarmInv' /\ DurableStep
  BY <1>9, AlarmsQuiet DEF statusabfrage, TypeOK, Memory, DurableStep, Saving
<1>10. CASE errorKey \/ setNextAlarm
  BY <1>10, AlarmsQuiet DEF errorKey, setNextAlarm, TypeOK, Memory, DurableStep, Saving
<1>11. CASE Off
  BY <1>11 DEF Off, AlarmInv, readAlarms, DurableStep, Saving
<1> QED
  BY <1>0, <1>1, <1>2, <1>3, <1>4, <1>5, <1>6, <1>7, <1>8, <1>9, <1>10, <1>11
  DEF Next, Settings, Errors

(* AlarmsAreAtomic: for someone who looks at the store through a restart,   *)
(* the three stores of saveAlarmValues are one step, wherever the supply    *)
(* fails.                                                                   *)
THEOREM SavesAreAtomic == Spec => AlarmsAreAtomic
<1>1. Init => TypeOK /\ AlarmInv /\ Durable!Init
  BY TypeInit
  DEF Init, AlarmInv, readAlarms, Durable!Init, Saving, Defaults, Table!Defaults,
      Table!Directions, Durable!Defaults, Durable!Directions
<1>2. TypeOK /\ AlarmInv /\ [Next]_vars => TypeOK' /\ AlarmInv' /\ DurableStep
  BY TypeStep, AlarmStep
<1> QED
  BY <1>1, <1>2, PTL DEF Spec, AlarmsAreAtomic, Durable!Spec, DurableStep

(* AlarmsAgree: while nothing is being stored, the alarms in use are those  *)
(* a restart would load.                                                    *)
THEOREM SavedAlarmsAreKept == Spec => []AlarmsAgree
<1>1. Init => TypeOK /\ AlarmInv
  BY TypeInit DEF Init, AlarmInv, Saving
<1>2. TypeOK /\ AlarmInv /\ [Next]_vars => TypeOK' /\ AlarmInv'
  BY TypeStep, AlarmStep
<1>3. AlarmInv => AlarmsAgree
  BY DEF AlarmInv, AlarmsAgree, Saving
<1> QED
  BY <1>1, <1>2, <1>3, PTL DEF Spec
-----------------------------------------------------------------------------
(***************************************************************************)
(* The last move and the error code.                                       *)
(***************************************************************************)
MoveInv ==
  /\ pc \notin {"off", "last move", "init_last_move"} => readLastMove(memory) = lastMove
  /\ pc = "init_last_move" => memory.lastMove = lastMove
  /\ pc # "off" /\ F_init_last_move => memory.init_last_move

(* A step that does not touch the last move keeps the invariant. *)
LEMMA MoveQuiet ==
  ASSUME MoveInv, pc \notin {"off", "last move", "init_last_move"},
         pc' \notin {"last move", "init_last_move"},
         UNCHANGED <<lastMove, F_init_last_move>>,
         memory'.lastMove = memory.lastMove,
         memory'.init_last_move = memory.init_last_move
  PROVE  MoveInv'
  BY DEF MoveInv, readLastMove

(* Every step keeps MoveInv: the date is stored before the flag that makes  *)
(* it visible, and the flag is never taken back.                            *)
LEMMA MoveStep == TypeOK /\ MoveInv /\ [Next]_vars => MoveInv'
<1> SUFFICES ASSUME TypeOK, MoveInv, [Next]_vars PROVE MoveInv'
  OBVIOUS
<1>0. CASE UNCHANGED vars
  BY <1>0 DEF MoveInv, readLastMove, vars, ram
<1>1. CASE readValuesFromFlash
  BY <1>1 DEF MoveInv, readLastMove, readValuesFromFlash
<1>2. CASE storeDefaults
  BY <1>2, MoveQuiet DEF storeDefaults, put, ram, putTable, TypeOK, Memory
<1>3. ASSUME NEW d \in Directions, NEW days \in DayMasks, NEW e \in Entries,
             saveAlarmValues(d, days, e)
      PROVE  MoveInv'
  BY <1>3, MoveQuiet DEF saveAlarmValues
<1>4. CASE storeAlarms
  BY <1>4, MoveQuiet DEF storeAlarms, put, ram, putTable, TypeOK, Memory
<1>5. CASE finishWizard \/ storeNoError
  BY <1>5, MoveQuiet DEF finishWizard, storeNoError, put, ram, TypeOK, Memory
<1>6. ASSUME NEW pos \in Goals, NEW t \in Times, NEW o \in Outcomes(pos, errorFlag),
             moveMotor(o, t)
      PROVE  MoveInv'
  BY <1>6 DEF MoveInv, moveMotor
<1>7. CASE storeMove
  <2>1. CASE put("last move", [memory EXCEPT !.lastMove = lastMove], "init_last_move")
    <3>1. /\ memory'.lastMove = lastMove' /\ pc' = "init_last_move"
          /\ memory'.init_last_move = memory.init_last_move
          /\ UNCHANGED F_init_last_move /\ pc # "off"
      BY <2>1 DEF put, ram, TypeOK, Memory
    <3> QED
      BY <3>1 DEF MoveInv
  <2>2. CASE put("init_last_move",
                 IF F_init_last_move THEN memory
                                     ELSE [memory EXCEPT !.init_last_move = TRUE],
                 "error")
    <3>1. /\ memory.lastMove = lastMove /\ UNCHANGED lastMove /\ pc' = "error"
          /\ F_init_last_move => memory.init_last_move
      BY <2>2 DEF put, ram, MoveInv
    <3>2. memory'.init_last_move /\ memory'.lastMove = memory.lastMove
      BY <2>2, <3>1 DEF put, TypeOK, Memory
    <3> QED
      BY <3>1, <3>2 DEF MoveInv, readLastMove
  <2> QED
    BY <1>7, <2>1, <2>2 DEF storeMove
<1>8. ASSUME NEW e \in ERROR_CODE, wrongFlag(e) PROVE MoveInv'
  BY <1>8, MoveQuiet DEF wrongFlag
<1>9. ASSUME NEW stuck \in BOOLEAN, statusabfrage(stuck) PROVE MoveInv'
  BY <1>9, MoveQuiet DEF statusabfrage, TypeOK, Memory
<1>10. CASE errorKey \/ setNextAlarm
  BY <1>10, MoveQuiet DEF errorKey, setNextAlarm, TypeOK, Memory
<1>11. CASE Off
  BY <1>11 DEF MoveInv, Off
<1> QED
  BY <1>0, <1>1, <1>2, <1>3, <1>4, <1>5, <1>6, <1>7, <1>8, <1>9, <1>10, <1>11
  DEF Next, Settings, Errors

(* LastMoveAgrees: a restart counts the pause between moves from the same   *)
(* move as the running device does.                                         *)
THEOREM LastMoveIsKept == Spec => []LastMoveAgrees
<1>1. Init => TypeOK /\ MoveInv
  BY TypeInit DEF Init, MoveInv
<1>2. TypeOK /\ MoveInv /\ [Next]_vars => TypeOK' /\ MoveInv'
  BY TypeStep, MoveStep
<1>3. MoveInv => LastMoveAgrees
  BY DEF MoveInv, LastMoveAgrees
<1> QED
  BY <1>1, <1>2, <1>3, PTL DEF Spec

(* After the wizard the stored error is the current one, except where the   *)
(* code has changed errorFlag and statusabfrage has not stored it yet.      *)
ErrorInv ==
  /\ pc # "off" => F_init_NOX = memory.init_NOX
  /\ pc \in {"running", "init_flag", "default open", "default close"} /\ F_init_NOX =>
       memory.error = errorFlag

(* A step that does not touch the error code keeps the invariant. *)
LEMMA ErrorQuiet ==
  ASSUME ErrorInv, pc \in {"running", "init_flag", "default open", "default close"},
         UNCHANGED <<errorFlag, F_init_NOX>>,
         memory'.error = memory.error, memory'.init_NOX = memory.init_NOX
  PROVE  ErrorInv'
  BY DEF ErrorInv

(* Every step keeps ErrorInv. *)
LEMMA ErrorStep == TypeOK /\ ErrorInv /\ [Next]_vars => ErrorInv'
<1> SUFFICES ASSUME TypeOK, ErrorInv, [Next]_vars PROVE ErrorInv'
  OBVIOUS
<1> USE DEF ErrorInv
<1>0. CASE UNCHANGED vars
  BY <1>0 DEF vars, ram
<1>1. CASE readValuesFromFlash
  BY <1>1 DEF readValuesFromFlash, readError
<1>2. CASE storeDefaults
  BY <1>2, ErrorQuiet DEF storeDefaults, put, ram, putTable, TypeOK, Memory
<1>3. ASSUME NEW d \in Directions, NEW days \in DayMasks, NEW e \in Entries,
             saveAlarmValues(d, days, e)
      PROVE  ErrorInv'
  BY <1>3 DEF saveAlarmValues
<1>4. CASE storeAlarms
  BY <1>4 DEF storeAlarms, put, ram, putTable, TypeOK, Memory
<1>5. CASE finishWizard \/ storeNoError
  BY <1>5 DEF finishWizard, storeNoError, put, ram, TypeOK, Memory
<1>6. ASSUME NEW pos \in Goals, NEW t \in Times, NEW o \in Outcomes(pos, errorFlag),
             moveMotor(o, t)
      PROVE  ErrorInv'
  BY <1>6 DEF moveMotor
<1>7. CASE storeMove
  BY <1>7 DEF storeMove, put, ram, TypeOK, Memory
<1>8. ASSUME NEW e \in ERROR_CODE, wrongFlag(e) PROVE ErrorInv'
  BY <1>8 DEF wrongFlag
<1>9. ASSUME NEW stuck \in BOOLEAN, statusabfrage(stuck) PROVE ErrorInv'
  BY <1>9 DEF statusabfrage, TypeOK, Memory
<1>10. CASE errorKey
  BY <1>10 DEF errorKey, TypeOK, Memory
<1>11. CASE setNextAlarm
  BY <1>11, ErrorQuiet DEF setNextAlarm, TypeOK, Memory
<1>12. CASE Off
  BY <1>12 DEF Off
<1> QED
  BY <1>0, <1>1, <1>2, <1>3, <1>4, <1>5, <1>6, <1>7, <1>8, <1>9, <1>10, <1>11,
     <1>12
  DEF Next, Settings, Errors

(* ErrorAgrees: a restart neither loses the error that is shown nor brings  *)
(* back one that a key or a successful move has taken away.                 *)
THEOREM ErrorIsKept == Spec => []ErrorAgrees
<1>1. Init => TypeOK /\ ErrorInv
  BY TypeInit DEF Init, ErrorInv
<1>2. TypeOK /\ ErrorInv /\ [Next]_vars => TypeOK' /\ ErrorInv'
  BY TypeStep, ErrorStep
<1>3. ErrorInv => ErrorAgrees
  BY DEF ErrorInv, ErrorAgrees, readError
<1> QED
  BY <1>1, <1>2, <1>3, PTL DEF Spec
=============================================================================
