----------------------------- MODULE SmartGuardian -----------------------------
(***************************************************************************)
(* SmartGuardian finds out which controller of the chip drives which fan,  *)
(* calibrates the fans it can control, several at a time, and saves their  *)
(* settings.  The next launch and, after a restart of the machine, the     *)
(* SmartGuardianHelper write the saved settings to the chip again.         *)
(*                                                                         *)
(* A control register is below 128 for a fixed duty cycle and 128 plus the *)
(* number of a temperature sensor for automatic control.  Of the registers *)
(* of a controller only this one is modelled here; FanSettings has others. *)
(* While the calibration panel is open nothing else in the window can be   *)
(* used, and the application does not quit; it may still be killed.        *)
(***************************************************************************)
EXTENDS FiniteSetsExt, Integers

CONSTANTS Names,          \* the numbers of the fans, by FNum
          Controllers,    \* the controllers, by the number in their keys
          NoController,   \* drives a fan that turns as it likes
          Gain,           \* rpm of each fan per unit of the duty cycle
          Levels,         \* duty cycles that calibrateFan goes through, of 0 .. 127
          Sources,        \* temperature sensors
          MaxStops        \* bound: how often the application or machine stops

MAXRPM_TO_DIFFER == 100

Top == 127

ASSUME GuardianAssumption ==
  /\ Controllers # {} /\ IsFiniteSet(Controllers) /\ Controllers = 0 .. Cardinality(Controllers) - 1
  /\ Names = 0 .. Cardinality(Names) - 1 /\ Names \subseteq Controllers
  /\ NoController \notin Controllers
  /\ {0, Top} \subseteq Levels /\ Levels \subseteq 0..Top
  /\ Sources \subseteq 0..3
  /\ Gain \in [Names -> Nat] /\ \A f \in Names : Gain[f] * Top > MAXRPM_TO_DIFFER
  /\ MaxStops \in Nat

VARIABLES
  pwmControl,       \* the control register of each controller
  biosControl,      \* what the BIOS sets it to
  wiring,           \* the controller that drives each fan
  app,              \* what the application is doing
  fanObjects,       \* its sgFan objects
  search,           \* findControllers
  calibration,      \* calibrateFan of each fan
  Configuration,    \* the saved settings of each fan
  helperDue,        \* the helper has not yet run after the machine started
  stops,            \* how often the application or the machine has stopped
  killedAmid,       \* history: killed during a calibration since the start
  unsaved           \* history: the registers have changed after the settings
                    \* were saved or written

guardianVars == <<pwmControl, biosControl, wiring, app, fanObjects, search, calibration,
                  Configuration, helperDue, stops, killedAmid, unsaved>>

chipStays == UNCHANGED <<biosControl, wiring>>

Automatic(r) == r >= 128

NoSettings == [control |-> NoController, value |-> 0, Controlable |-> FALSE]

(* initWithFanId: until findControllers has run, a fan and its controller  *)
(* are supposed to have the same number.                                   *)
NewFan(f) == [control |-> f, Controlable |-> FALSE, upward |-> [l \in {} |-> 0]]

NoSearch == [i |-> 0, step |-> "zero", original |-> 0, prev |-> [f \in Names |-> 0]]

NoCalibration == [step |-> "none", level |-> 0, was |-> 0]
--------------------------------------------------------------------------------
GuardianInit ==
  /\ biosControl \in [Controllers -> {Top \div 2} \cup {128 + s : s \in Sources}]
  /\ pwmControl = biosControl
  /\ wiring \in [Names -> Controllers \cup {NoController}]
  /\ app = "off" /\ fanObjects = [f \in Names |-> NewFan(f)]
  /\ search = NoSearch /\ calibration = [f \in Names |-> NoCalibration]
  /\ Configuration = [f \in Names |-> NoSettings]
  /\ helperDue = TRUE /\ stops = 0 /\ killedAmid = FALSE /\ unsaved = FALSE

(* The speeds that a fan can have: automatic control lets it drift. *)
Speeds(f) ==
  IF wiring[f] = NoController THEN {900}
  ELSE LET r == pwmControl[wiring[f]]
       IN IF Automatic(r) THEN {1000, 1000 + MAXRPM_TO_DIFFER} ELSE {Gain[f] * r}

Readings == {r \in [Names -> UNION {Speeds(f) : f \in Names}] : \A f \in Names : r[f] \in Speeds(f)}

HasSettings == \E f \in Names : Configuration[f] # NoSettings

(* initWithKeys of all fans: what has been saved is written. *)
WriteSettings ==
  /\ pwmControl' = [c \in Controllers |->
       IF \E f \in Names : Configuration[f].control = c
       THEN Configuration[CHOOSE f \in Names : Configuration[f].control = c].value
       ELSE pwmControl[c]]
  /\ unsaved' = FALSE

Launch ==
  /\ app = "off"
  /\ IF HasSettings
     THEN /\ app' = "ready"
          /\ WriteSettings
          /\ fanObjects' = [f \in Names |->
               [NewFan(f) EXCEPT !.control = Configuration[f].control,
                                 !.Controlable = Configuration[f].Controlable]]
     ELSE /\ app' = "asking" /\ fanObjects' = [f \in Names |-> NewFan(f)]
          /\ UNCHANGED <<pwmControl, unsaved>>
  /\ chipStays /\ UNCHANGED <<search, calibration, Configuration, helperDue, stops, killedAmid>>

HelperRuns ==
  /\ helperDue
  /\ helperDue' = FALSE
  /\ IF HasSettings THEN WriteSettings ELSE UNCHANGED <<pwmControl, unsaved>>
  /\ chipStays /\ UNCHANGED <<app, fanObjects, search, calibration, Configuration, stops, killedAmid>>

ClickCalibrate ==
  /\ app = "asking"
  /\ \/ app' = "searching"
     \/ app' = "off"
  /\ chipStays
  /\ UNCHANGED <<pwmControl, fanObjects, search, calibration, Configuration, helperDue, stops,
                 killedAmid, unsaved>>
--------------------------------------------------------------------------------
(* whoDiffersFor: the fan whose speed has changed most, by more than the   *)
(* bound.                                                                  *)
Deviation(cur, prev, f) == IF cur[f] > prev[f] THEN cur[f] - prev[f] ELSE prev[f] - cur[f]

MostChanged(cur, prev) ==
  CHOOSE f \in Names : \A g \in Names : Deviation(cur, prev, f) >= Deviation(cur, prev, g)

(* Mutant of WhoDiffers: a change as big as the bound is enough. *)
DiffersAtBound(cur, prev) ==
  {f \in {MostChanged(cur, prev)} : Deviation(cur, prev, f) >= MAXRPM_TO_DIFFER}

WhoDiffers(cur, prev) ==
  {f \in {MostChanged(cur, prev)} : Deviation(cur, prev, f) > MAXRPM_TO_DIFFER}

SearchStep(step) ==
  /\ app = "searching" /\ search.step = step
  /\ chipStays /\ UNCHANGED <<Configuration, helperDue, stops, killedAmid, unsaved>>

StopFan ==
  /\ SearchStep("zero")
  /\ pwmControl' = [pwmControl EXCEPT ![search.i] = 0]
  /\ search' = [search EXCEPT !.step = "prev", !.original = pwmControl[search.i]]
  /\ UNCHANGED <<app, fanObjects, calibration>>

MeasureStopped ==
  /\ SearchStep("prev")
  /\ \E r \in Readings : search' = [search EXCEPT !.step = "top", !.prev = r]
  /\ UNCHANGED <<app, fanObjects, pwmControl, calibration>>

SpeedUpFan ==
  /\ SearchStep("top")
  /\ pwmControl' = [pwmControl EXCEPT ![search.i] = Top]
  /\ search' = [search EXCEPT !.step = "cur"]
  /\ UNCHANGED <<app, fanObjects, calibration>>

TheOriginal == search.original

MoreControllers == search.i + 1 \in Controllers

(* The fans are measured again, the register gets its old value back, and  *)
(* the fan that differs gets the controller.  After the last controller    *)
(* the fans are queued for calibration.                                    *)
FoundController ==
  /\ SearchStep("cur")
  /\ \E r \in Readings :
       LET found == WhoDiffers(r, search.prev)
       IN fanObjects' = [f \in Names |->
            IF f \in found THEN [fanObjects[f] EXCEPT !.control = search.i, !.Controlable = TRUE]
            ELSE fanObjects[f]]
  /\ pwmControl' = [pwmControl EXCEPT ![search.i] = TheOriginal]
  /\ IF MoreControllers
     THEN search' = [NoSearch EXCEPT !.i = search.i + 1] /\ UNCHANGED <<app, calibration>>
     ELSE /\ search' = NoSearch /\ app' = "calibrating"
          /\ calibration' = [f \in Names |-> [NoCalibration EXCEPT !.step = "queued"]]

FindControllers == StopFan \/ MeasureStopped \/ SpeedUpFan \/ FoundController
--------------------------------------------------------------------------------
CalibrationStep(f, step) ==
  /\ app \in {"calibrating", "ready"} /\ fanObjects[f].Controlable /\ calibration[f].step = step
  /\ chipStays /\ UNCHANGED <<app, search, Configuration, helperDue, stops, killedAmid, unsaved>>

PutControl(f, v) == pwmControl' = [pwmControl EXCEPT ![fanObjects[f].control] = v]

BeginCalibration(f) ==
  /\ CalibrationStep(f, "queued")
  /\ calibration' = [calibration EXCEPT ![f] =
       [step |-> "spin", level |-> 0, was |-> pwmControl[fanObjects[f].control]]]
  /\ PutControl(f, 0)
  /\ UNCHANGED fanObjects

MeasureLevel(f) ==
  /\ CalibrationStep(f, "spin")
  /\ \E r \in Speeds(f) :
       fanObjects' = [fanObjects EXCEPT ![f].upward =
         [l \in DOMAIN @ \cup {calibration[f].level} |-> IF l = calibration[f].level THEN r ELSE @[l]]]
  /\ LET higher == {l \in Levels : l > calibration[f].level}
     IN IF higher = {}
        THEN calibration' = [calibration EXCEPT ![f].step = "restore"] /\ UNCHANGED pwmControl
        ELSE calibration' = [calibration EXCEPT ![f].level = Min(higher)] /\ PutControl(f, Min(higher))

(* Mutant of Restored: the temperature sensor is not restored. *)
ModeOnly(was) == IF Automatic(was) THEN 128 ELSE Top

(* Automatic control with its sensor, or the last duty cycle, which is the *)
(* highest.                                                                *)
Restored(was) == IF Automatic(was) THEN was ELSE Top

EndCalibration(f) ==
  /\ CalibrationStep(f, "restore")
  /\ PutControl(f, Restored(calibration[f].was))
  /\ calibration' = [calibration EXCEPT ![f] = [NoCalibration EXCEPT !.step = "done"]]
  /\ UNCHANGED fanObjects

(* valuesForSaveOperation of all fans. *)
SaveSettings ==
  /\ Configuration' = [f \in Names |->
       [control |-> fanObjects[f].control, Controlable |-> fanObjects[f].Controlable,
        value |-> pwmControl[fanObjects[f].control]]]
  /\ unsaved' = FALSE

(* Mutant of AllCalibrated: the operations are not waited for. *)
SomeStarted == \A f \in Names : fanObjects[f].Controlable => calibration[f].step # "queued"

AllCalibrated == \A f \in Names : fanObjects[f].Controlable => calibration[f].step = "done"

FinishCalibration ==
  /\ app = "calibrating" /\ AllCalibrated
  /\ app' = "ready"
  /\ SaveSettings
  /\ chipStays
  /\ UNCHANGED <<pwmControl, fanObjects, search, calibration, helperDue, stops, killedAmid>>
--------------------------------------------------------------------------------
(* setAutomatic, setManualPWM and setTempSensorSource. *)
SetControl(f) ==
  /\ app = "ready" /\ fanObjects[f].Controlable
  /\ \E v \in Levels \cup {128 + s : s \in Sources} : PutControl(f, v)
  /\ unsaved' = TRUE
  /\ chipStays
  /\ UNCHANGED <<app, fanObjects, search, calibration, Configuration, helperDue, stops, killedAmid>>

ApplicationGone ==
  /\ stops < MaxStops /\ stops' = stops + 1
  /\ app' = "off" /\ fanObjects' = [f \in Names |-> NewFan(f)]
  /\ search' = NoSearch /\ calibration' = [f \in Names |-> NoCalibration]
  /\ chipStays

(* applicationWillTerminate. *)
Quit ==
  /\ app = "ready" /\ ApplicationGone
  /\ SaveSettings
  /\ UNCHANGED <<pwmControl, helperDue, killedAmid>>

Kill ==
  /\ app # "off" /\ ApplicationGone
  /\ killedAmid' = (killedAmid \/ app \in {"searching", "calibrating"})
  /\ UNCHANGED <<pwmControl, Configuration, helperDue, unsaved>>

RestartMachine ==
  /\ ApplicationGone
  /\ pwmControl' = biosControl
  /\ helperDue' = TRUE /\ killedAmid' = FALSE /\ unsaved' = TRUE
  /\ UNCHANGED Configuration

GuardianNext ==
  \/ Launch \/ HelperRuns \/ ClickCalibrate \/ FindControllers \/ FinishCalibration
  \/ \E f \in Names : BeginCalibration(f) \/ MeasureLevel(f) \/ EndCalibration(f) \/ SetControl(f)
  \/ Quit \/ Kill \/ RestartMachine

GuardianSpec == GuardianInit /\ [][GuardianNext]_guardianVars
--------------------------------------------------------------------------------
GuardianTypeOK ==
  /\ pwmControl \in [Controllers -> 0..255]
  /\ app \in {"off", "asking", "searching", "calibrating", "ready"}
  /\ \A f \in Names :
       /\ fanObjects[f].control \in Controllers /\ DOMAIN fanObjects[f].upward \subseteq Levels
       /\ calibration[f].level \in Levels
       /\ Configuration[f] = NoSettings \/ Configuration[f].control \in Controllers
  /\ search.i \in Controllers /\ stops \in 0..MaxStops

(* After the search, each fan that can be controlled is driven by the      *)
(* controller that the application uses for it, whatever their numbers     *)
(* are, and no controller that drives a fan has been missed.               *)
ControllersFound ==
  app = "calibrating" =>
    /\ \A f \in Names : fanObjects[f].Controlable => wiring[f] = fanObjects[f].control
    /\ \A c \in Controllers : (\E f \in Names : wiring[f] = c) =>
         \E f \in Names : fanObjects[f].Controlable /\ fanObjects[f].control = c

(* Calibrations that run at the same time do not disturb each other.       *)
CalibrationRight ==
  \A f \in Names : calibration[f].step \in {"restore", "done"} =>
    fanObjects[f].upward = [l \in Levels |-> Gain[f] * l]

(* Search and calibration together. *)
FansCalibrated == ControllersFound /\ CalibrationRight

(* Afterwards automatic control is as the BIOS has set it up, with the     *)
(* same sensor; a fixed duty cycle has become the highest where a fan was  *)
(* calibrated, and is as it was elsewhere.  That cannot be said when the   *)
(* application was killed during an earlier attempt.                       *)
RegistersRestored ==
  app = "calibrating" /\ AllCalibrated /\ ~killedAmid =>
    \A c \in Controllers :
      pwmControl[c] = IF Automatic(biosControl[c]) \/ (\A f \in Names : wiring[f] # c)
                      THEN biosControl[c] ELSE Top

(* Even then no fan is left standing or slow.                              *)
FansLeftTurning ==
  app = "calibrating" /\ AllCalibrated =>
    \A f \in Names : wiring[f] # NoController =>
      Automatic(pwmControl[wiring[f]]) \/ pwmControl[wiring[f]] = Top

(* The registers after the calibration of all fans. *)
ControlRestored == RegistersRestored /\ FansLeftTurning

(* What was saved is in force: after the helper has run, the registers are *)
(* those that the settings say, until the user changes something.          *)
SettingsInForce ==
  HasSettings /\ ~unsaved =>
    \A f \in Names : pwmControl[Configuration[f].control] = Configuration[f].value
================================================================================
