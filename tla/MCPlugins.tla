------------------------------- MODULE MCPlugins -------------------------------
(***************************************************************************)
(* Seven plug-ins and programs that share nothing but the lock of        *)
(* FakeSMCDevice: each behaviour is one of one of them, while the others   *)
(* stay at one initial state.                                              *)
(***************************************************************************)
EXTENDS IntelCPUMonitor, AndigilogReadings, W836xTachometers, SmartGuardian, FanSettings,
        SuperIOSensors, OemSMBIOS, TLC

VARIABLE plugin

pluginVars == <<plugin, cpuVars, measureVars, tachometerVars, guardianVars, settingsVars,
                listVars, smbiosVars, deviceLock>>

SensorPlan == <<"TC0H", "VC0C", "TC0H", "F0Ac", "F1Ac">>

(* Bits in every register that belong to the BIOS. *)
BiosRegisters ==
  {[i \in 0..4 |-> IF i = 0 THEN {1, 4, 5, 7} ELSE {0, 7}],
   [i \in 0..4 |-> IF i \in {0, 4} THEN {1, 5, 6} ELSE {0, 7}]}

(* Fans at the bounds of the offsets, the others stand still. *)
Turn(f, ticks, rest) == [g \in 0..4 |-> IF g = f THEN ticks ELSE rest[g]]

Still == [g \in 0..4 |-> 40000]

Turns == {Turn(0, 193, Still), Turn(3, 193, Turn(4, 1000, Still)),
          Turn(1, 191, Turn(4, 20000, Still)), Turn(2, 130, Still)}

GuardianGain == [f \in Names |-> 10 - f]

(* Systems with a blank and a missing name, one that is too short; a       *)
(* mainboard with names and one without; one whose first name is lost,     *)
(* with 256 characters, and whose second is not, with 257; others.         *)
Structure(type, refs, strings) ==
  [type |-> type, handle |-> <<0, type>>, refs |-> refs, strings |-> strings]

Structures ==
  {Structure(1, <<1, 2, 0, 3, 0>>, <<<<65>>, <<Space, 66, Space>>, <<67>>>>),
   Structure(1, <<2, 1, 2, 1>>, <<<<Space, Space>>, <<68, 69>>>>),
   Structure(1, <<1, 1>>, <<<<70>>>>),
   Structure(2, <<1, 2, 0, 0>>, <<<<71>>, <<72>>>>),
   Structure(2, <<0, 0, 0, 0>>, <<>>),
   Structure(0, <<0>>, <<<<73>>>>),
   Structure(127, <<>>, <<>>)}

LongNames ==
  Structure(2, <<1, 2, 0, 0>>, <<<<Space>> \o [c \in 1..256 |-> 74], [c \in 1..257 |-> 75]>>)

BiosTables ==
  UNION {[1..n -> Structures] : n \in 0..3}
  \cup {<<LongNames>>} \cup {<<s, LongNames>> : s \in Structures}

Quiet(p, initial) == IF plugin = p THEN TRUE ELSE initial

Init ==
  /\ plugin \in {"intel", "andigilog", "w836x", "guardian", "settings", "superio", "smbios"}
  /\ Quiet("intel", counting = Unset) /\ IntelInit
  /\ Quiet("andigilog", portsUsed = FALSE) /\ ReadingInit
  /\ Quiet("w836x", biosBits = (CHOOSE b \in StartBits : TRUE) /\ period = (CHOOSE p \in Periods : TRUE))
  /\ TachometerInit
  /\ Quiet("guardian", biosControl = [c \in Controllers |-> 63] /\ wiring = [f \in Names |-> f])
  /\ GuardianInit
  /\ Quiet("settings", biosThresholds = [w \in Which |-> 0] /\ startPWM = 0 /\ deltaPWM = 0)
  /\ SettingsInit
  /\ SensorsInit
  /\ Quiet("smbios", structures = <<>> /\ padding = 0 /\ serialKnown = FALSE)
  /\ SMBIOSInit

Next ==
  /\ UNCHANGED plugin
  /\ \/ /\ plugin = "intel" /\ IntelNext
        /\ UNCHANGED <<measureVars, tachometerVars, guardianVars, settingsVars, listVars, smbiosVars, deviceLock>>
     \/ /\ plugin = "andigilog" /\ ReadingNext
        /\ UNCHANGED <<cpuVars, tachometerVars, guardianVars, settingsVars, listVars, smbiosVars>>
     \/ /\ plugin = "w836x" /\ TachometerNext
        /\ UNCHANGED <<cpuVars, measureVars, guardianVars, settingsVars, listVars, smbiosVars>>
     \/ /\ plugin = "guardian" /\ GuardianNext
        /\ UNCHANGED <<cpuVars, measureVars, tachometerVars, settingsVars, listVars, smbiosVars, deviceLock>>
     \/ /\ plugin = "settings" /\ SettingsNext
        /\ UNCHANGED <<cpuVars, measureVars, tachometerVars, guardianVars, listVars, smbiosVars, deviceLock>>
     \/ /\ plugin = "superio" /\ SensorsNext
        /\ UNCHANGED <<cpuVars, measureVars, tachometerVars, guardianVars, settingsVars, smbiosVars>>
     \/ /\ plugin = "smbios" /\ SMBIOSNext
        /\ UNCHANGED <<cpuVars, measureVars, tachometerVars, guardianVars, settingsVars, listVars, deviceLock>>

Spec == Init /\ [][Next]_pluginVars

(* The types of all seven. *)
TypesOK ==
  /\ IntelTypeOK /\ ReadingTypeOK /\ TachometerTypeOK
  /\ GuardianTypeOK /\ SettingsTypeOK /\ SensorsTypeOK /\ SMBIOSTypeOK
================================================================================
