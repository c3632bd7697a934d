------------------------------ MODULE AndigilogPwm ------------------------------
(***************************************************************************)
(* Fan control of Andigilog.  "FS! " switches fans between automatic and   *)
(* manual control (SetPwmMode), F<n>Mn sets the duty cycle of a fan under  *)
(* manual control (SetPwmDuty); GetConf, at the end of start, finds out    *)
(* how the BIOS has left the chip.  A transfer over the bus is one step    *)
(* here, and may fail; ICHSMBus has its steps.                             *)
(*                                                                         *)
(* The fans with a key follow each other in Measures, as in the property   *)
(* list, and a client only asks for fans that Andigilog has.               *)
(***************************************************************************)
EXTENDS Integers, FiniteSets

CONSTANTS Threads,     \* the threads that call kFakeSMCSetValueCallback
          NumFans,     \* how many fans there are
          NumPwm,      \* NUM_PWM
          PwmOf,       \* hwsensor.pwm of each fan, negative if there is none
          BootConfs,   \* what the configuration of a PWM may be at the start
          Speeds,      \* the percentages that clients ask for
          NoThread

Fans == 0..(NumFans - 1)
Pwms == 0..(NumPwm - 1)

(* A configuration register: the zone bits 5 to 7, and ALTB. *)
Confs == [zone : 0..7, alt : BOOLEAN]

ASSUME PwmAssumption ==
  /\ NumFans \in Nat /\ NumPwm \in Nat \ {0}
  /\ PwmOf \in [Fans -> Pwms \cup {-1}]
  /\ BootConfs \subseteq Confs
  /\ Speeds \subseteq Nat
  /\ NoThread \notin Threads

VARIABLES
  control, dutyReg,   \* the chip: configuration and duty cycle of each PWM
  value, duty,        \* Pwm[].value and Pwm[].duty
  pwmMode,            \* config.pwm_mode: the fans under manual control
  scanned,            \* i of GetConf, which begins at -1 and ends at NumPwm
  busLock,            \* who has called LockI2CBus
  step,               \* where each thread is
  val, fan, init,     \* SetPwmMode: its argument, i, and init_pwm
  idx, data,          \* SetPwmDuty: idx and data
  original,           \* history: the configuration at the start
  disturbed,          \* history: a mode is not what it seems: a transfer failed, or a
                      \* call came before GetConf had ended
  unsure              \* history: the PWMs that may have another duty cycle than
                      \* Pwm[].duty says

chipVars  == <<control, dutyReg>>
modeVars  == <<val, fan, init>>
dutyVars  == <<idx, data>>
vars == <<chipVars, value, duty, pwmMode, scanned, busLock, step, modeVars, dutyVars, original, disturbed, unsure>>

ModeSteps == {"lockMode", "fans"}
DutySteps == {"lockDuty", "write", "unlock", "record", "applied"}
--------------------------------------------------------------------------------
(* Pwm[].duty at the start.  Mutant: a duty cycle that might be asked for. *)
ZeroDuty == 0

NoDuty == -2

(* What a duty cycle register of the chip holds before it is written, and  *)
(* when the chip has moved it.                                             *)
Unknown == -1

(* The chip's five steps of the duty cycle.                                *)
DutyData(v) ==
  CASE v < 25 -> 0
    [] v \in 25..49 -> 64
    [] v \in 50..74 -> 128
    [] v \in 75..99 -> 192
    [] OTHER -> 255

DutyLevels == {0, 64, 128, 192, 255}

Manual == [zone |-> 7, alt |-> FALSE]

Off(c) == [c EXCEPT !.zone = 4]

Cruise == [zone |-> 1, alt |-> TRUE]

(* The configuration for automatic control, from the original one.         *)
(* ASC7621_ALTBG looks at the zone bits, where it never finds ALTB.        *)
(* Mutants: whatever the original is; thermal cruise for all.              *)
AsBefore(c) == c

AlwaysCruise(c) == Cruise

Automatic(c) == IF c.zone \in {4, 7} THEN Cruise ELSE c

FansOf(p) == {f \in Fans : PwmOf[f] = p}
--------------------------------------------------------------------------------
(* The keys are registered: callbacks may come, also before GetConf.       *)
Init ==
  /\ original \in [Pwms -> BootConfs]
  /\ control = original
  /\ dutyReg = [p \in Pwms |-> Unknown]
  /\ value = [p \in Pwms |-> [zone |-> 0, alt |-> FALSE]]
  /\ duty = [p \in Pwms |-> NoDuty]
  /\ pwmMode = {}
  /\ scanned = -1
  /\ busLock = NoThread
  /\ step = [t \in Threads |-> "idle"]
  /\ val = [t \in Threads |-> {}]
  /\ fan = [t \in Threads |-> 0]
  /\ init = [t \in Threads |-> {}]
  /\ idx = [t \in Threads |-> 0]
  /\ data = [t \in Threads |-> 0]
  /\ disturbed = FALSE
  /\ unsure = {}

Goto(t, s) == step' = [step EXCEPT ![t] = s]

(* WriteI2CBus: nobody looks at what it returns. *)
Write(register, p, byte, done) ==
  register' = IF done THEN [register EXCEPT ![p] = byte] ELSE register

BeginGetConf ==
  /\ scanned = -1
  /\ scanned' = 0
  /\ pwmMode' = {}
  /\ UNCHANGED <<chipVars, value, duty, busLock, step, modeVars, dutyVars, original, disturbed, unsure>>

(* One PWM.  A failing read leaves conf uninitialised.  A fan at full      *)
(* speed is switched off, and counts as manual like one that already is.   *)
GetConf ==
  /\ scanned \in Pwms
  /\ \E read, written \in BOOLEAN, conf \in BootConfs \cup {control[scanned]} :
       /\ read => conf = control[scanned]
       /\ IF conf.zone = 3
          THEN /\ Write(control, scanned, Off(conf), written)
               /\ value' = [value EXCEPT ![scanned] = Off(conf)]
          ELSE /\ UNCHANGED control
               /\ value' = [value EXCEPT ![scanned] = conf]
       /\ pwmMode' = pwmMode \cup IF conf.zone \in {3, 7} THEN FansOf(scanned) ELSE {}
       /\ disturbed' = (disturbed \/ ~read \/ ~written)
  /\ scanned' = scanned + 1
  /\ UNCHANGED <<dutyReg, duty, busLock, step, modeVars, dutyVars, original, unsure>>
--------------------------------------------------------------------------------
(* The callback for "FS! ". *)
CallSetPwmMode(t) ==
  /\ step[t] = "idle"
  /\ \E v \in SUBSET Fans : val' = [val EXCEPT ![t] = v]
  /\ Goto(t, "lockMode")
  /\ disturbed' = (disturbed \/ scanned # NumPwm)
  /\ UNCHANGED <<chipVars, value, duty, pwmMode, scanned, busLock, fan, init, dutyVars, original, unsure>>

LockI2CBus(t) ==
  /\ busLock = NoThread
  /\ busLock' = t
  /\ \/ step[t] = "lockMode" /\ Goto(t, "fans")
     \/ step[t] = "lockDuty" /\ Goto(t, "write")
  /\ UNCHANGED <<chipVars, value, duty, pwmMode, scanned, modeVars, dutyVars, original, disturbed, unsure>>

(* A fan is to be switched and has a PWM, which is written once.           *)
Switch(t, f, p) ==
  /\ pwmMode' = IF f \in val[t] THEN pwmMode \cup {f} ELSE pwmMode \ {f}
  /\ \/ p \in init[t] /\ UNCHANGED <<control, init, disturbed>>
     \/ /\ p \notin init[t]
        /\ init' = [init EXCEPT ![t] = @ \cup {p}]
        /\ \E done \in BOOLEAN :
             /\ Write(control, p, IF f \in val[t] THEN Manual ELSE Automatic(value[p]), done)
             /\ disturbed' = (disturbed \/ ~done)

SetPwmMode(t) ==
  /\ step[t] = "fans"
  /\ fan[t] \in Fans
  /\ fan' = [fan EXCEPT ![t] = @ + 1]
  /\ LET f == fan[t] IN
       IF (f \in val[t] <=> f \in pwmMode) \/ PwmOf[f] < 0
       THEN UNCHANGED <<pwmMode, control, init, disturbed>>
       ELSE Switch(t, f, PwmOf[f])
  /\ UNCHANGED <<dutyReg, value, duty, scanned, busLock, step, val, dutyVars, original, unsure>>

EndSetPwmMode(t) ==
  /\ step[t] = "fans"
  /\ fan[t] = NumFans
  /\ busLock' = NoThread
  /\ Goto(t, "idle")
  /\ val' = [val EXCEPT ![t] = {}]
  /\ fan' = [fan EXCEPT ![t] = 0]
  /\ init' = [init EXCEPT ![t] = {}]
  /\ UNCHANGED <<chipVars, value, duty, pwmMode, scanned, dutyVars, original, disturbed, unsure>>
--------------------------------------------------------------------------------
InDutyOf(t, p) == step[t] \in DutySteps /\ idx[t] = p

(* The callback for F<n>Mn, up to the look at the duty cycle set before.   *)
(* It has no effect on a fan under automatic control or without a PWM.     *)
CallSetPwmDuty(t) ==
  /\ step[t] = "idle"
  /\ \E f \in pwmMode, v \in Speeds :
       LET p == PwmOf[f] IN
         /\ p >= 0
         /\ idx' = [idx EXCEPT ![t] = p]
         /\ data' = [data EXCEPT ![t] = DutyData(v)]
         /\ Goto(t, IF duty[p] = DutyData(v) THEN "applied" ELSE "lockDuty")
         /\ unsure' = unsure \cup {q \in {p} : \E u \in Threads : InDutyOf(u, q)}
  /\ UNCHANGED <<chipVars, value, duty, pwmMode, scanned, busLock, modeVars, original, disturbed>>

WriteDuty(t) ==
  /\ step[t] = "write"
  /\ \E done \in BOOLEAN :
       /\ Write(dutyReg, idx[t], data[t], done)
       /\ unsure' = IF ~done THEN unsure \cup {idx[t]}
                    ELSE unsure \ {q \in {idx[t]} : \A u \in Threads \ {t} : ~InDutyOf(u, q)}
  /\ Goto(t, "unlock")
  /\ UNCHANGED <<control, value, duty, pwmMode, scanned, busLock, modeVars, dutyVars, original, disturbed>>

UnlockI2CBus(t) ==
  /\ step[t] = "unlock"
  /\ busLock' = NoThread
  /\ Goto(t, "record")
  /\ UNCHANGED <<chipVars, value, duty, pwmMode, scanned, modeVars, dutyVars, original, disturbed, unsure>>

RecordDuty(t) ==
  /\ step[t] = "record"
  /\ duty' = [duty EXCEPT ![idx[t]] = data[t]]
  /\ Goto(t, "applied")
  /\ UNCHANGED <<chipVars, value, pwmMode, scanned, busLock, modeVars, dutyVars, original, disturbed, unsure>>

EndSetPwmDuty(t) ==
  /\ step[t] = "applied"
  /\ Goto(t, "idle")
  /\ idx' = [idx EXCEPT ![t] = 0]
  /\ data' = [data EXCEPT ![t] = 0]
  /\ UNCHANGED <<chipVars, value, duty, pwmMode, scanned, busLock, modeVars, original, disturbed, unsure>>

SetPwmDuty(t) ==
  CallSetPwmDuty(t) \/ WriteDuty(t) \/ UnlockI2CBus(t) \/ RecordDuty(t) \/ EndSetPwmDuty(t)
--------------------------------------------------------------------------------
(* A PWM that is not under manual control: the chip moves the duty cycle,  *)
(* of which SetPwmMode knows nothing: Pwm[].duty stays when a fan gets     *)
(* back to automatic control, and is trusted when it is manual again.      *)
ChipDrives(p) ==
  /\ control[p].zone # 7
  /\ dutyReg' = [dutyReg EXCEPT ![p] = Unknown]
  /\ unsure' = unsure \cup {p}
  /\ UNCHANGED <<control, value, duty, pwmMode, scanned, busLock, step, modeVars, dutyVars, original, disturbed>>

Next ==
  \/ BeginGetConf \/ GetConf
  \/ \E t \in Threads : \/ CallSetPwmMode(t) \/ SetPwmMode(t) \/ EndSetPwmMode(t)
                        \/ LockI2CBus(t) \/ SetPwmDuty(t)
  \/ \E p \in Pwms : ChipDrives(p)

Spec == Init /\ [][Next]_vars
--------------------------------------------------------------------------------
TypeOK ==
  /\ control \in [Pwms -> Confs]
  /\ dutyReg \in [Pwms -> DutyLevels \cup {Unknown}]
  /\ value \in [Pwms -> Confs]
  /\ duty \in [Pwms -> DutyLevels \cup {NoDuty}]
  /\ pwmMode \subseteq Fans
  /\ scanned \in -1..NumPwm
  /\ busLock \in Threads \cup {NoThread}
  /\ step \in [Threads -> {"idle"} \cup ModeSteps \cup DutySteps]
  /\ val \in [Threads -> SUBSET Fans]
  /\ fan \in [Threads -> 0..NumFans]
  /\ init \in [Threads -> SUBSET Pwms]
  /\ idx \in [Threads -> Pwms]
  /\ data \in [Threads -> DutyLevels]
  /\ original \in [Pwms -> Confs]
  /\ disturbed \in BOOLEAN
  /\ unsure \subseteq Pwms

(* GetConf has ended, nobody switches fans, no transfer has failed.        *)
Settled == scanned = NumPwm /\ busLock = NoThread /\ ~disturbed

(* The properties of the modes say nothing about what follows a failed     *)
(* transfer of a mode or a call before GetConf has ended: the bound of the *)
(* run.                                                                    *)
Undisturbed == ~disturbed

(* A fan that has a PWM for itself. *)
Alone(f) == PwmOf[f] >= 0 /\ FansOf(PwmOf[f]) = {f}

(* "Return real states" (Andigilog.cpp:410): the bits of pwm_mode are the  *)
(* states of the PWMs.  A fan under manual control has a PWM that is       *)
(* manual, or that GetConf has switched off, and a manual PWM has a fan    *)
(* under manual control.                                                   *)
ModesReal ==
  Settled => \A f \in Fans : Alone(f) =>
    /\ f \in pwmMode => control[PwmOf[f]].zone \in {4, 7}
    /\ control[PwmOf[f]].zone = 7 => f \in pwmMode

(* The same with the types: driver, chip and reported modes together. *)
FansInv == TypeOK /\ ModesReal

(* However often fans are switched, under automatic control a PWM has the  *)
(* configuration of the BIOS, or thermal cruise if that was not automatic. *)
OriginalRestored ==
  Settled => \A f \in Fans : Alone(f) /\ f \notin pwmMode =>
    LET p == PwmOf[f]
    IN \/ control[p] = original[p]
       \/ control[p] = Cruise /\ original[p].zone \in {3, 4, 7}

(* When SetPwmDuty returns, the PWM has the duty cycle that was asked for, *)
(* also when nothing was written because it seemed to be set already       *)
(* (Andigilog.cpp:294).  The code does not give this to a PWM that the     *)
(* chip has driven since, that another call is about, or whose last write  *)
(* has failed; a later write that is carried out alone brings it back.     *)
DutyApplied ==
  \A t \in Threads : step[t] = "applied" /\ idx[t] \notin unsure => dutyReg[idx[t]] = data[t]
================================================================================
