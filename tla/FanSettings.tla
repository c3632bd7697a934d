------------------------------ MODULE FanSettings ------------------------------
(***************************************************************************)
(* The setters of sgFan for the registers of one controller that           *)
(* SmartGuardian does not model.  The setters of the three temperatures at *)
(* which automatic control stops the fan, starts it and drives it at full  *)
(* speed call each other, so that the temperatures keep their order.  The  *)
(* duty cycle to start with and its increase per degree, in eighths, share *)
(* two registers.  The calls come one after another, from the window.      *)
(***************************************************************************)
EXTENDS Integers

CONSTANTS Temperatures,   \* what can be set, numbers
          StartDuties,    \* 0 .. 127
          Eighths         \* of an increase, 0 .. 127

ASSUME SettingsAssumption ==
  Temperatures \subseteq 0..255 /\ StartDuties \subseteq 0..127 /\ Eighths \subseteq 0..127

VARIABLES
  thresholds,      \* the registers F<n>Ss, F<n>St and F<n>Ft
  startPWM,        \* F<n>Pt: bit 7 belongs to the increase
  deltaPWM,        \* F<n>Ct: bits 0 to 5 do, bit 7 is another switch
  biosThresholds,  \* history: what the BIOS has left
  biosDelta,
  chosen           \* history: what the user has set

settingsVars == <<thresholds, startPWM, deltaPWM, biosThresholds, biosDelta, chosen>>

Which == {"Stop", "Start", "FullOn"}

Ordered(t) == t.Stop <= t.Start /\ t.Start <= t.FullOn

Overflow == [Stop |-> -1, Start |-> -1, FullOn |-> -1]
--------------------------------------------------------------------------------
(* Mutant of CallsOf: two of the calls are forgotten. *)
WithoutFullOn(w) ==
  CASE w = "Stop"   -> <<<<"FullOn", "below">>, <<"FullOn", "below">>>>
    [] w = "Start"  -> <<<<"Stop", "above">>, <<"Stop", "above">>>>
    [] w = "FullOn" -> <<<<"Start", "above">>, <<"Stop", "above">>>>

(* The setters that the one for w calls, in this order, when the condition *)
(* on the temperature of the other holds.                                  *)
CallsOf(w) ==
  CASE w = "Stop"   -> <<<<"Start", "below">>, <<"FullOn", "below">>>>
    [] w = "Start"  -> <<<<"Stop", "above">>, <<"FullOn", "below">>>>
    [] w = "FullOn" -> <<<<"Start", "above">>, <<"Stop", "above">>>>

(* One of these calls, on its condition, of a setter as a function. *)
Push(t, call, v, setter) ==
  IF t # Overflow /\ (IF call[2] = "below" THEN t[call[1]] < v ELSE t[call[1]] > v)
  THEN setter[<<t, call[1], v>>]
  ELSE t

(* A setter writes its register after the two calls. *)
SetAfter(t, w, v, setter) ==
  LET pushed == Push(Push(t, CallsOf(w)[1], v, setter), CallsOf(w)[2], v, setter)
  IN IF pushed = Overflow THEN Overflow ELSE [pushed EXCEPT ![w] = v]

Registers == [Which -> Temperatures]

Calls == Registers \X Which \X Temperatures

(* Setters that go on calling each other overflow the stack.  Bound: calls *)
(* four deep; those that come to an end at all are three deep.             *)
Exhausted == [c \in Calls |-> Overflow]

Innermost == [c \in Calls |-> SetAfter(c[1], c[2], c[3], Exhausted)]

Inner == [c \in Calls |-> SetAfter(c[1], c[2], c[3], Innermost)]

Called == [c \in Calls |-> SetAfter(c[1], c[2], c[3], Inner)]

SetThreshold(t, w, v) == SetAfter(t, w, v, Called)
--------------------------------------------------------------------------------
(* deltaPWM: the getter. *)
Increase == 64 * (startPWM \div 128) + (deltaPWM % 64)

SettingsInit ==
  /\ biosThresholds \in [Which -> Temperatures] /\ thresholds = biosThresholds
  /\ startPWM \in {d + h : d \in StartDuties, h \in {0, 128}}
  /\ deltaPWM \in {e + h : e \in {0, 7, 63}, h \in {0, 128}} /\ biosDelta = deltaPWM
  /\ chosen = [duty |-> startPWM % 128, increase |-> Increase]

SetTemperature(w) ==
  /\ thresholds # Overflow
  /\ \E v \in Temperatures : thresholds' = SetThreshold(thresholds, w, v)
  /\ UNCHANGED <<startPWM, deltaPWM, biosThresholds, biosDelta, chosen>>

(* Mutant of WithDuty: the bit of the increase is overwritten. *)
DutyAlone(register, v) == v

WithDuty(register, v) == 128 * (register \div 128) + v

SetStartPWMValue ==
  /\ thresholds # Overflow
  /\ \E v \in StartDuties :
       startPWM' = WithDuty(startPWM, v) /\ chosen' = [chosen EXCEPT !.duty = v]
  /\ UNCHANGED <<thresholds, deltaPWM, biosThresholds, biosDelta>>

(* Integer part and eighths: the highest bit goes to the other register,   *)
(* of this one only bit 7 is kept.                                         *)
SetDeltaPWM ==
  /\ thresholds # Overflow
  /\ \E v \in Eighths :
       /\ startPWM' = (startPWM % 128) + 128 * (v \div 64)
       /\ deltaPWM' = 128 * (deltaPWM \div 128) + (v % 64)
       /\ chosen' = [chosen EXCEPT !.increase = v]
  /\ UNCHANGED <<thresholds, biosThresholds, biosDelta>>

SettingsNext ==
  (\E w \in Which : SetTemperature(w)) \/ SetStartPWMValue \/ SetDeltaPWM

SettingsSpec == SettingsInit /\ [][SettingsNext]_settingsVars
--------------------------------------------------------------------------------
SettingsTypeOK ==
  /\ thresholds \in [Which -> Temperatures \cup {-1}]
  /\ {startPWM, deltaPWM, biosDelta} \subseteq 0..255

(* What the calls amount to, if the BIOS has left the temperatures in      *)
(* order: those below the one that is set are lowered to it, those above   *)
(* it raised, and only if they have to be.  So the setters always come to  *)
(* an end and keep the order; otherwise they may call each other for ever. *)
Rank == [Stop |-> 1, Start |-> 2, FullOn |-> 3]

Clamped(t, w, v) ==
  [x \in Which |->
    IF x = w \/ (Rank[x] < Rank[w] /\ t[x] > v) \/ (Rank[x] > Rank[w] /\ t[x] < v)
    THEN v ELSE t[x]]

SettersClamp ==
  [][Ordered(biosThresholds) /\ thresholds' # thresholds =>
       \E w \in Which, v \in Temperatures : thresholds' = Clamped(thresholds, w, v)]_settingsVars

(* Both settings are what the user has chosen, and the switch in bit 7 of  *)
(* the one register is as the BIOS has left it.                            *)
LawKept ==
  /\ startPWM % 128 = chosen.duty
  /\ Increase = chosen.increase
  /\ deltaPWM \div 128 = biosDelta \div 128
================================================================================
