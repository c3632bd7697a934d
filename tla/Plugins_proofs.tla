---------------------------- MODULE Plugins_proofs -----------------------------
(***************************************************************************)
(* Proofs about plug-ins that run on their own: IntelCPUMonitor, for any   *)
(* number of CPUs and any number of times that the machine sleeps;         *)
(* SuperIOSensors, for every plan and any number of readers; and           *)
(* OemSMBIOS, for every table that a BIOS writes.                          *)
(***************************************************************************)
EXTENDS IntelCPUMonitor, SuperIOSensors, OemSMBIOS, FiniteSetTheorems, SequenceTheorems, TLAPS

(* At most one thread is in loopTimerEvent, and none while the timer is    *)
(* set: so the early return is never taken.  Monitoring goes on while it   *)
(* is active.                                                              *)
OneLoop ==
  /\ \A t, u \in LoopThreads : loopStep[t] # "out" /\ loopStep[u] # "out" => t = u
  /\ timerSet => ~Looping
  /\ ~Active /\ ~stopped => ~Looping /\ ~timerSet
  /\ Active => ~stopped

(* Counters that are taken for switched on are, except between a sleep and *)
(* the end of setPowerState; and what the samples are at each step.        *)
SamplesRight ==
  /\ ~disturbed => clearing = 6
  /\ clearing = 6 => \A c \in Cpus : InitFlags[c] => counting[c]
  /\ \A t \in LoopThreads, c \in Cpus : ~disturbed =>
       /\ At(t, "sample2") => InitFlags[c] /\ counting[c] /\ UCC[c] = "first" /\ UCR[c] = "first"
       /\ At(t, "publish") =>
            /\ lastUCC[c] = "first" /\ UCC[c] = "second"
            /\ lastUCR[c] = "first" /\ UCR[c] = "second"
       /\ At(t, "unlock") => Frequency[c] = "measured"

IntelInv == IntelTypeOK /\ OneLoop /\ MonitoringFollowsActive /\ SamplesRight

LEMMA InitRight == IntelInit => IntelInv
<1>. SUFFICES ASSUME IntelInit PROVE IntelInv
  OBVIOUS
<1>. USE DEF IntelInit, Zeroed, Unset, LoopThreads, LoopSteps, Samples, Looping, At
<1>1. IntelTypeOK
  <2>1. {UCC, lastUCC, UCR, lastUCR} \subseteq [Cpus -> Samples]
    OBVIOUS
  <2>2. {InitFlags, counting} \subseteq [Cpus -> BOOLEAN]
    OBVIOUS
  <2>3. Frequency \in [Cpus -> {"none", "ratio", "measured", "other"}]
    OBVIOUS
  <2>4. loopStep \in [LoopThreads -> LoopSteps] /\ (\A t \in LoopThreads : loopStep[t] = "out")
    OBVIOUS
  <2>5. {Active, LoopLock, timerSet, stopped, disturbed, stoppedAmid} \subseteq BOOLEAN
    OBVIOUS
  <2>6. clearing \in 1..6 /\ sleeps \in 0..MaxSleeps
    BY CpuAssumption
  <2>. QED BY <2>1, <2>2, <2>3, <2>4, <2>5, <2>6 DEF IntelTypeOK
<1>2. OneLoop /\ MonitoringFollowsActive
  BY DEF OneLoop, MonitoringFollowsActive
<1>3. SamplesRight
  BY DEF SamplesRight
<1>. QED BY <1>1, <1>2, <1>3 DEF IntelInv

(* What the step of a thread in the loop means for the two threads.        *)
LEMMA GoStep ==
  ASSUME IntelInv, NEW t \in LoopThreads, NEW s \in LoopSteps, Go(t, s)
  PROVE  /\ loopStep' \in [LoopThreads -> LoopSteps]
         /\ loopStep'[t] = s
         /\ \A u \in LoopThreads : u # t => loopStep'[u] = loopStep[u]
  BY DEF IntelInv, IntelTypeOK, Go

LEMMA UCStateStep ==
  ASSUME IntelInv, NEW which \in {"first", "second"}, UCState(which)
  PROVE  /\ {UCC, lastUCC, UCR, lastUCR}' \subseteq [Cpus -> Samples]
         /\ {InitFlags, counting}' \subseteq [Cpus -> BOOLEAN]
         /\ \A c \in Cpus :
              /\ InitFlags'[c]
              /\ counting'[c] <=> counting[c] \/ ~InitFlags[c]
              /\ counting'[c] => UCC'[c] = which /\ UCR'[c] = which
              /\ which = "second" => lastUCC'[c] = UCC[c] /\ lastUCR'[c] = UCR[c]
<1>1. /\ UCC \in [Cpus -> Samples] /\ UCR \in [Cpus -> Samples]
      /\ counting \in [Cpus -> BOOLEAN] /\ InitFlags \in [Cpus -> BOOLEAN]
  BY DEF IntelInv, IntelTypeOK
<1>2. InitFlags' \in [Cpus -> BOOLEAN] /\ \A c \in Cpus : InitFlags'[c]
  BY DEF UCState
<1>3. counting' \in [Cpus -> BOOLEAN] /\ \A c \in Cpus : counting'[c] <=> counting[c] \/ ~InitFlags[c]
  BY <1>1 DEF UCState
<1>4. UCC' = [c \in Cpus |-> IF counting'[c] THEN which ELSE "zero"] /\ UCR' = UCC'
  BY DEF UCState
<1>5. \A s \in Samples : Previous(s, which) \in Samples
  BY DEF Previous, Samples
<1>6. lastUCC' \in [Cpus -> Samples] /\ lastUCR' \in [Cpus -> Samples]
  BY <1>1, <1>5 DEF UCState
<1>7. \A c \in Cpus : which = "second" => lastUCC'[c] = UCC[c] /\ lastUCR'[c] = UCR[c]
  BY DEF UCState, Previous
<1>. QED BY <1>2, <1>3, <1>4, <1>6, <1>7 DEF Samples

LEMMA SampleRight ==
  ASSUME IntelInv, NEW t \in LoopThreads, Sample(t)
  PROVE  IntelInv'
<1>. USE DEF LoopThreads, LoopSteps
<1>1. CASE At(t, "sample1") /\ UCState("first") /\ Go(t, "sample2")
  <2>1. loopStep' \in [LoopThreads -> LoopSteps] /\ loopStep'[t] = "sample2"
        /\ \A u \in LoopThreads : u # t => loopStep'[u] = loopStep[u]
    BY <1>1, GoStep
  <2>2. IntelTypeOK'
    BY <1>1, <2>1, UCStateStep DEF Sample, IntelInv, IntelTypeOK, otherVars, At
  <2>3. OneLoop' /\ MonitoringFollowsActive'
    BY <1>1, <2>1 DEF Sample, IntelInv, OneLoop, MonitoringFollowsActive, Looping, otherVars, At
  <2>4. SamplesRight'
    BY <1>1, <2>1, UCStateStep DEF Sample, IntelInv, OneLoop, SamplesRight, otherVars, At
  <2>. QED BY <2>2, <2>3, <2>4 DEF IntelInv
<1>2. CASE At(t, "sample2") /\ UCState("second") /\ Go(t, "publish")
  <2>1. loopStep' \in [LoopThreads -> LoopSteps] /\ loopStep'[t] = "publish"
        /\ \A u \in LoopThreads : u # t => loopStep'[u] = loopStep[u]
    BY <1>2, GoStep
  <2>2. IntelTypeOK'
    BY <1>2, <2>1, UCStateStep DEF Sample, IntelInv, IntelTypeOK, otherVars, At
  <2>3. OneLoop' /\ MonitoringFollowsActive'
    BY <1>2, <2>1 DEF Sample, IntelInv, OneLoop, MonitoringFollowsActive, Looping, otherVars, At
  <2>4. SamplesRight'
    BY <1>2, <2>1, UCStateStep DEF Sample, IntelInv, OneLoop, SamplesRight, otherVars, At
  <2>. QED BY <2>2, <2>3, <2>4 DEF IntelInv
<1>. QED BY <1>1, <1>2 DEF Sample

LEMMA StepRight == IntelInv /\ [IntelNext]_cpuVars => IntelInv'
<1>. SUFFICES ASSUME IntelInv, [IntelNext]_cpuVars PROVE IntelInv'
  OBVIOUS
<1>. USE DEF LoopThreads, LoopSteps
<1>1. CASE Activate
  <2>1. loopStep' \in [LoopThreads -> LoopSteps] /\ loopStep'["starter"] = "begin"
        /\ \A u \in LoopThreads : u # "starter" => loopStep'[u] = loopStep[u]
    BY <1>1, GoStep DEF Activate
  <2>2. IntelTypeOK'
    BY <1>1, <2>1 DEF Activate, IntelInv, IntelTypeOK, OneLoop, Looping, counterVars, otherVars
  <2>3. OneLoop' /\ MonitoringFollowsActive'
    BY <1>1, <2>1 DEF Activate, IntelInv, OneLoop, MonitoringFollowsActive, Looping, otherVars
  <2>4. SamplesRight'
    BY <1>1, <2>1 DEF Activate, IntelInv, SamplesRight, counterVars, otherVars, At
  <2>. QED BY <2>2, <2>3, <2>4 DEF IntelInv
<1>2. CASE Deactivate
  <2>1. IntelTypeOK'
    BY <1>2 DEF Deactivate, IntelInv, IntelTypeOK, counterVars, Looping
  <2>2. OneLoop' /\ MonitoringFollowsActive'
    BY <1>2 DEF Deactivate, IntelInv, OneLoop, MonitoringFollowsActive, Looping
  <2>3. SamplesRight'
    BY <1>2 DEF Deactivate, IntelInv, SamplesRight, counterVars, At
  <2>. QED BY <2>1, <2>2, <2>3 DEF IntelInv
<1>3. CASE TimerFires
  <2>1. loopStep' \in [LoopThreads -> LoopSteps] /\ loopStep'["workLoop"] = "begin"
        /\ \A u \in LoopThreads : u # "workLoop" => loopStep'[u] = loopStep[u]
    BY <1>3, GoStep DEF TimerFires
  <2>2. IntelTypeOK'
    BY <1>3, <2>1 DEF TimerFires, IntelInv, IntelTypeOK, OneLoop, Looping, counterVars, otherVars, At
  <2>3. OneLoop' /\ MonitoringFollowsActive'
    BY <1>3, <2>1 DEF TimerFires, IntelInv, OneLoop, MonitoringFollowsActive, Looping, otherVars
  <2>4. SamplesRight'
    BY <1>3, <2>1 DEF TimerFires, IntelInv, SamplesRight, counterVars, otherVars, At
  <2>. QED BY <2>2, <2>3, <2>4 DEF IntelInv
<1>4. CASE Sleep
  <2>1. IntelTypeOK'
    BY <1>4, CpuAssumption DEF Sleep, IntelInv, IntelTypeOK, loopVars, Unset
  <2>2. OneLoop' /\ MonitoringFollowsActive'
    BY <1>4 DEF Sleep, IntelInv, OneLoop, MonitoringFollowsActive, Looping, loopVars
  <2>3. SamplesRight'
    BY <1>4 DEF Sleep, SamplesRight
  <2>. QED BY <2>1, <2>2, <2>3 DEF IntelInv
<1>5. CASE SetPowerState
  <2>1. /\ Zeroed \in [Cpus -> Samples] /\ Unset \in [Cpus -> BOOLEAN]
        /\ clearing' \in 1..6
    BY <1>5 DEF SetPowerState, IntelInv, IntelTypeOK, Zeroed, Unset, Samples
  <2>2. IntelTypeOK'
    BY <1>5, <2>1 DEF SetPowerState, IntelInv, IntelTypeOK, loopVars
  <2>3. OneLoop' /\ MonitoringFollowsActive'
    BY <1>5 DEF SetPowerState, IntelInv, OneLoop, MonitoringFollowsActive, Looping, loopVars
  <2>4. clearing' = 6 => \A c \in Cpus : ~InitFlags'[c]
    BY <1>5 DEF SetPowerState, IntelInv, IntelTypeOK, Unset
  <2>5. SamplesRight'
    BY <1>5, <2>4 DEF SetPowerState, SamplesRight
  <2>. QED BY <2>2, <2>3, <2>5 DEF IntelInv
<1>6. ASSUME NEW t \in LoopThreads, BeginLoop(t) PROVE IntelInv'
  <2>1. ~LoopLock
    BY <1>6 DEF BeginLoop, IntelInv, IntelTypeOK, OneLoop, At
  <2>2. loopStep' \in [LoopThreads -> LoopSteps] /\ loopStep'[t] = "sample1"
        /\ \A u \in LoopThreads : u # t => loopStep'[u] = loopStep[u]
    BY <1>6, <2>1, GoStep DEF BeginLoop
  <2>3. IntelTypeOK'
    BY <1>6, <2>1, <2>2 DEF BeginLoop, IntelInv, IntelTypeOK, counterVars, otherVars
  <2>4. OneLoop' /\ MonitoringFollowsActive'
    BY <1>6, <2>1, <2>2 DEF BeginLoop, IntelInv, OneLoop, MonitoringFollowsActive, Looping, otherVars, At
  <2>5. SamplesRight'
    BY <1>6, <2>1, <2>2 DEF BeginLoop, IntelInv, OneLoop, SamplesRight, counterVars, otherVars, At
  <2>. QED BY <2>3, <2>4, <2>5 DEF IntelInv
<1>7. ASSUME NEW t \in LoopThreads, Publish(t) PROVE IntelInv'
  <2>1. loopStep' \in [LoopThreads -> LoopSteps] /\ loopStep'[t] = "unlock"
        /\ \A u \in LoopThreads : u # t => loopStep'[u] = loopStep[u]
    BY <1>7, GoStep DEF Publish
  <2>2. Frequency' = [c \in Cpus |-> IntelGetFrequency(c)]
    BY <1>7 DEF Publish
  <2>3. \A c \in Cpus : IntelGetFrequency(c) \in {"ratio", "measured", "other"}
    BY DEF IntelGetFrequency
  <2>4. IntelTypeOK'
    BY <1>7, <2>1, <2>2, <2>3 DEF Publish, IntelInv, IntelTypeOK, counterVars, otherVars, At
  <2>5. OneLoop' /\ MonitoringFollowsActive'
    BY <1>7, <2>1 DEF Publish, IntelInv, OneLoop, MonitoringFollowsActive, Looping, otherVars, At
  <2>6. \A c \in Cpus : ~disturbed => IntelGetFrequency(c) = "measured"
    BY <1>7 DEF Publish, IntelInv, SamplesRight, IntelGetFrequency, At
  <2>7. SamplesRight'
    BY <1>7, <2>1, <2>2, <2>6 DEF Publish, IntelInv, OneLoop, SamplesRight, counterVars, otherVars, At
  <2>. QED BY <2>4, <2>5, <2>7 DEF IntelInv
<1>8. ASSUME NEW t \in LoopThreads, LeaveLoop(t) PROVE IntelInv'
  <2>1. PICK s \in {"rearm", "out"} : Go(t, s) /\ (s = "out" <=> At(t, "rearm"))
    BY <1>8 DEF LeaveLoop, At
  <2>2. loopStep' \in [LoopThreads -> LoopSteps] /\ loopStep'[t] = s
        /\ \A u \in LoopThreads : u # t => loopStep'[u] = loopStep[u]
    BY <2>1, GoStep
  <2>6. LoopLock' <=> \E u \in LoopThreads : loopStep'[u] \in {"sample1", "sample2", "publish", "unlock"}
    <3>1. CASE At(t, "unlock")
      <4>1. LoopLock' = FALSE
        BY <1>8, <3>1 DEF LeaveLoop, At
      <4>2. \A u \in LoopThreads : u # t => loopStep'[u] = "out"
        BY <2>2, <3>1 DEF IntelInv, OneLoop, At
      <4>. QED BY <2>2, <4>1, <4>2
    <3>2. CASE At(t, "rearm")
      <4>1. LoopLock' = LoopLock
        BY <1>8, <3>2 DEF LeaveLoop, At
      <4>2. \A u \in LoopThreads : u # t => loopStep[u] = "out" /\ loopStep'[u] = "out"
        BY <2>2, <3>2 DEF IntelInv, OneLoop, At
      <4>3. ~LoopLock
        BY <3>2, <4>2 DEF IntelInv, IntelTypeOK, At
      <4>. QED BY <2>2, <4>1, <4>2, <4>3
    <3>. QED BY <1>8, <3>1, <3>2 DEF LeaveLoop
  <2>3. IntelTypeOK'
    BY <1>8, <2>2, <2>6 DEF LeaveLoop, IntelInv, IntelTypeOK, counterVars, otherVars
  <2>4. OneLoop' /\ MonitoringFollowsActive'
    BY <1>8, <2>1, <2>2 DEF LeaveLoop, IntelInv, OneLoop, MonitoringFollowsActive, Looping, otherVars, At
  <2>5. SamplesRight'
    BY <1>8, <2>1, <2>2 DEF LeaveLoop, IntelInv, OneLoop, SamplesRight, counterVars, otherVars, At
  <2>. QED BY <2>3, <2>4, <2>5 DEF IntelInv
<1>9. CASE UNCHANGED cpuVars
  <2>1. UNCHANGED <<counterVars, Frequency, loopVars, otherVars, disturbed>>
    BY <1>9 DEF cpuVars
  <2>2. IntelTypeOK'
    BY <2>1 DEF IntelInv, IntelTypeOK, counterVars, loopVars, otherVars
  <2>3. OneLoop' /\ MonitoringFollowsActive'
    BY <2>1 DEF IntelInv, OneLoop, MonitoringFollowsActive, Looping, loopVars, otherVars
  <2>4. SamplesRight'
    BY <2>1 DEF IntelInv, SamplesRight, At, counterVars, loopVars, otherVars
  <2>. QED BY <2>2, <2>3, <2>4 DEF IntelInv
<1>. QED BY <1>1, <1>2, <1>3, <1>4, <1>5, <1>6, <1>7, <1>8, <1>9, SampleRight
            DEF IntelNext, LoopTimerEvent

LEMMA Invariant == IntelSpec => []IntelInv
<1>. QED BY InitRight, StepRight, PTL DEF IntelSpec

(* Type correctness, and LoopLock is held exactly by a loop that runs.     *)
THEOREM LoopTypeCorrect == IntelSpec => []IntelTypeOK
<1>1. IntelInv => IntelTypeOK
  BY DEF IntelInv
<1>. QED BY <1>1, Invariant, PTL

(* The loop runs or its timer is set while the monitor is active, and      *)
(* neither after Deactivate unless a loop was running.                     *)
THEOREM MonitoringGoesOn == IntelSpec => []MonitoringFollowsActive
<1>1. IntelInv => MonitoringFollowsActive
  BY DEF IntelInv
<1>. QED BY <1>1, Invariant, PTL

(* An undisturbed loop publishes what it has measured, for every CPU.      *)
THEOREM FrequencyIsMeasured == IntelSpec => []FrequencyMeasured
<1>1. IntelInv => FrequencyMeasured
  BY DEF IntelInv, SamplesRight, FrequencyMeasured, At
<1>. QED BY <1>1, Invariant, PTL
--------------------------------------------------------------------------------
Lookings ==
  [name : PlanNames \cup {Free}, at : Nat, size : Nat, result : {"none", "found", "failed"}]

Types ==
  /\ sensors \in Seq(PlanNames) /\ next \in 1 .. Len(Plan) + 1
  /\ addStep \in {"lookup", "list", "handler"}
  /\ handled \subseteq PlanNames /\ looking \in [SensorReaders -> Lookings]
  /\ superIOStopped \in BOOLEAN /\ changedAmid \subseteq SensorReaders
  /\ deviceLock \in Clients \cup {Adder, Free}

Listed(k) == \E i \in 1..Len(sensors) : sensors[i] = k

(* Where startPlugin is, what the list holds by then, and that it has the  *)
(* lock while it adds a tachometer.                                        *)
AddInv ==
  /\ next > Len(Plan) => addStep = "lookup"
  /\ superIOStopped => next > Len(Plan)
  /\ Len(sensors) < next + (IF addStep = "handler" THEN 1 ELSE 0)
  /\ \A i, j \in 1..Len(sensors) : sensors[i] = sensors[j] => i = j
  /\ ~superIOStopped => \A k \in handled : Listed(k)
  /\ addStep = "list" => ~Listed(Name)
  /\ addStep = "handler" => Listed(Name)
  /\ addStep # "lookup" /\ Name \in TachometerKeys => deviceLock = Adder

(* What a reader has seen: the sensors before `at' are not the one it      *)
(* looks for.                                                              *)
LookInv ==
  /\ \A r \in SensorReaders :
       /\ looking[r].name = Free => looking[r].result = "none" /\ looking[r].at = 0
       /\ looking[r].at <= Len(Plan) + 1
       /\ looking[r].result = "none" => looking[r].at <= Len(Plan)
  /\ \A c \in Clients : looking[c].name # Free =>
       /\ deviceLock = c /\ looking[c].name \in handled
       /\ c \notin changedAmid /\ ~superIOStopped =>
            /\ looking[c].size = Len(sensors) /\ looking[c].result # "failed"
            /\ looking[c].result = "none" => \A j \in 1..Len(sensors) :
                 j <= looking[c].at => sensors[j] # looking[c].name

SensorsInv == Types /\ AddInv /\ LookInv

LEMMA NameInPlan ==
  ASSUME Types, next <= Len(Plan)
  PROVE  Name \in PlanNames
<1>1. Plan \in Seq(PlanNames) /\ Len(Plan) \in Nat /\ next \in 1..Len(Plan)
  BY SensorsAssumption DEF Types
<1>. QED BY <1>1 DEF Name

LEMMA SensorsInitRight == SensorsInit => SensorsInv
<1>. SUFFICES ASSUME SensorsInit PROVE SensorsInv
  OBVIOUS
<1>. USE SensorsAssumption DEF SensorsInit
<1>1. NotLooking \in Lookings
  BY DEF NotLooking, Lookings
<1>2. Types
  <2>1. Len(Plan) \in Nat /\ 1 \in 1 .. Len(Plan) + 1
    OBVIOUS
  <2>2. sensors \in Seq(PlanNames) /\ handled \subseteq PlanNames /\ changedAmid \subseteq SensorReaders
    OBVIOUS
  <2>3. looking \in [SensorReaders -> Lookings]
    BY <1>1
  <2>. QED BY <2>1, <2>2, <2>3 DEF Types
<1>3. AddInv
  <2>1. Len(Plan) \in Nat /\ Len(sensors) = 0 /\ next = 1 /\ addStep = "lookup" /\ handled = {} /\ ~superIOStopped
    OBVIOUS
  <2>. QED BY <2>1 DEF AddInv
<1>4. LookInv
  BY DEF LookInv, NotLooking, SensorReaders
<1>. QED BY <1>2, <1>3, <1>4 DEF SensorsInv

(* The list is no longer than the plan.                                    *)
LEMMA ListFits ==
  ASSUME Types, AddInv
  PROVE  Len(sensors) <= Len(Plan) /\ Len(sensors) \in Nat /\ Len(Plan) \in Nat
  BY SensorsAssumption DEF Types, AddInv

LEMMA LookUpRight ==
  ASSUME SensorsInv, LookUpName PROVE SensorsInv'
<1>. USE SensorsAssumption DEF SensorsInv, LookUpName, Adding
<1>1. CASE ~NewName /\ NextSensor /\ UNCHANGED deviceLock
  <2>1. Types'
    BY <1>1 DEF Types, NextSensor
  <2>2. AddInv'
    BY <1>1 DEF Types, AddInv, NextSensor, Listed
  <2>3. LookInv'
    BY <1>1 DEF LookInv
  <2>. QED BY <2>1, <2>2, <2>3
<1>2. CASE NewName /\ LockTachometer /\ addStep' = "list" /\ UNCHANGED next
  <2>1. Types'
    BY <1>2 DEF Types, LockTachometer, LockDevice
  <2>2. AddInv'
    <3>1. ~Listed(Name)
      BY <1>2 DEF NewName, Listed
    <3>2. Name \in TachometerKeys => deviceLock' = Adder
      BY <1>2 DEF LockTachometer, LockDevice
    <3>3. Name' = Name /\ ~Listed(Name)'
      BY <1>2, <3>1 DEF Name, Listed
    <3>4. Len(sensors') < next'
      BY <1>2 DEF Types, AddInv
    <3>5. next <= Len(Plan) /\ ~superIOStopped /\ next' = next /\ addStep' = "list"
          /\ UNCHANGED <<sensors, handled, superIOStopped>> /\ ~(next > Len(Plan))
      BY <1>2 DEF Types
    <3>6. \A k \in handled' : Listed(k)'
      BY <3>5 DEF AddInv, Listed
    <3>7. \A i, j \in 1..Len(sensors') : sensors'[i] = sensors'[j] => i = j
      BY <3>5 DEF AddInv
    <3>8. (IF addStep' = "handler" THEN 1 ELSE 0) = 0 /\ next' + 0 = next'
      BY <3>5 DEF Types
    <3>. QED BY <3>2, <3>3, <3>4, <3>5, <3>6, <3>7, <3>8 DEF AddInv
  <2>3. \A c \in Clients : looking[c].name # Free => deviceLock' = deviceLock
    BY <1>2 DEF LockTachometer, LockDevice, LookInv
  <2>4. LookInv'
    BY <1>2, <2>3 DEF LookInv
  <2>. QED BY <2>1, <2>2, <2>4
<1>. QED BY <1>1, <1>2

LEMMA ListRight ==
  ASSUME SensorsInv, ListSensor PROVE SensorsInv'
<1>. USE SensorsAssumption DEF SensorsInv
<1>1. /\ addStep = "list" /\ addStep' = "handler" /\ next <= Len(Plan) /\ ~superIOStopped
      /\ sensors' = Append(sensors, Name)
      /\ UNCHANGED <<next, deviceLock, looking, superIOStopped, handled>>
  BY DEF ListSensor, Adding, FirstListed
<1>2. changedAmid' = IF Name \in TachometerKeys THEN changedAmid
                     ELSE changedAmid \cup {r \in SensorReaders : looking[r].name # Free}
  BY DEF ListSensor
<1>3. Name \in PlanNames
  BY <1>1, NameInPlan
<1>4. /\ sensors' \in Seq(PlanNames) /\ Len(sensors') = Len(sensors) + 1
      /\ \A i \in 1..Len(sensors) : sensors'[i] = sensors[i]
      /\ sensors'[Len(sensors) + 1] = Name
      /\ Len(sensors) \in Nat
  BY <1>1, <1>3 DEF Types
<1>5. Types'
  BY <1>1, <1>2, <1>4 DEF Types
<1>6. AddInv'
  <2>1. \A k : Listed(k) => Listed(k)'
    BY <1>1, <1>4 DEF Listed
  <2>2. Listed(Name)' /\ Name' = Name
    BY <1>1, <1>4 DEF Listed, Name
  <2>3. \A i, j \in 1..Len(sensors') : sensors'[i] = sensors'[j] => i = j
    BY <1>1, <1>4 DEF AddInv, Listed
  <2>4. Len(sensors') < next' + 1
    BY <1>1, <1>4 DEF AddInv, Types
  <2>5. \A k \in handled' : Listed(k)'
    BY <1>1, <2>1 DEF AddInv
  <2>. QED BY <1>1, <2>2, <2>3, <2>4, <2>5 DEF AddInv
<1>7. LookInv'
  <2>1. \A c \in Clients : looking[c].name # Free /\ c \notin changedAmid' => FALSE
    BY <1>1, <1>2 DEF LookInv, AddInv, SensorReaders
  <2>. QED BY <1>1, <2>1 DEF LookInv
<1>. QED BY <1>5, <1>6, <1>7

LEMMA HandleRight ==
  ASSUME SensorsInv, HandleKey PROVE SensorsInv'
<1>. USE SensorsAssumption DEF SensorsInv
<1>1. /\ addStep = "handler" /\ addStep' = "lookup" /\ next <= Len(Plan) /\ ~superIOStopped
      /\ next' = next + 1 /\ deviceLock \in {Free, Adder} /\ deviceLock' = Free
      /\ handled' = handled \cup {Name}
      /\ UNCHANGED <<sensors, looking, superIOStopped, changedAmid>>
  BY DEF HandleKey, Adding, FirstListed, NextSensor, UnlockTachometer, UnlockDevice
<1>2. Name \in PlanNames
  BY <1>1, NameInPlan
<1>3. Types'
  BY <1>1, <1>2 DEF Types
<1>4. AddInv'
  <2>1. \A k \in handled' : Listed(k)'
    BY <1>1 DEF AddInv, Listed
  <2>2. Len(sensors') < next'
    BY <1>1 DEF AddInv, Types
  <2>. QED BY <1>1, <2>1, <2>2 DEF AddInv
<1>5. \A c \in Clients : looking[c].name = Free
  BY <1>1 DEF LookInv
<1>6. LookInv'
  BY <1>1, <1>5 DEF LookInv
<1>. QED BY <1>3, <1>4, <1>6

LEMMA BeginRight ==
  ASSUME SensorsInv, NEW r \in SensorReaders, BeginLooking(r) PROVE SensorsInv'
<1>. USE SensorsAssumption DEF SensorsInv
<1>1. PICK k \in handled :
        looking' = [looking EXCEPT ![r] = [NotLooking EXCEPT !.name = k, !.size = Len(sensors)]]
  BY DEF BeginLooking
<1>. DEFINE new == [NotLooking EXCEPT !.name = k, !.size = Len(sensors)]
<1>2. new \in Lookings /\ new.name = k /\ new.size = Len(sensors) /\ new.at = 0 /\ new.result = "none"
  <2>1. Len(sensors) \in Nat /\ k \in PlanNames
    BY DEF Types
  <2>. DEFINE m == [NotLooking EXCEPT !.name = k]
  <2>2. m \in Lookings /\ m.name = k /\ m.at = 0 /\ m.result = "none"
    BY <2>1 DEF NotLooking, Lookings
  <2>3. new = [m EXCEPT !.size = Len(sensors)]
    OBVIOUS
  <2>. HIDE DEF m
  <2>4. /\ [m EXCEPT !.size = Len(sensors)] \in Lookings
        /\ \A f \in {"name", "at", "result"} : [m EXCEPT !.size = Len(sensors)][f] = m[f]
        /\ [m EXCEPT !.size = Len(sensors)].size = Len(sensors)
    BY <2>1, <2>2 DEF Lookings
  <2>. QED BY <2>2, <2>3, <2>4
<1>. HIDE DEF new
<1>3. looking' \in [SensorReaders -> Lookings] /\ looking'[r] = new
      /\ \A q \in SensorReaders : q # r => looking'[q] = looking[q]
  BY <1>1, <1>2 DEF new, Types
<1>4. Types'
  BY <1>3 DEF Types, BeginLooking, LockDevice
<1>5. AddInv'
  BY DEF AddInv, BeginLooking, LockDevice, Listed, Name
<1>6. k # Free
  BY DEF Types
<1>7. LookInv'
  <2>1. r \in Clients => deviceLock = Free /\ deviceLock' = r
    BY DEF BeginLooking, LockDevice
  <2>2. r \notin Clients => deviceLock' = deviceLock
    BY DEF BeginLooking
  <2>3. /\ UNCHANGED <<sensors, handled, superIOStopped>>
        /\ changedAmid' = changedAmid \ {r}
    BY DEF BeginLooking
  <2>4. Len(Plan) \in Nat
    OBVIOUS
  <2>5. ASSUME NEW q \in SensorReaders
        PROVE  /\ looking'[q].name = Free => looking'[q].result = "none" /\ looking'[q].at = 0
               /\ looking'[q].at <= Len(Plan) + 1
               /\ looking'[q].result = "none" => looking'[q].at <= Len(Plan)
    BY <1>2, <1>3, <1>6, <2>4 DEF LookInv
  <2>6. ASSUME NEW c \in Clients, looking'[c].name # Free
        PROVE  /\ deviceLock' = c /\ looking'[c].name \in handled'
               /\ c \notin changedAmid' /\ ~superIOStopped' =>
                    /\ looking'[c].size = Len(sensors') /\ looking'[c].result # "failed"
                    /\ looking'[c].result = "none" => \A j \in 1..Len(sensors') :
                         j <= looking'[c].at => sensors'[j] # looking'[c].name
    <3>1. CASE c = r
      BY <1>2, <1>3, <2>1, <2>3, <2>6, <3>1 DEF SensorReaders
    <3>2. CASE c # r
      <4>1. looking'[c] = looking[c] /\ looking[c].name # Free
        BY <1>3, <2>6, <3>2 DEF SensorReaders
      <4>2. deviceLock = c
        BY <4>1 DEF LookInv
      <4>3. deviceLock' = deviceLock
        BY <2>1, <2>2, <4>2
      <4>. QED BY <2>3, <3>2, <4>1, <4>2, <4>3 DEF LookInv
    <3>. QED BY <3>1, <3>2
  <2>. QED BY <2>5, <2>6 DEF LookInv
<1>. QED BY <1>4, <1>5, <1>7

LEMMA LookRight ==
  ASSUME SensorsInv, NEW r \in SensorReaders, LookAtNext(r) PROVE SensorsInv'
<1>. USE SensorsAssumption DEF SensorsInv
<1>. DEFINE at == looking[r].at + 1
            over == Len(sensors) # looking[r].size \/ at > Len(sensors)
            result == IF over THEN "failed" ELSE IF sensors[at] = looking[r].name THEN "found" ELSE "none"
            new == [looking[r] EXCEPT !.at = at, !.result = result]
<1>1. /\ looking[r].name # Free /\ looking[r].result = "none"
      /\ looking' = [looking EXCEPT ![r] = new]
      /\ UNCHANGED <<sensors, next, addStep, handled, superIOStopped, changedAmid, deviceLock>>
  BY DEF LookAtNext
<1>2. looking[r] \in Lookings /\ Len(sensors) \in Nat /\ Len(Plan) \in Nat /\ Len(sensors) <= Len(Plan)
  BY ListFits DEF Types
<1>3. /\ new \in Lookings /\ new.name = looking[r].name /\ new.size = looking[r].size
      /\ new.at = at /\ new.result = result
  <2>1. at \in Nat /\ result \in {"none", "found", "failed"}
    BY <1>2 DEF Lookings
  <2>. HIDE DEF at, result
  <2>. DEFINE m == [looking[r] EXCEPT !.at = at]
  <2>2. m \in Lookings /\ m.name = looking[r].name /\ m.size = looking[r].size /\ m.at = at
    BY <1>2, <2>1 DEF Lookings
  <2>3. new = [m EXCEPT !.result = result]
    OBVIOUS
  <2>. HIDE DEF m
  <2>4. /\ [m EXCEPT !.result = result] \in Lookings
        /\ \A f \in {"name", "at", "size"} : [m EXCEPT !.result = result][f] = m[f]
        /\ [m EXCEPT !.result = result].result = result
    BY <2>1, <2>2 DEF Lookings
  <2>. QED BY <2>2, <2>3, <2>4
<1>4. /\ at \in Nat /\ at = looking[r].at + 1 /\ at <= Len(Plan) + 1
  BY <1>1, <1>2 DEF LookInv, Lookings
<1>5. result = "none" => at <= Len(sensors) /\ sensors[at] # looking[r].name
  BY <1>2, <1>4
<1>6. result = "failed" => Len(sensors) # looking[r].size \/ at > Len(sensors)
  OBVIOUS
<1>. HIDE DEF at, over, result, new
<1>7. looking' \in [SensorReaders -> Lookings] /\ looking'[r] = new
      /\ \A q \in SensorReaders : q # r => looking'[q] = looking[q]
  BY <1>1, <1>3 DEF Types
<1>8. Types'
  BY <1>1, <1>7 DEF Types
<1>9. AddInv'
  BY <1>1 DEF AddInv, Listed, Name
<1>10. ASSUME NEW q \in SensorReaders
       PROVE  /\ looking'[q].name = Free => looking'[q].result = "none" /\ looking'[q].at = 0
              /\ looking'[q].at <= Len(Plan) + 1
              /\ looking'[q].result = "none" => looking'[q].at <= Len(Plan)
  BY <1>1, <1>2, <1>3, <1>4, <1>5, <1>7 DEF LookInv
<1>11. ASSUME r \in Clients, r \notin changedAmid, ~superIOStopped
       PROVE  /\ new.size = Len(sensors) /\ new.result # "failed"
              /\ new.result = "none" => \A j \in 1..Len(sensors) :
                   j <= new.at => sensors[j] # new.name
  <2>1. /\ looking[r].size = Len(sensors) /\ looking[r].name \in handled
        /\ \A j \in 1..Len(sensors) : j <= looking[r].at => sensors[j] # looking[r].name
    BY <1>1, <1>11 DEF LookInv
  <2>2. PICK i \in 1..Len(sensors) : sensors[i] = looking[r].name
    BY <1>11, <2>1 DEF AddInv, Listed
  <2>3. looking[r].at \in Nat /\ i > looking[r].at
    BY <1>2, <2>1, <2>2 DEF Lookings
  <2>4. at <= Len(sensors)
    BY <1>2, <1>4, <2>3
  <2>. QED BY <1>2, <1>3, <1>4, <1>5, <1>6, <2>1, <2>3, <2>4
<1>12. ASSUME NEW c \in Clients, looking'[c].name # Free
       PROVE  /\ deviceLock' = c /\ looking'[c].name \in handled'
              /\ c \notin changedAmid' /\ ~superIOStopped' =>
                   /\ looking'[c].size = Len(sensors') /\ looking'[c].result # "failed"
                   /\ looking'[c].result = "none" => \A j \in 1..Len(sensors') :
                        j <= looking'[c].at => sensors'[j] # looking'[c].name
  <2>1. CASE c = r
    BY <1>1, <1>3, <1>7, <1>11, <2>1 DEF LookInv
  <2>2. CASE c # r
    BY <1>1, <1>7, <1>12, <2>2 DEF LookInv, SensorReaders
  <2>. QED BY <2>1, <2>2
<1>. QED BY <1>8, <1>9, <1>10, <1>12 DEF LookInv

LEMMA ReturnRight ==
  ASSUME SensorsInv, NEW r \in SensorReaders, ReturnSensorValue(r) PROVE SensorsInv'
<1>. USE SensorsAssumption DEF SensorsInv
<1>1. /\ looking[r].result # "none" /\ looking' = [looking EXCEPT ![r] = NotLooking]
      /\ changedAmid' = changedAmid \ {r}
      /\ UNCHANGED <<sensors, next, addStep, handled, superIOStopped>>
  BY DEF ReturnSensorValue
<1>2. NotLooking \in Lookings /\ NotLooking.name = Free /\ NotLooking.result = "none" /\ NotLooking.at = 0
  BY DEF NotLooking, Lookings
<1>3. looking' \in [SensorReaders -> Lookings] /\ looking'[r] = NotLooking
      /\ \A q \in SensorReaders : q # r => looking'[q] = looking[q]
  BY <1>1, <1>2 DEF Types
<1>4. r \in Clients => deviceLock = r /\ deviceLock' = Free
  BY <1>1 DEF LookInv, ReturnSensorValue, UnlockDevice
<1>5. r \notin Clients => deviceLock' = deviceLock
  BY DEF ReturnSensorValue
<1>6. Types'
  BY <1>1, <1>3, <1>4, <1>5 DEF Types
<1>7. AddInv'
  BY <1>1, <1>4, <1>5 DEF AddInv, Listed, Name
<1>8. LookInv'
  <2>1. Len(Plan) \in Nat
    OBVIOUS
  <2>2. \A c \in Clients : looking'[c].name # Free => c # r /\ looking'[c] = looking[c]
    BY <1>2, <1>3 DEF SensorReaders
  <2>3. \A c \in Clients : looking'[c].name # Free => (c \notin changedAmid' => c \notin changedAmid)
    BY <1>1, <2>2
  <2>4. \A c \in Clients : looking'[c].name # Free => deviceLock' = deviceLock
    BY <1>4, <1>5, <2>2 DEF LookInv
  <2>. QED BY <1>1, <1>2, <1>3, <2>1, <2>2, <2>3, <2>4 DEF LookInv
<1>. QED BY <1>6, <1>7, <1>8

LEMMA StopRight ==
  ASSUME SensorsInv, StopSuperIO PROVE SensorsInv'
<1>. USE SensorsAssumption DEF SensorsInv
<1>1. Types'
  BY DEF Types, StopSuperIO
<1>2. AddInv'
  BY DEF Types, AddInv, StopSuperIO, Listed
<1>3. LookInv'
  BY DEF LookInv, StopSuperIO
<1>. QED BY <1>1, <1>2, <1>3

LEMMA SensorsInvariant == SensorsSpec => []SensorsInv
<1>1. SensorsInv /\ [SensorsNext]_sensorVars => SensorsInv'
  <2>. SUFFICES ASSUME SensorsInv, [SensorsNext]_sensorVars PROVE SensorsInv'
    OBVIOUS
  <2>1. CASE UNCHANGED sensorVars
    <3>1. UNCHANGED <<sensors, next, addStep, handled, looking, superIOStopped, changedAmid, deviceLock>>
      BY <2>1 DEF sensorVars, listVars
    <3>2. Types'
      BY <3>1 DEF SensorsInv, Types
    <3>3. AddInv'
      BY <3>1 DEF SensorsInv, AddInv, Listed, Name
    <3>4. LookInv'
      BY <3>1 DEF SensorsInv, LookInv
    <3>. QED BY <3>2, <3>3, <3>4 DEF SensorsInv
  <2>. QED BY <2>1, LookUpRight, ListRight, HandleRight, BeginRight, LookRight, ReturnRight, StopRight
              DEF SensorsNext
<1>. QED BY <1>1, SensorsInitRight, PTL DEF SensorsSpec

(* Type correctness; no name is in the list twice.                         *)
THEOREM SensorsTypeCorrect == SensorsSpec => []SensorsTypeOK
<1>1. SensorsInv => SensorsTypeOK
  <2>. SUFFICES ASSUME SensorsInv PROVE SensorsTypeOK
    OBVIOUS
  <2>1. \A r \in SensorReaders : looking[r].at \in 0 .. Len(Plan) + 1
    BY SensorsAssumption DEF SensorsInv, Types, LookInv, Lookings
  <2>. QED BY <2>1 DEF SensorsInv, Types, AddInv, SensorsTypeOK
<1>. QED BY <1>1, SensorsInvariant, PTL

(* A key is in the list before anybody is called for it, and a reading     *)
(* under the lock finds its sensor while only tachometers are added.       *)
THEOREM ReadingsAlwaysFind == SensorsSpec => []ReadingsFind
<1>1. SensorsInv => HandledKeysListed
  BY DEF SensorsInv, AddInv, Listed, HandledKeysListed
<1>2. SensorsInv => LockedReadingsFind
  BY DEF SensorsInv, LookInv, LockedReadingsFind, SensorReaders
<1>3. SensorsInv => ReadingsFind
  BY <1>1, <1>2 DEF ReadingsFind
<1>. QED BY <1>3, SensorsInvariant, PTL
--------------------------------------------------------------------------------
(* Proofs about what a recursive function makes of any sequence go by      *)
(* induction over the natural numbers: a set of them that is not empty has *)
(* a least member, which the library's theorems on well-founded relations  *)
(* give.                                                                   *)
LEMMA LessThan == \A x, y \in Nat : x < y <=> <<x, y>> \in OpToRel(<, Nat)
  BY DEF OpToRel

LEMMA Smallest == ASSUME NEW T, T \subseteq Nat, T # {} PROVE \E n \in T : \A m \in T : n <= m
<1>1. IsWellFoundedOn(OpToRel(<, Nat), Nat)
  BY NatLessThanWellFounded, Zenon
<1>2. \E n \in T : \A m \in T : ~ (<<m, n>> \in OpToRel(<, Nat))
  BY <1>1, WFMin, Zenon
<1>3. ASSUME NEW n \in T, \A m \in T : ~ (<<m, n>> \in OpToRel(<, Nat)) PROVE \A m \in T : n <= m
  <2>1. \A m \in T : ~ (m < n)
    BY <1>3, LessThan, Zenon
  <2>. QED BY <2>1
<1>. QED BY <1>2, <1>3, Zenon

(* Induction, over the members of a set. *)
LEMMA CountUp ==
  ASSUME NEW k \in Nat, NEW P, k \in P, \A n \in Nat : n >= k /\ n \in P => n + 1 \in P
  PROVE  \A n \in Nat : n >= k => n \in P
<1>. DEFINE T == {n \in Nat : n >= k /\ n \notin P}
<1>. SUFFICES ASSUME T # {} PROVE FALSE
  OBVIOUS
<1>1. PICK n \in T : \A m \in T : n <= m
  <2>1. T \subseteq Nat
    OBVIOUS
  <2>. HIDE DEF T
  <2>. QED BY <2>1, Smallest
<1>2. n # k /\ n - 1 \in Nat /\ n - 1 >= k
  BY <1>1
<1>3. n - 1 \in P
  BY <1>1, <1>2
<1>. QED BY <1>1, <1>2, <1>3

(* The function by which FlattenSeq is defined. *)
Unrolled(seqs, f) ==
  f = [i \in 1..Len(seqs) |-> IF i = 1 THEN seqs[i] ELSE f[i-1] \o seqs[i]]

(* There is such a function, so that the CHOOSE that stands for it is one. *)
LEMMA UnrolledExists ==
  ASSUME NEW S, NEW seqs \in Seq(S), seqs # <<>> PROVE \E f : Unrolled(seqs, f)
<1>. DEFINE Upto(g, k) == g = [i \in 1..k |-> IF i = 1 THEN seqs[i] ELSE g[i-1] \o seqs[i]]
            P == {k \in Nat : \E g : Upto(g, k)}
<1>1. 1 \in P
  <2>1. Upto([i \in 1..1 |-> seqs[i]], 1)
    OBVIOUS
  <2>. QED BY <2>1
<1>2. ASSUME NEW k \in Nat, k >= 1, k \in P PROVE k + 1 \in P
  <2>1. PICK g : Upto(g, k)
    BY <1>2
  <2>. DEFINE h == [i \in 1..(k+1) |-> IF i = k + 1 THEN g[k] \o seqs[k+1] ELSE g[i]]
  <2>2. /\ DOMAIN h = 1..(k+1) /\ \A i \in 1..k : h[i] = g[i]
        /\ h[k+1] = g[k] \o seqs[k+1]
    <3>1. k + 1 \in 1..(k+1)
      OBVIOUS
    <3>2. h[k+1] = g[k] \o seqs[k+1]
      BY <3>1, Zenon
    <3>3. \A i \in 1..k : h[i] = g[i]
      OBVIOUS
    <3>4. DOMAIN h = 1..(k+1)
      OBVIOUS
    <3>. QED BY <3>2, <3>3, <3>4, Zenon
  <2>. HIDE DEF h
  <2>3. \A i \in 1..k : h[i] = IF i = 1 THEN seqs[i] ELSE h[i-1] \o seqs[i]
    <3>1. \A i \in 1..k : g[i] = IF i = 1 THEN seqs[i] ELSE g[i-1] \o seqs[i]
      BY <2>1
    <3>2. \A i \in 1..k : i # 1 => i - 1 \in 1..k
      OBVIOUS
    <3>. QED BY <2>2, <3>1, <3>2
  <2>4. h[k+1] = IF k + 1 = 1 THEN seqs[k+1] ELSE h[(k+1)-1] \o seqs[k+1]
    <3>1. k \in 1..k /\ (k+1)-1 = k /\ k + 1 # 1
      BY <1>2
    <3>. QED BY <2>2, <3>1
  <2>5. \A i \in 1..(k+1) : i = k + 1 \/ i \in 1..k
    OBVIOUS
  <2>6. \A i \in 1..(k+1) : h[i] = IF i = 1 THEN seqs[i] ELSE h[i-1] \o seqs[i]
    BY <2>3, <2>4, <2>5
  <2>7. h = [i \in 1..(k+1) |-> h[i]]
    BY DEF h
  <2>8. Upto(h, k + 1)
    BY <2>6, <2>7
  <2>9. \E f : Upto(f, k + 1)
    BY <2>8, Zenon
  <2>. HIDE DEF Upto
  <2>. QED BY <2>9
<1>3. Len(seqs) \in Nat /\ Len(seqs) >= 1
  OBVIOUS
<1>. HIDE DEF P
<1>4. Len(seqs) \in P
  BY <1>1, <1>2, <1>3, CountUp
<1>. QED BY <1>4 DEF P, Unrolled

(* FlattenSeq is its last value. *)
LEMMA FlattenIsLast ==
  ASSUME NEW S, NEW seqs \in Seq(S), seqs # <<>>
  PROVE  \E f : Unrolled(seqs, f) /\ FlattenSeq(seqs) = f[Len(seqs)]
<1>1. Len(seqs) # 0
  OBVIOUS
<1>. DEFINE F == CHOOSE f : f = [i \in 1..Len(seqs) |-> IF i = 1 THEN seqs[i] ELSE f[i-1] \o seqs[i]]
<1>2. FlattenSeq(seqs) = F[Len(seqs)]
  BY <1>1 DEF FlattenSeq
<1>3. Unrolled(seqs, F)
  BY UnrolledExists DEF Unrolled
<1>. QED BY <1>2, <1>3

LEMMA Joined ==
  ASSUME NEW S, NEW a \in Seq(S), NEW b \in Seq(S)
  PROVE  /\ a \o b \in Seq(S) /\ Len(a) \in Nat /\ Len(b) \in Nat /\ Len(a \o b) = Len(a) + Len(b)
         /\ \A j \in 1..Len(a) : (a \o b)[j] = a[j]
         /\ \A j \in 1..Len(b) : (a \o b)[Len(a) + j] = b[j]
  OBVIOUS

(* A sequence stands in another behind its first x members. *)
Stands(s, c, x, y) == y = x + Len(s) /\ y <= Len(c) /\ \A k \in 1..Len(s) : c[x + k] = s[k]

(* Where the i-th of several sequences ends when they are one. *)
Layout(seqs, pos) ==
  /\ pos \in [0..Len(seqs) -> Nat] /\ pos[0] = 0 /\ pos[Len(seqs)] = Len(FlattenSeq(seqs))
  /\ \A i \in 1..Len(seqs) : Stands(seqs[i], FlattenSeq(seqs), pos[i-1], pos[i])

(* What is appended stands behind what was there, and what stands in a *)
(* sequence stays there when something is appended.                    *)
LEMMA StandsLast ==
  ASSUME NEW S, NEW a \in Seq(S), NEW b \in Seq(S) PROVE Stands(b, a \o b, Len(a), Len(a \o b))
  BY DEF Stands

LEMMA StandsStill ==
  ASSUME NEW S, NEW a \in Seq(S), NEW b \in Seq(S), NEW s, Len(s) \in Nat, NEW x \in Nat, NEW y,
         Stands(s, a, x, y)
  PROVE  Stands(s, a \o b, x, y)
<1>1. y \in Nat /\ Len(a) \in Nat /\ Len(b) \in Nat /\ Len(a \o b) = Len(a) + Len(b)
  BY DEF Stands
<1>2. y <= Len(a \o b)
  BY <1>1 DEF Stands
<1>3. ASSUME NEW k \in 1..Len(s) PROVE (a \o b)[x + k] = s[k]
  <2>1. x + k \in 1..Len(a)
    BY <1>1 DEF Stands
  <2>2. (a \o b)[x + k] = a[x + k]
    BY <2>1
  <2>. QED BY <2>2 DEF Stands
<1>. QED BY <1>2, <1>3 DEF Stands

(* Each of the sequences stands in the flattened one, one behind the other. *)
LEMMA FlattenedLayout ==
  ASSUME NEW S, NEW seqs \in Seq(Seq(S))
  PROVE  FlattenSeq(seqs) \in Seq(S) /\ \E pos : Layout(seqs, pos)
<1>1. CASE seqs = <<>>
  <2>1. FlattenSeq(seqs) = <<>> /\ Len(seqs) = 0
    BY <1>1 DEF FlattenSeq
  <2>2. Layout(seqs, [i \in 0..0 |-> 0])
    BY <2>1 DEF Layout
  <2>. QED BY <2>1, <2>2
<1>2. CASE seqs # <<>>
  <2>. DEFINE n == Len(seqs)
  <2>0. n \in Nat /\ n >= 1 /\ \A i \in 1..n : seqs[i] \in Seq(S)
    BY <1>2
  <2>1. PICK f : Unrolled(seqs, f) /\ FlattenSeq(seqs) = f[n]
    BY <1>2, FlattenIsLast
  <2>2. \A i \in 1..n : f[i] = IF i = 1 THEN seqs[i] ELSE f[i-1] \o seqs[i]
    BY <2>1 DEF Unrolled
  <2>. HIDE DEF n
  <2>3. \A m \in 1..n : f[m] \in Seq(S)
    <3>. DEFINE P == {m \in Nat : m > n \/ f[m] \in Seq(S)}
    <3>1. 1 \in P
      BY <2>0, <2>2
    <3>2. ASSUME NEW m \in Nat, m >= 1, m \in P PROVE m + 1 \in P
      <4>1. CASE m + 1 > n
        BY <4>1
      <4>2. CASE m + 1 <= n
        <5>1. f[m] \in Seq(S) /\ seqs[m+1] \in Seq(S) /\ m + 1 \in 1..n /\ m + 1 # 1 /\ (m + 1) - 1 = m
          BY <2>0, <3>2, <4>2
        <5>2. f[m+1] = f[m] \o seqs[m+1]
          BY <2>2, <5>1
        <5>3. f[m+1] \in Seq(S)
          BY <5>1, <5>2, Joined
        <5>. QED BY <5>3
      <4>. QED BY <2>0, <4>1, <4>2
    <3>. HIDE DEF P
    <3>3. \A m \in Nat : m >= 1 => m \in P
      BY <3>1, <3>2, CountUp
    <3>. QED BY <2>0, <3>3 DEF P
  <2>. DEFINE pos == [i \in 0..n |-> IF i = 0 THEN 0 ELSE Len(f[i])]
  <2>4. pos \in [0..n -> Nat] /\ pos[0] = 0 /\ \A i \in 1..n : pos[i] = Len(f[i])
    BY <2>0, <2>3
  <2>. HIDE DEF pos
  <2>6. \A m \in 1..n : \A i \in 1..m : Stands(seqs[i], f[m], pos[i-1], pos[i])
    <3>. DEFINE P == {m \in Nat : m > n \/ \A i \in 1..m : Stands(seqs[i], f[m], pos[i-1], pos[i])}
    <3>1. 1 \in P
      <4>1. f[1] = seqs[1] /\ pos[1] = Len(f[1]) /\ pos[1-1] = 0 /\ seqs[1] \in Seq(S)
        BY <2>0, <2>2, <2>4
      <4>2. Stands(seqs[1], f[1], pos[1-1], pos[1])
        BY <4>1 DEF Stands
      <4>3. \A i \in 1..1 : i = 1
        OBVIOUS
      <4>. QED BY <4>2, <4>3
    <3>2. ASSUME NEW m \in Nat, m >= 1, m \in P PROVE m + 1 \in P
      <4>1. CASE m + 1 > n
        BY <4>1
      <4>2. CASE m + 1 <= n
        <5>1. /\ f[m] \in Seq(S) /\ seqs[m+1] \in Seq(S) /\ m \in 1..n /\ m + 1 \in 1..n
              /\ m + 1 # 1 /\ (m + 1) - 1 = m
          BY <2>0, <2>3, <3>2, <4>2
        <5>2. f[m+1] = f[m] \o seqs[m+1]
          BY <2>2, <5>1
        <5>3. pos[m] = Len(f[m]) /\ pos[m+1] = Len(f[m+1]) /\ pos[(m+1)-1] = Len(f[m])
          BY <2>4, <5>1
        <5>4. Stands(seqs[m+1], f[m+1], pos[(m+1)-1], pos[m+1])
          <6>1. Stands(seqs[m+1], f[m] \o seqs[m+1], Len(f[m]), Len(f[m] \o seqs[m+1]))
            BY <5>1, StandsLast
          <6>. QED BY <5>2, <5>3, <6>1, Zenon
        <5>5. ASSUME NEW i \in 1..m PROVE Stands(seqs[i], f[m+1], pos[i-1], pos[i])
          <6>1. Stands(seqs[i], f[m], pos[i-1], pos[i])
            BY <2>0, <3>2, <4>2
          <6>2. i \in 1..n /\ i - 1 \in 0..n
            BY <2>0, <4>2
          <6>3. pos[i-1] \in Nat /\ Len(seqs[i]) \in Nat
            <7>1. pos[i-1] \in Nat
              BY <2>4, <6>2
            <7>2. seqs[i] \in Seq(S)
              BY <2>0, <6>2
            <7>. QED BY <7>1, <7>2
          <6>4. Stands(seqs[i], f[m] \o seqs[m+1], pos[i-1], pos[i])
            BY <5>1, <6>1, <6>3, StandsStill
          <6>. QED BY <5>2, <6>4, Zenon
        <5>6. \A i \in 1..(m+1) : i = m + 1 \/ i \in 1..m
          OBVIOUS
        <5>7. \A i \in 1..(m+1) : Stands(seqs[i], f[m+1], pos[i-1], pos[i])
          BY <5>4, <5>5, <5>6, Zenon
        <5>. QED BY <5>7
      <4>. QED BY <2>0, <4>1, <4>2
    <3>. HIDE DEF P
    <3>3. \A m \in Nat : m >= 1 => m \in P
      BY <3>1, <3>2, CountUp
    <3>4. ASSUME NEW m \in 1..n PROVE \A i \in 1..m : Stands(seqs[i], f[m], pos[i-1], pos[i])
      <4>1. m \in P /\ ~(m > n)
        BY <2>0, <3>3
      <4>. QED BY <4>1 DEF P
    <3>. QED BY <3>4
  <2>7. n \in 1..n
    BY <2>0
  <2>8. \A i \in 1..n : Stands(seqs[i], f[n], pos[i-1], pos[i])
    BY <2>6, <2>7
  <2>9. Layout(seqs, pos)
    BY <2>0, <2>1, <2>4, <2>7, <2>8 DEF Layout, n
  <2>. QED BY <2>1, <2>3, <2>7, <2>9
<1>. QED BY <1>1, <1>2

(* What a BIOS writes: TablesAssumption, for one structure. *)
WellFormed(s) ==
  /\ s \in SMBStructures /\ Len(s.handle) = 2 /\ Header + Len(s.refs) < 256
  /\ \A j \in 1..Len(s.refs) : s.refs[j] \in 0..Len(s.strings)
  /\ \A j \in 1..Len(s.strings) : s.strings[j] # <<>>

(* Where the strings of a structure end, counted from the first; its size. *)
StringEnds(s, ends) ==
  /\ ends \in [0..Len(s.strings) -> Nat] /\ ends[0] = 0
  /\ \A j \in 1..Len(s.strings) :
       ends[j] = ends[j-1] + Len(s.strings[j]) + 1 /\ ends[j] <= ends[Len(s.strings)]

StringsAt(s) == Header + Len(s.refs)

Size(s, ends) == StringsAt(s) + ends[Len(s.strings)] + (IF s.strings = <<>> THEN 2 ELSE 1)

(* The bytes of a structure, counted from 1. *)
Spells(b, s, ends) ==
  /\ b[1] = s.type /\ b[2] = StringsAt(s) /\ \A j \in 1..Len(s.refs) : b[Header + j] = s.refs[j]
  /\ \A j \in 1..Len(s.strings) :
       /\ \A k \in 1..Len(s.strings[j]) : b[StringsAt(s) + ends[j-1] + k] = s.strings[j][k]
       /\ b[StringsAt(s) + ends[j]] = 0
  /\ b[Size(s, ends)] = 0 /\ b[Size(s, ends) - 1] = 0

LEMMA Fields ==
  ASSUME NEW s, WellFormed(s)
  PROVE  /\ s.type \in 0..255 /\ s.handle \in Seq(0..255) /\ s.refs \in Seq(Nat)
         /\ s.strings \in Seq(Seq(Chars)) /\ Len(s.handle) = 2
         /\ \A j \in 1..Len(s.refs) : s.refs[j] \in 0..Len(s.strings)
         /\ \A j \in 1..Len(s.strings) : s.strings[j] \in Seq(Chars) /\ s.strings[j] # <<>>
         /\ StringsAt(s) \in Nat /\ StringsAt(s) >= 4 /\ StringsAt(s) < 256
<1>1. s \in SMBStructures
  BY DEF WellFormed
<1>2. s.type \in 0..255 /\ s.handle \in Seq(0..255) /\ s.refs \in Seq(Nat) /\ s.strings \in Seq(Seq(Chars))
  BY <1>1 DEF SMBStructures
<1>3. \A j \in 1..Len(s.strings) : s.strings[j] \in Seq(Chars)
  BY <1>2
<1>4. StringsAt(s) \in Nat /\ StringsAt(s) >= 4 /\ StringsAt(s) < 256
  BY <1>2 DEF WellFormed, StringsAt, Header
<1>. QED BY <1>2, <1>3, <1>4 DEF WellFormed

LEMMA ClosedStrings ==
  ASSUME NEW strings \in Seq(Seq(Chars))
  PROVE  /\ [i \in 1..Len(strings) |-> Append(strings[i], 0)] \in Seq(Seq(Nat))
         /\ Len([i \in 1..Len(strings) |-> Append(strings[i], 0)]) = Len(strings)
         /\ \A i \in 1..Len(strings) :
              /\ Len(Append(strings[i], 0)) = Len(strings[i]) + 1
              /\ Append(strings[i], 0)[Len(strings[i]) + 1] = 0
              /\ \A k \in 1..Len(strings[i]) : Append(strings[i], 0)[k] = strings[i][k]
<1>0. Chars \subseteq Nat
  BY DEF Chars
<1>1. \A i \in 1..Len(strings) : strings[i] \in Seq(Chars)
  OBVIOUS
<1>2. \A t \in Seq(Chars) : /\ Append(t, 0) \in Seq(Nat) /\ Len(Append(t, 0)) = Len(t) + 1
                            /\ Append(t, 0)[Len(t) + 1] = 0
                            /\ \A k \in 1..Len(t) : Append(t, 0)[k] = t[k]
  <2>. TAKE t \in Seq(Chars)
  <2>1. t \in Seq(Nat) /\ 0 \in Nat
    BY <1>0, SeqMonotonic
  <2>. QED BY <2>1, AppendProperties
<1>3. \A i \in 1..Len(strings) :
        /\ Append(strings[i], 0) \in Seq(Nat) /\ Len(Append(strings[i], 0)) = Len(strings[i]) + 1
        /\ Append(strings[i], 0)[Len(strings[i]) + 1] = 0
        /\ \A k \in 1..Len(strings[i]) : Append(strings[i], 0)[k] = strings[i][k]
  BY <1>1, <1>2
<1>. QED BY <1>3

(* The bytes of a structure are what was written. *)
LEMMA BytesSpell ==
  ASSUME NEW s, WellFormed(s)
  PROVE  /\ Bytes(s) \in Seq(Nat)
         /\ \E ends : StringEnds(s, ends) /\ Len(Bytes(s)) = Size(s, ends) /\ Spells(Bytes(s), s, ends)
<1>. DEFINE closed == [i \in 1..Len(s.strings) |-> Append(s.strings[i], 0)]
            flat == FlattenSeq(closed)
            first == <<s.type, Header + Len(s.refs)>>
            head == first \o s.handle
            numbers == head \o s.refs
            body == numbers \o flat
            last == IF s.strings = <<>> THEN <<0, 0>> ELSE <<0>>
<1>1. /\ s.type \in 0..255 /\ s.handle \in Seq(0..255) /\ s.refs \in Seq(Nat)
      /\ s.strings \in Seq(Seq(Chars)) /\ Len(s.handle) = 2
  BY Fields
<1>2. /\ closed \in Seq(Seq(Nat)) /\ Len(closed) = Len(s.strings)
      /\ \A i \in 1..Len(s.strings) :
           /\ Len(closed[i]) = Len(s.strings[i]) + 1
           /\ closed[i][Len(s.strings[i]) + 1] = 0
           /\ \A k \in 1..Len(s.strings[i]) : closed[i][k] = s.strings[i][k]
  BY <1>1, ClosedStrings
<1>. HIDE DEF closed
<1>3. flat \in Seq(Nat) /\ \E pos : Layout(closed, pos)
  BY <1>2, FlattenedLayout
<1>4. PICK ends : Layout(closed, ends)
  BY <1>3
<1>. HIDE DEF flat
<1>5. first \in Seq(Nat) /\ Len(first) = 2 /\ first[1] = s.type /\ first[2] = StringsAt(s)
  <2>1. s.type \in Nat /\ StringsAt(s) \in Nat
    <3>1. \A x \in 0..255 : x \in Nat
      OBVIOUS
    <3>2. StringsAt(s) \in Nat
      BY Fields, Zenon
    <3>. QED BY <1>1, <3>1, <3>2, Zenon
  <2>. QED BY <2>1 DEF StringsAt
<1>. HIDE DEF first
<1>6. head \in Seq(Nat) /\ Len(head) = 4 /\ head[1] = s.type /\ head[2] = StringsAt(s)
  <2>1. s.handle \in Seq(Nat)
    <3>1. 0..255 \subseteq Nat
      OBVIOUS
    <3>. QED BY <1>1, <3>1, SeqMonotonic
  <2>2. /\ head \in Seq(Nat) /\ Len(head) = Len(first) + Len(s.handle)
        /\ \A j \in 1..Len(first) : head[j] = first[j]
    <3>1. first \in Seq(Nat)
      BY <1>5
    <3>. QED BY <2>1, <3>1
  <2>. QED BY <1>1, <1>5, <2>2
<1>. HIDE DEF head
<1>7. /\ numbers \in Seq(Nat) /\ Len(numbers) = StringsAt(s) /\ numbers[1] = s.type
      /\ numbers[2] = StringsAt(s) /\ \A j \in 1..Len(s.refs) : numbers[Header + j] = s.refs[j]
  <2>1. /\ numbers \in Seq(Nat) /\ Len(numbers) = Len(head) + Len(s.refs)
        /\ \A j \in 1..Len(head) : numbers[j] = head[j]
        /\ \A j \in 1..Len(s.refs) : numbers[Len(head) + j] = s.refs[j]
    <3>1. head \in Seq(Nat) /\ s.refs \in Seq(Nat)
      BY <1>1, <1>6
    <3>. QED BY <3>1
  <2>. QED BY <1>6, <2>1 DEF StringsAt, Header
<1>. HIDE DEF numbers
<1>8. /\ body \in Seq(Nat) /\ Len(body) = StringsAt(s) + Len(flat)
      /\ \A j \in 1..StringsAt(s) : body[j] = numbers[j]
      /\ \A j \in 1..Len(flat) : body[StringsAt(s) + j] = flat[j]
  <2>1. numbers \in Seq(Nat) /\ flat \in Seq(Nat)
    BY <1>3, <1>7
  <2>2. /\ body \in Seq(Nat) /\ Len(body) = Len(numbers) + Len(flat)
        /\ \A j \in 1..Len(numbers) : body[j] = numbers[j]
        /\ \A j \in 1..Len(flat) : body[Len(numbers) + j] = flat[j]
    BY <2>1
  <2>3. Len(numbers) = StringsAt(s)
    BY <1>7
  <2>. QED BY <2>2, <2>3, Zenon
<1>. HIDE DEF body
<1>9. /\ last \in Seq(Nat) /\ Len(last) = IF s.strings = <<>> THEN 2 ELSE 1
      /\ \A j \in 1..Len(last) : last[j] = 0
  <2>1. <<0, 0>> \in Seq(Nat) /\ Len(<<0, 0>>) = 2 /\ <<0, 0>>[1] = 0 /\ <<0, 0>>[2] = 0
    OBVIOUS
  <2>2. <<0>> \in Seq(Nat) /\ Len(<<0>>) = 1 /\ <<0>>[1] = 0
    OBVIOUS
  <2>3. (\A j \in 1..2 : j = 1 \/ j = 2) /\ (\A j \in 1..1 : j = 1)
    OBVIOUS
  <2>. QED BY <2>1, <2>2, <2>3
<1>. HIDE DEF last
<1>10. /\ Bytes(s) \in Seq(Nat) /\ Len(Bytes(s)) = Len(body) + Len(last)
       /\ \A j \in 1..Len(body) : Bytes(s)[j] = body[j]
       /\ \A j \in 1..Len(last) : Bytes(s)[Len(body) + j] = last[j]
  <2>1. Bytes(s) = body \o last
    BY DEF Bytes, body, numbers, head, first, flat, closed, last
  <2>2. /\ body \o last \in Seq(Nat) /\ Len(body \o last) = Len(body) + Len(last)
        /\ \A j \in 1..Len(body) : (body \o last)[j] = body[j]
        /\ \A j \in 1..Len(last) : (body \o last)[Len(body) + j] = last[j]
    <3>1. body \in Seq(Nat) /\ last \in Seq(Nat)
      BY <1>8, <1>9
    <3>. QED BY <3>1
  <2>. QED BY <2>1, <2>2, Zenon
<1>11. /\ ends \in [0..Len(s.strings) -> Nat] /\ ends[0] = 0 /\ ends[Len(s.strings)] = Len(flat)
       /\ \A j \in 1..Len(s.strings) : Stands(closed[j], flat, ends[j-1], ends[j])
  BY <1>2, <1>4 DEF Layout, flat
<1>12. StringEnds(s, ends)
  <2>1. \A j \in 1..Len(s.strings) : ends[j] = ends[j-1] + Len(closed[j])
    BY <1>11 DEF Stands
  <2>2. ASSUME NEW j \in 1..Len(s.strings) PROVE ends[j] = ends[j-1] + Len(s.strings[j]) + 1
    <3>1. ends[j-1] \in Nat /\ s.strings[j] \in Seq(Chars)
      <4>1. j \in 1..Len(s.strings) /\ j - 1 \in 0..Len(s.strings)
        <5>1. Len(s.strings) \in Nat
          BY <1>1
        <5>. QED BY <5>1
      <4>2. s.strings[j] \in Seq(Chars)
        BY <1>1, <4>1
      <4>. QED BY <1>11, <4>1, <4>2
    <3>2. Len(s.strings[j]) \in Nat
      BY <3>1
    <3>3. ends[j] = ends[j-1] + Len(closed[j]) /\ Len(closed[j]) = Len(s.strings[j]) + 1
      BY <1>2, <2>1
    <3>. QED BY <3>1, <3>2, <3>3
  <2>3. \A j \in 1..Len(s.strings) : ends[j] <= ends[Len(s.strings)]
    BY <1>11 DEF Stands
  <2>. QED BY <1>11, <2>2, <2>3 DEF StringEnds
<1>13. Len(Bytes(s)) = Size(s, ends)
  BY <1>8, <1>9, <1>10, <1>11, Fields DEF Size
<1>14. Len(flat) \in Nat /\ Len(body) \in Nat /\ StringsAt(s) \in Nat /\ StringsAt(s) >= 4
  <2>1. Len(flat) \in Nat
    BY <1>3
  <2>2. Len(body) \in Nat
    BY <1>8
  <2>. QED BY <2>1, <2>2, Fields, Zenon
<1>15. /\ \A j \in 1..StringsAt(s) : Bytes(s)[j] = numbers[j]
       /\ \A j \in 1..Len(flat) : Bytes(s)[StringsAt(s) + j] = flat[j]
  <2>1. ASSUME NEW j \in 1..StringsAt(s) PROVE Bytes(s)[j] = numbers[j]
    <3>1. j \in 1..Len(body) /\ body[j] = numbers[j]
      BY <1>8, <1>14
    <3>. QED BY <1>10, <3>1
  <2>2. ASSUME NEW j \in 1..Len(flat) PROVE Bytes(s)[StringsAt(s) + j] = flat[j]
    <3>1. StringsAt(s) + j \in 1..Len(body) /\ body[StringsAt(s) + j] = flat[j]
      BY <1>8, <1>14
    <3>. QED BY <1>10, <3>1
  <2>. QED BY <2>1, <2>2
<1>16. /\ Bytes(s)[1] = s.type /\ Bytes(s)[2] = StringsAt(s)
       /\ \A j \in 1..Len(s.refs) : Bytes(s)[Header + j] = s.refs[j]
  <2>1. 1 \in 1..StringsAt(s) /\ 2 \in 1..StringsAt(s)
    BY <1>14
  <2>2. ASSUME NEW j \in 1..Len(s.refs) PROVE Bytes(s)[Header + j] = s.refs[j]
    <3>1. StringsAt(s) = 4 + Len(s.refs) /\ Header = 4 /\ Len(s.refs) \in Nat
      BY <1>1 DEF StringsAt, Header
    <3>2. Header + j \in 1..StringsAt(s)
      BY <3>1
    <3>. QED BY <1>7, <1>15, <3>2
  <2>. QED BY <1>7, <1>15, <2>1, <2>2
<1>17. ASSUME NEW j \in 1..Len(s.strings)
       PROVE  /\ \A k \in 1..Len(s.strings[j]) :
                   Bytes(s)[StringsAt(s) + ends[j-1] + k] = s.strings[j][k]
              /\ Bytes(s)[StringsAt(s) + ends[j]] = 0
  <2>1. /\ ends[j] = ends[j-1] + Len(closed[j]) /\ ends[j] <= Len(flat)
        /\ \A k \in 1..Len(closed[j]) : flat[ends[j-1] + k] = closed[j][k]
    BY <1>11 DEF Stands
  <2>2. /\ Len(closed[j]) = Len(s.strings[j]) + 1 /\ closed[j][Len(s.strings[j]) + 1] = 0
        /\ \A k \in 1..Len(s.strings[j]) : closed[j][k] = s.strings[j][k]
    BY <1>2
  <2>3. ends[j-1] \in Nat /\ Len(s.strings[j]) \in Nat
    <3>1. j \in 1..Len(s.strings) /\ j - 1 \in 0..Len(s.strings)
      <4>1. Len(s.strings) \in Nat
        BY <1>1
      <4>. QED BY <4>1
    <3>2. s.strings[j] \in Seq(Chars)
      BY <1>1, <3>1
    <3>3. Len(s.strings[j]) \in Nat
      BY <3>2
    <3>4. ends[j-1] \in Nat
      BY <1>11, <3>1
    <3>. QED BY <3>3, <3>4
  <2>. DEFINE l == Len(s.strings[j])
              c == Len(closed[j])
              m == Len(flat)
              h == StringsAt(s)
              e == ends[j-1]
              f == ends[j]
  <2>7. c = l + 1 /\ f = e + c /\ f <= m /\ l \in Nat /\ e \in Nat /\ m \in Nat /\ h \in Nat
    BY <1>14, <2>1, <2>2, <2>3, Zenon
  <2>10. /\ l + 1 \in 1..(l + 1) /\ h + e + (l + 1) = h + f
         /\ \A k \in 1..(l + 1) : k \in 1..c /\ e + k \in 1..m
    <3>. HIDE DEF l, c, m, h, e, f
    <3>. QED BY <2>7
  <2>4. ASSUME NEW k \in 1..(Len(s.strings[j]) + 1)
        PROVE  Bytes(s)[StringsAt(s) + ends[j-1] + k] = closed[j][k]
    <3>1. k \in 1..Len(closed[j]) /\ ends[j-1] + k \in 1..Len(flat)
      BY <2>10
    <3>2. flat[ends[j-1] + k] = closed[j][k]
      BY <2>1, <3>1
    <3>3. Bytes(s)[StringsAt(s) + (ends[j-1] + k)] = flat[ends[j-1] + k]
      BY <1>15, <3>1
    <3>4. StringsAt(s) + (ends[j-1] + k) = StringsAt(s) + ends[j-1] + k
      BY <1>14, <2>3
    <3>. QED BY <3>2, <3>3, <3>4
  <2>5. ASSUME NEW k \in 1..Len(s.strings[j])
        PROVE  Bytes(s)[StringsAt(s) + ends[j-1] + k] = s.strings[j][k]
    <3>1. k \in 1..(Len(s.strings[j]) + 1)
      BY <2>3
    <3>. QED BY <2>2, <2>4, <3>1
  <2>6. Bytes(s)[StringsAt(s) + ends[j]] = 0
    <3>. QED BY <2>2, <2>4, <2>10
  <2>. QED BY <2>5, <2>6
<1>18. Bytes(s)[Size(s, ends)] = 0 /\ Bytes(s)[Size(s, ends) - 1] = 0
  <2>1. Size(s, ends) = Len(body) + (IF s.strings = <<>> THEN 2 ELSE 1)
    BY <1>8, <1>11 DEF Size
  <2>2. CASE s.strings = <<>>
    <3>1. Bytes(s)[Len(body) + 1] = 0 /\ Bytes(s)[Len(body) + 2] = 0
      <4>1. 1 \in 1..Len(last) /\ 2 \in 1..Len(last)
        BY <1>9, <2>2
      <4>. QED BY <1>9, <1>10, <4>1
    <3>. QED BY <1>14, <2>1, <2>2, <3>1
  <2>3. CASE s.strings # <<>>
    <3>1. Bytes(s)[Len(body) + 1] = 0
      <4>1. 1 \in 1..Len(last)
        BY <1>9, <2>3
      <4>. QED BY <1>9, <1>10, <4>1
    <3>2. Bytes(s)[Len(body)] = 0
      <4>1. Len(s.strings) \in 1..Len(s.strings)
        BY <1>1, <2>3
      <4>2. Bytes(s)[StringsAt(s) + ends[Len(s.strings)]] = 0
        BY <1>17, <4>1
      <4>. QED BY <1>8, <1>11, <4>2
    <3>3. Size(s, ends) = Len(body) + 1 /\ Size(s, ends) - 1 = Len(body)
      BY <1>14, <2>1, <2>3
    <3>. QED BY <3>1, <3>2, <3>3
  <2>. QED BY <2>2, <2>3
<1>19. Spells(Bytes(s), s, ends)
  BY <1>16, <1>17, <1>18 DEF Spells
<1>. QED BY <1>10, <1>12, <1>13, <1>19

(* A string without its leading spaces, nothing if it is not kept. *)
Trimmed(t) == IF Kept(t) THEN SubSeq(t, FirstChar(t), Len(t)) ELSE <<>>

(* FirstChar is the first character that is not a space. *)
LEMMA FirstCharIs ==
  ASSUME NEW t \in Seq(Chars)
  PROVE  /\ FirstChar(t) = 0 <=> \A k \in 1..Len(t) : t[k] = Space
         /\ FirstChar(t) # 0 => /\ FirstChar(t) \in 1..Len(t) /\ t[FirstChar(t)] # Space
                                /\ \A k \in 1..Len(t) : t[k] # Space => FirstChar(t) <= k
<1>. DEFINE I == {i \in 1..Len(t) : t[i] # Space}
<1>1. FirstChar(t) = IF I # {} THEN CHOOSE x \in I : \A y \in I : x <= y ELSE 0
  BY DEF FirstChar, SelectInSeq, Min
<1>2. I \subseteq Nat /\ \A i \in I : i # 0 /\ i \in 1..Len(t) /\ t[i] # Space
  OBVIOUS
<1>3. I = {} <=> \A k \in 1..Len(t) : t[k] = Space
  OBVIOUS
<1>4. \A k \in 1..Len(t) : t[k] # Space => k \in I
  OBVIOUS
<1>. HIDE DEF I
<1>5. I # {} => FirstChar(t) \in I /\ \A y \in I : FirstChar(t) <= y
  BY <1>1, <1>2, Smallest
<1>6. I # {} => FirstChar(t) # 0
  BY <1>2, <1>5, Zenon
<1>7. I = {} => FirstChar(t) = 0
  BY <1>1
<1>. QED BY <1>2, <1>3, <1>4, <1>5, <1>6, <1>7, Zenon

(* Within a string there is no zero. *)
LEMMA InString ==
  ASSUME NEW table, NEW t \in Seq(Chars), NEW a \in Nat, \A k \in 1..Len(t) : table[a + k - 1] = t[k],
         NEW q \in a .. a + Len(t) - 1
  PROVE  q - a + 1 \in 1..Len(t) /\ table[q] = t[q - a + 1] /\ table[q] # 0
<1>1. q - a + 1 \in 1..Len(t) /\ a + (q - a + 1) - 1 = q
  <2>1. Len(t) \in Nat
    OBVIOUS
  <2>. QED BY <2>1
<1>2. table[q] = t[q - a + 1]
  BY <1>1
<1>3. t[q - a + 1] \in Chars
  BY <1>1
<1>4. 0 \notin Chars
  BY DEF Chars
<1>. QED BY <1>1, <1>2, <1>3, <1>4

(* What stringAtIndex makes of the characters from a to the zero at z. *)
Reading(table, a, z) ==
  LET chars == {p \in a .. z - 1 : table[p] # Space}
      begin == CHOOSE p \in chars : \A q \in chars : p <= q
  IN  IF chars = {} THEN <<>>
      ELSE IF Counted(z - begin) = 0 THEN <<>> ELSE [i \in 1 .. z - begin |-> table[begin + i - 1]]

LEMMA Trimming ==
  ASSUME NEW table, NEW t \in Seq(Chars), NEW a \in Nat, \A k \in 1..Len(t) : table[a + k - 1] = t[k],
         NEW z, z = a + Len(t)
  PROVE  Reading(table, a, z) = Trimmed(t)
<1>. DEFINE chars == {p \in a .. z - 1 : table[p] # Space}
            begin == CHOOSE p \in chars : \A q \in chars : p <= q
            c == FirstChar(t)
            l == Len(t)
<1>. SUFFICES (IF chars = {} THEN <<>>
               ELSE IF Counted(z - begin) = 0 THEN <<>>
               ELSE [i \in 1 .. z - begin |-> table[begin + i - 1]]) = Trimmed(t)
  BY DEF Reading
<1>0. l \in Nat /\ z = a + l
  OBVIOUS
<1>1. \A p \in a .. z - 1 : p - a + 1 \in 1..l /\ table[p] = t[p - a + 1]
  BY InString
<1>2. \A k \in 1..l : table[a + k - 1] = t[k]
  OBVIOUS
<1>3. \A k \in 1..l : a + k - 1 \in a .. z - 1
  <2>. HIDE DEF l
  <2>. QED BY <1>0
<1>4. CASE c = 0
  <2>1. \A k \in 1..l : t[k] = Space
    BY <1>4, FirstCharIs
  <2>2. chars = {}
    BY <1>1, <2>1
  <2>3. Trimmed(t) = <<>>
    BY <1>4 DEF Trimmed, Kept
  <2>. QED BY <2>2, <2>3
<1>5. CASE c # 0
  <2>1. c \in 1..l /\ t[c] # Space /\ \A k \in 1..l : t[k] # Space => c <= k
    BY <1>5, FirstCharIs
  <2>2. a + c - 1 \in chars
    BY <1>2, <1>3, <2>1
  <2>3. ASSUME NEW q \in chars PROVE a + c - 1 <= q
    <3>1. q \in Int /\ q - a + 1 \in 1..l /\ t[q - a + 1] # Space
      BY <1>1
    <3>2. c <= q - a + 1
      BY <2>1, <3>1
    <3>. QED BY <2>1, <3>1, <3>2
  <2>4. \A q \in chars : q \in Int
    OBVIOUS
  <2>5. begin = a + c - 1
    <3>. HIDE DEF chars
    <3>1. begin \in chars /\ \A q \in chars : begin <= q
      BY <2>2, <2>3
    <3>2. begin <= a + c - 1 /\ a + c - 1 <= begin
      BY <2>2, <2>3, <3>1
    <3>3. begin \in Int /\ a + c - 1 \in Int
      BY <2>2, <2>4, <3>1
    <3>. QED BY <3>2, <3>3
  <2>6. z - begin = (l - c) + 1
    <3>. HIDE DEF l, c, begin
    <3>. QED BY <1>0, <2>1, <2>5
  <2>7. Kept(t) => Trimmed(t) = [i \in 1..((l - c) + 1) |-> t[(c + i) - 1]]
    <3>1. SubSeq(t, c, l) = [i \in 1..((l - c) + 1) |-> t[(c + i) - 1]]
      <4>. HIDE DEF c, l
      <4>. QED BY <1>0, <2>1
    <3>. QED BY <3>1 DEF Trimmed
  <2>8. \A i \in 1..((l - c) + 1) : table[begin + i - 1] = t[(c + i) - 1]
    <3>. TAKE i \in 1..((l - c) + 1)
    <3>1. (c + i) - 1 \in 1..l /\ a + ((c + i) - 1) - 1 = begin + i - 1
      <4>. HIDE DEF c, l, begin
      <4>. QED BY <1>0, <2>1, <2>5
    <3>. QED BY <1>2, <3>1
  <2>9. [i \in 1 .. z - begin |-> table[begin + i - 1]] = [i \in 1..((l - c) + 1) |-> t[(c + i) - 1]]
    BY <2>6, <2>8, Zenon
  <2>10. chars # {}
    BY <2>2
  <2>11. Counted(z - begin) = 0 <=> ~Kept(t)
    <3>1. Counted(z - begin) = ((l - c) + 1) % 256
      <4>. HIDE DEF begin, l, c
      <4>. QED BY <2>6 DEF Counted
    <3>2. Kept(t) <=> ((l - c) + 1) % 256 # 0
      BY <1>5 DEF Kept
    <3>. QED BY <3>1, <3>2
  <2>12. ~Kept(t) => Trimmed(t) = <<>>
    BY DEF Trimmed
  <2>. HIDE DEF chars, begin, c, l
  <2>. QED BY <2>7, <2>9, <2>10, <2>11, <2>12
<1>. QED BY <1>4, <1>5

(* Strings in the table: where the j-th begins, and the zero behind it; *)
(* what follows the structure.                                          *)
Begin(start, ends, j) == start + ends[j-1]
ZeroAt(start, ends, j) == start + ends[j] - 1
Stop(start, strings, ends) == start + ends[Len(strings)] + (IF strings = <<>> THEN 2 ELSE 1)

Strings(table, start, strings, ends) ==
  /\ start \in Nat /\ TableEnd(table) \in Nat /\ strings \in Seq(Seq(Chars))
  /\ ends \in [0..Len(strings) -> Nat] /\ ends[0] = 0
  /\ \A j \in 1..Len(strings) :
       /\ ends[j] = ends[j-1] + Len(strings[j]) + 1 /\ ends[j] <= ends[Len(strings)]
       /\ strings[j] # <<>>
       /\ table[ZeroAt(start, ends, j)] = 0
       /\ \A k \in 1..Len(strings[j]) : table[Begin(start, ends, j) + k - 1] = strings[j][k]
  /\ Stop(start, strings, ends) <= TableEnd(table)
  /\ table[Stop(start, strings, ends) - 1] = 0 /\ table[Stop(start, strings, ends) - 2] = 0

(* One string of several: where it is, what is there, and what is before *)
(* it.                                                                   *)
LEMMA OneString ==
  ASSUME NEW table, NEW start, NEW strings, NEW ends, Strings(table, start, strings, ends),
         NEW j \in 1..Len(strings)
  PROVE  /\ strings[j] \in Seq(Chars) /\ Len(strings[j]) \in Nat /\ Len(strings[j]) >= 1
         /\ Begin(start, ends, j) \in Nat /\ ZeroAt(start, ends, j) \in Nat
         /\ start <= Begin(start, ends, j) /\ ZeroAt(start, ends, j) <= TableEnd(table) - 1
         /\ ZeroAt(start, ends, j) <= Stop(start, strings, ends) - 2
         /\ ZeroAt(start, ends, j) = Begin(start, ends, j) + Len(strings[j])
         /\ table[ZeroAt(start, ends, j)] = 0
         /\ \A k \in 1..Len(strings[j]) : table[Begin(start, ends, j) + k - 1] = strings[j][k]
         /\ Begin(start, ends, j) = IF j = 1 THEN start ELSE ZeroAt(start, ends, j - 1) + 1
<1>. DEFINE l == Len(strings[j])
            m == Len(strings)
            e == ends[j-1]
            f == ends[j]
            g == ends[m]
            b == Begin(start, ends, j)
            z == ZeroAt(start, ends, j)
            T == TableEnd(table)
            stop == Stop(start, strings, ends)
<1>1. m \in Nat /\ j \in 1..m /\ j - 1 \in 0..m /\ j \in 0..m /\ m \in 0..m
  <2>1. m \in Nat
    BY DEF Strings
  <2>. QED BY <2>1
<1>2. strings[j] \in Seq(Chars) /\ strings[j] # <<>>
  BY DEF Strings
<1>3. l \in Nat /\ l >= 1
  BY <1>2
<1>4. e \in Nat /\ f \in Nat /\ g \in Nat /\ start \in Nat /\ T \in Nat
  BY <1>1 DEF Strings
<1>5. f = e + l + 1 /\ f <= g
  BY DEF Strings
<1>6. b = start + e /\ z = start + f - 1
  BY DEF Begin, ZeroAt
<1>7. stop = start + g + 1 \/ stop = start + g + 2
  BY DEF Stop
<1>8. stop <= T
  BY DEF Strings
<1>9. /\ table[ZeroAt(start, ends, j)] = 0
      /\ \A k \in 1..Len(strings[j]) : table[Begin(start, ends, j) + k - 1] = strings[j][k]
  BY DEF Strings
<1>10. b = IF j = 1 THEN start ELSE ZeroAt(start, ends, j - 1) + 1
  <2>1. CASE j = 1
    <3>1. e = 0
      BY <2>1 DEF Strings
    <3>. QED BY <1>4, <1>6, <2>1, <3>1
  <2>2. CASE j # 1
    <3>1. ZeroAt(start, ends, j - 1) = start + e - 1
      BY DEF ZeroAt
    <3>. QED BY <1>4, <1>6, <2>2, <3>1
  <2>. QED BY <2>1, <2>2
<1>11. b \in Nat /\ z \in Nat /\ start <= b /\ z <= T - 1 /\ z <= stop - 2 /\ z = b + l
  <2>. HIDE DEF l, e, f, g, b, z, T, stop
  <2>. QED BY <1>3, <1>4, <1>5, <1>6, <1>7, <1>8
<1>. QED BY <1>2, <1>3, <1>9, <1>10, <1>11

LEMMA Between ==
  ASSUME NEW table, NEW start, NEW strings, NEW ends, Strings(table, start, strings, ends),
         NEW j \in 1..Len(strings), NEW q \in Int, Begin(start, ends, j) <= q, q < ZeroAt(start, ends, j)
  PROVE  table[q] # 0
<1>1. q \in Begin(start, ends, j) .. Begin(start, ends, j) + Len(strings[j]) - 1
  BY OneString
<1>2. /\ strings[j] \in Seq(Chars) /\ Begin(start, ends, j) \in Nat
      /\ \A k \in 1..Len(strings[j]) : table[Begin(start, ends, j) + k - 1] = strings[j][k]
  BY OneString
<1>. QED BY <1>1, <1>2, InString

(* Below the zero behind the j-th string there are j - 1 zeros. *)
LEMMA ZerosBelow ==
  ASSUME NEW table, NEW start, NEW strings, NEW ends, Strings(table, start, strings, ends)
  PROVE  LET zeros == {p \in start .. TableEnd(table) - 1 : table[p] = 0}
         IN  \A j \in 1..Len(strings) :
               /\ ZeroAt(start, ends, j) \in zeros
               /\ IsFiniteSet({q \in zeros : q < ZeroAt(start, ends, j)})
               /\ Cardinality({q \in zeros : q < ZeroAt(start, ends, j)}) = j - 1
<1>. DEFINE zeros == {p \in start .. TableEnd(table) - 1 : table[p] = 0}
            z(j) == ZeroAt(start, ends, j)
            Below(j) == {q \in zeros : q < z(j)}
            m == Len(strings)
<1>0. m \in Nat /\ start \in Nat /\ TableEnd(table) \in Nat
  BY DEF Strings
<1>1. ASSUME NEW j \in 1..m PROVE z(j) \in zeros /\ z(j) \in Nat
  <2>1. z(j) \in Nat /\ start <= z(j) /\ z(j) <= TableEnd(table) - 1 /\ table[z(j)] = 0
    <3>. HIDE DEF m
    <3>1. /\ Len(strings[j]) \in Nat /\ Begin(start, ends, j) \in Nat /\ start <= Begin(start, ends, j)
          /\ z(j) \in Nat /\ z(j) <= TableEnd(table) - 1 /\ table[z(j)] = 0
          /\ z(j) = Begin(start, ends, j) + Len(strings[j])
      BY OneString DEF m
    <3>. HIDE DEF z
    <3>. QED BY <1>0, <3>1
  <2>. HIDE DEF z
  <2>. QED BY <1>0, <2>1
<1>. DEFINE P == {j \in Nat : j > m \/ (IsFiniteSet(Below(j)) /\ Cardinality(Below(j)) = j - 1)}
<1>2. 1 \in P
  <2>1. CASE m = 0
    BY <2>1
  <2>2. CASE m # 0
    <3>1. 1 \in 1..m
      BY <1>0, <2>2
    <3>2. Begin(start, ends, 1) = start
      BY <3>1, OneString
    <3>3. ASSUME NEW q \in zeros PROVE ~(q < z(1))
      <4>1. q \in Int /\ start <= q /\ table[q] = 0
        BY <1>0
      <4>. QED BY <3>1, <3>2, <4>1, Between
    <3>4. Below(1) = {}
      BY <3>3
    <3>5. IsFiniteSet(Below(1)) /\ Cardinality(Below(1)) = 0
      BY <3>4, FS_EmptySet
    <3>. QED BY <3>5
  <2>. QED BY <2>1, <2>2
<1>3. ASSUME NEW j \in Nat, j >= 1, j \in P PROVE j + 1 \in P
  <2>1. CASE j + 1 > m
    BY <2>1
  <2>2. CASE ~(j + 1 > m)
    <3>1. j \in 1..m /\ j + 1 \in 1..m /\ (j + 1) - 1 = j /\ j + 1 # 1 /\ ~(j > m)
      BY <1>0, <1>3, <2>2
    <3>2. IsFiniteSet(Below(j)) /\ Cardinality(Below(j)) = j - 1
      BY <1>3, <3>1
    <3>3. z(j) \in zeros /\ z(j) \in Nat /\ z(j+1) \in Nat
      BY <1>1, <3>1
    <3>4. Begin(start, ends, j+1) = z(j) + 1
      BY <3>1, OneString
    <3>5. z(j) < z(j+1)
      <4>1. z(j+1) = Begin(start, ends, j+1) + Len(strings[j+1]) /\ Len(strings[j+1]) \in Nat
        BY <3>1, OneString
      <4>. HIDE DEF z
      <4>. QED BY <3>3, <3>4, <4>1
    <3>6. ASSUME NEW q \in zeros PROVE q < z(j+1) <=> (q < z(j) \/ q = z(j))
      <4>1. q \in Int /\ table[q] = 0
        BY <1>0
      <4>2. ~(Begin(start, ends, j+1) <= q /\ q < z(j+1))
        BY <3>1, <4>1, Between
      <4>. HIDE DEF z
      <4>. QED BY <3>3, <3>4, <3>5, <4>1, <4>2
    <3>7. Below(j+1) = Below(j) \cup {z(j)} /\ z(j) \notin Below(j)
      <4>. HIDE DEF z
      <4>1. ~(z(j) < z(j))
        BY <3>3
      <4>. HIDE DEF zeros
      <4>2. Below(j+1) = Below(j) \cup {z(j)}
        BY <3>3, <3>6
      <4>. QED BY <4>1, <4>2
    <3>. HIDE DEF Below
    <3>8. IsFiniteSet(Below(j+1)) /\ Cardinality(Below(j+1)) = Cardinality(Below(j)) + 1
      BY <3>2, <3>7, FS_AddElement
    <3>9. Cardinality(Below(j+1)) = (j + 1) - 1
      BY <3>2, <3>8
    <3>. QED BY <3>8, <3>9
  <2>. QED BY <2>1, <2>2
<1>4. \A j \in Nat : j >= 1 => j \in P
  <2>. HIDE DEF P
  <2>. QED BY <1>2, <1>3, CountUp
<1>5. ASSUME NEW j \in 1..m PROVE IsFiniteSet(Below(j)) /\ Cardinality(Below(j)) = j - 1
  <2>1. j \in P /\ ~(j > m)
    BY <1>0, <1>4
  <2>. HIDE DEF Below
  <2>. QED BY <2>1
<1>. QED BY <1>1, <1>5

LEMMA FiniteZeros ==
  ASSUME NEW table, NEW start \in Nat, TableEnd(table) \in Nat
  PROVE  IsFiniteSet({p \in start .. TableEnd(table) - 1 : table[p] = 0})
<1>1. IsFiniteSet(start .. TableEnd(table) - 1)
  BY FS_Interval
<1>2. {p \in start .. TableEnd(table) - 1 : table[p] = 0} \subseteq start .. TableEnd(table) - 1
  OBVIOUS
<1>. QED BY <1>1, <1>2, FS_Subset

(* As many zeros are below p as below z: p is z. *)
LEMMA SameZero ==
  ASSUME NEW zeros, IsFiniteSet(zeros), zeros \subseteq Nat, NEW p \in zeros, NEW z \in zeros,
         Cardinality({q \in zeros : q < p}) = Cardinality({q \in zeros : q < z})
  PROVE  p = z
<1>1. ASSUME NEW x \in zeros, NEW y \in zeros, x < y,
             Cardinality({q \in zeros : q < x}) = Cardinality({q \in zeros : q < y})
      PROVE  FALSE
  <2>. DEFINE X == {q \in zeros : q < x}
              Y == {q \in zeros : q < y}
  <2>1. X \subseteq Y /\ Y \subseteq zeros
    <3>1. x \in Nat /\ y \in Nat /\ \A q \in zeros : q \in Nat
      OBVIOUS
    <3>2. \A q \in zeros : q < x => q < y
      BY <1>1, <3>1
    <3>. QED BY <3>2
  <2>2. x \in Y /\ x \notin X
    BY <1>1
  <2>3. Cardinality(X) = Cardinality(Y)
    BY <1>1
  <2>. HIDE DEF X, Y
  <2>4. IsFiniteSet(Y)
    BY <2>1, FS_Subset
  <2>5. X = Y
    BY <2>1, <2>3, <2>4, FS_Subset
  <2>. QED BY <2>2, <2>5
<1>2. p \in Nat /\ z \in Nat
  OBVIOUS
<1>3. ~(p < z) /\ ~(z < p)
  BY <1>1
<1>. QED BY <1>2, <1>3

(* The j-th zero is the one behind the j-th string. *)
LEMMA ZeroIs ==
  ASSUME NEW table, NEW start, NEW strings, NEW ends, Strings(table, start, strings, ends),
         NEW j \in 1..Len(strings)
  PROVE  LET zeros == {p \in start .. TableEnd(table) - 1 : table[p] = 0}
         IN  /\ (CHOOSE p \in zeros : Cardinality({q \in zeros : q < p}) = j - 1) = ZeroAt(start, ends, j)
             /\ Cardinality(zeros) \in Nat /\ Cardinality(zeros) >= j
<1>. DEFINE zeros == {p \in start .. TableEnd(table) - 1 : table[p] = 0}
            z == ZeroAt(start, ends, j)
            Below(p) == {q \in zeros : q < p}
<1>0. start \in Nat /\ TableEnd(table) \in Nat
  BY DEF Strings
<1>1. IsFiniteSet(zeros)
  BY <1>0, FiniteZeros
<1>2. zeros \subseteq Nat
  BY <1>0
<1>3. z \in zeros /\ Cardinality(Below(z)) = j - 1 /\ IsFiniteSet(Below(z))
  BY ZerosBelow
<1>. HIDE DEF zeros, z
<1>4. \A p \in zeros : Cardinality(Below(p)) = j - 1 => p = z
  <2>. SUFFICES ASSUME NEW p \in zeros, Cardinality(Below(p)) = j - 1 PROVE p = z
    OBVIOUS
  <2>1. Cardinality({q \in zeros : q < p}) = Cardinality({q \in zeros : q < z})
    BY <1>3
  <2>. QED BY <1>1, <1>2, <1>3, <2>1, SameZero
<1>5. (CHOOSE p \in zeros : Cardinality(Below(p)) = j - 1) = z
  <2>. HIDE DEF Below
  <2>. QED BY <1>3, <1>4
<1>6. Below(z) \cup {z} \subseteq zeros /\ z \notin Below(z)
  BY <1>2, <1>3
<1>. HIDE DEF Below
<1>7. IsFiniteSet(Below(z) \cup {z}) /\ Cardinality(Below(z) \cup {z}) = Cardinality(Below(z)) + 1
  BY <1>3, <1>6, FS_AddElement
<1>8. Cardinality(Below(z) \cup {z}) <= Cardinality(zeros) /\ Cardinality(zeros) \in Nat
  BY <1>1, <1>6, FS_Subset, FS_CardinalityType
<1>9. j \in Nat
  BY DEF Strings
<1>10. Cardinality(zeros) >= j
  <2>1. Cardinality(Below(z) \cup {z}) = j
    BY <1>3, <1>7, <1>9
  <2>. QED BY <1>8, <1>9, <2>1
<1>. QED BY <1>5, <1>8, <1>10 DEF Below, z, zeros

(* stringAtIndex finds every string, whatever follows the structure. *)
LEMMA StringFound ==
  ASSUME NEW table, NEW start, NEW strings, NEW ends, Strings(table, start, strings, ends)
  PROVE  /\ StringAtIndex(table, start, 0) = <<>>
         /\ \A j \in 1..Len(strings) : StringAtIndex(table, start, j) = Trimmed(strings[j])
<1>1. StringAtIndex(table, start, 0) = <<>>
  BY DEF StringAtIndex
<1>2. ASSUME NEW j \in 1..Len(strings) PROVE StringAtIndex(table, start, j) = Trimmed(strings[j])
  <2>. DEFINE zeros == {p \in start .. TableEnd(table) - 1 : table[p] = 0}
              Zero(n) == CHOOSE p \in zeros : Cardinality({q \in zeros : q < p}) = n - 1
              first == IF j = 1 THEN start ELSE Zero(j - 1) + 1
              chars == {p \in first .. Zero(j) - 1 : table[p] # Space}
              begin == CHOOSE p \in chars : \A q \in chars : p <= q
  <2>1. j # 0 /\ Len(strings) \in Nat
    BY DEF Strings
  <2>2. ASSUME NEW i \in 1..Len(strings)
        PROVE  /\ Zero(i) = ZeroAt(start, ends, i)
               /\ Cardinality(zeros) \in Nat /\ Cardinality(zeros) >= i
    BY ZeroIs
  <2>3. StringAtIndex(table, start, j) =
          IF j = 0 \/ Cardinality(zeros) < j \/ chars = {} THEN <<>>
          ELSE IF Counted(Zero(j) - begin) = 0 THEN <<>>
          ELSE [i \in 1 .. Zero(j) - begin |-> table[begin + i - 1]]
    BY DEF StringAtIndex
  <2>. HIDE DEF Zero
  <2>4. first = Begin(start, ends, j)
    <3>1. Begin(start, ends, j) = IF j = 1 THEN start ELSE ZeroAt(start, ends, j - 1) + 1
      BY OneString
    <3>2. ASSUME j # 1 PROVE Zero(j - 1) = ZeroAt(start, ends, j - 1)
      <4>1. j - 1 \in 1..Len(strings)
        BY <2>1, <3>2
      <4>. QED BY <2>2, <4>1
    <3>. QED BY <3>1, <3>2
  <2>. HIDE DEF zeros
  <2>5. ~(Cardinality(zeros) < j)
    BY <2>1, <2>2
  <2>. HIDE DEF first
  <2>6. (IF chars = {} THEN <<>>
         ELSE IF Counted(Zero(j) - begin) = 0 THEN <<>>
         ELSE [i \in 1 .. Zero(j) - begin |-> table[begin + i - 1]])
        = Trimmed(strings[j])
    <3>1. /\ strings[j] \in Seq(Chars) /\ Begin(start, ends, j) \in Nat
          /\ ZeroAt(start, ends, j) = Begin(start, ends, j) + Len(strings[j])
          /\ \A k \in 1..Len(strings[j]) : table[Begin(start, ends, j) + k - 1] = strings[j][k]
      BY OneString
    <3>2. Zero(j) = ZeroAt(start, ends, j)
      BY <2>2
    <3>3. /\ strings[j] \in Seq(Chars) /\ first \in Nat /\ Zero(j) = first + Len(strings[j])
          /\ \A k \in 1..Len(strings[j]) : table[first + k - 1] = strings[j][k]
      BY <2>4, <3>1, <3>2
    <3>4. ASSUME NEW t \in Seq(Chars), \A k \in 1..Len(t) : table[first + k - 1] = t[k],
                 NEW z, z = first + Len(t)
          PROVE  Reading(table, first, z) = Trimmed(t)
      BY <3>3, <3>4, Trimming
    <3>5. Reading(table, first, Zero(j)) = Trimmed(strings[j])
      BY <3>3, <3>4, Zenon
    <3>. QED BY <3>5 DEF Reading
  <2>. HIDE DEF chars, begin
  <2>. QED BY <2>1, <2>3, <2>5, <2>6
<1>. QED BY <1>1, <1>2

(* The decoder stays within the table. *)
LEMMA AfterStringsInTable ==
  ASSUME NEW table, NEW at \in Nat, TableEnd(table) \in Nat PROVE AfterStrings(table, at) \in 0..TableEnd(table)
<1>. DEFINE E == {p \in at .. TableEnd(table) - Header - 1 : table[p] = 0 /\ table[p + 1] = 0}
            p0 == CHOOSE p \in E : \A q \in E : p <= q
<1>1. AfterStrings(table, at) = IF E = {} THEN TableEnd(table) ELSE 2 + p0
  BY DEF AfterStrings
<1>2. CASE E = {}
  BY <1>1, <1>2
<1>3. CASE E # {}
  <2>1. E \subseteq Nat /\ \A p \in E : p <= TableEnd(table) - 5
    BY DEF Header
  <2>. HIDE DEF E
  <2>2. p0 \in E
    <3>1. \E p \in E : \A q \in E : p <= q
      BY <1>3, <2>1, Smallest
    <3>. QED BY <3>1
  <2>3. p0 \in Nat /\ p0 <= TableEnd(table) - 5
    BY <2>1, <2>2
  <2>. HIDE DEF p0
  <2>4. 2 + p0 \in 0..TableEnd(table)
    BY <2>3
  <2>. QED BY <1>1, <1>3, <2>4
<1>. QED BY <1>2, <1>3

(* Up to the last two zeros no two zeros follow each other. *)
LEMMA FirstDoubleZero ==
  ASSUME NEW table, NEW start, NEW strings, NEW ends, Strings(table, start, strings, ends),
         NEW q \in Int, start <= q, q < Stop(start, strings, ends) - 2, table[q] = 0
  PROVE  table[q + 1] # 0
<1>. DEFINE m == Len(strings)
            z(j) == ZeroAt(start, ends, j)
            b(j) == Begin(start, ends, j)
            stop == Stop(start, strings, ends)
            T == {j \in 1..m : q <= z(j)}
<1>0. m \in Nat /\ start \in Nat /\ ends[m] \in Nat
  <2>1. m \in Nat
    BY DEF Strings
  <2>. QED BY <2>1 DEF Strings
<1>1. strings # <<>> /\ m >= 1
  <2>1. ASSUME strings = <<>> PROVE FALSE
    <3>1. m = 0 /\ ends[0] = 0
      BY <2>1 DEF Strings
    <3>2. stop = start + ends[m] + 2
      BY <2>1 DEF Stop
    <3>. QED BY <1>0, <3>1, <3>2
  <2>2. strings \in Seq(Seq(Chars))
    BY DEF Strings
  <2>. QED BY <2>1, <2>2
<1>2. stop - 2 = z(m) /\ m \in T
  <2>1. stop = start + ends[m] + 1 /\ z(m) = start + ends[m] - 1
    BY <1>1 DEF Stop, ZeroAt
  <2>2. m \in 1..m
    BY <1>0, <1>1
  <2>3. q < stop - 2
    OBVIOUS
  <2>4. stop - 2 = z(m) /\ q <= z(m)
    <3>. HIDE DEF stop, z, m
    <3>. QED BY <1>0, <2>1, <2>3
  <2>. QED BY <2>2, <2>4
<1>3. PICK j \in T : \A i \in T : j <= i
  <2>1. T \subseteq Nat
    OBVIOUS
  <2>. HIDE DEF T
  <2>. QED BY <1>2, <2>1, Smallest
<1>4. j \in 1..m /\ q <= z(j) /\ j \in Nat
  BY <1>3
<1>5. /\ b(j) = IF j = 1 THEN start ELSE z(j - 1) + 1
      /\ z(j) \in Nat
  BY <1>4, OneString
<1>6. b(j) <= q
  <2>1. CASE j = 1
    <3>. HIDE DEF b, z
    <3>. QED BY <1>5, <2>1
  <2>2. CASE j # 1
    <3>1. j - 1 \in 1..m /\ ~(j <= j - 1)
      BY <1>0, <1>4, <2>2
    <3>2. j - 1 \notin T
      <4>. HIDE DEF T
      <4>. QED BY <1>3, <3>1
    <3>3. ~(q <= z(j - 1))
      BY <3>1, <3>2
    <3>4. z(j - 1) \in Nat
      BY <3>1, OneString
    <3>. HIDE DEF b, z, T
    <3>. QED BY <1>5, <2>2, <3>3, <3>4
  <2>. QED BY <2>1, <2>2
<1>7. q = z(j)
  <2>1. ~(q < z(j))
    BY <1>4, <1>6, Between
  <2>. HIDE DEF z, T
  <2>. QED BY <1>4, <1>5, <2>1
<1>8. j # m
  <2>1. q < z(m)
    BY <1>2
  <2>2. z(j) \in Int
    BY <1>5
  <2>. HIDE DEF z, T
  <2>. QED BY <1>7, <2>1, <2>2
<1>9. j + 1 \in 1..m /\ j + 1 # 1 /\ (j + 1) - 1 = j
  BY <1>0, <1>4, <1>8
<1>10. /\ b(j + 1) = z(j) + 1 /\ Len(strings[j + 1]) \in Nat /\ Len(strings[j + 1]) >= 1
       /\ z(j + 1) = b(j + 1) + Len(strings[j + 1]) /\ b(j + 1) \in Nat
  BY <1>9, OneString
<1>11. b(j + 1) <= q + 1 /\ q + 1 < z(j + 1) /\ q + 1 \in Int
  <2>. DEFINE l == Len(strings[j + 1])
              bb == b(j + 1)
              zz == z(j + 1)
  <2>1. bb = q + 1 /\ l >= 1 /\ l \in Nat /\ zz = bb + l /\ bb \in Nat
    BY <1>7, <1>10
  <2>. HIDE DEF l, bb, zz
  <2>2. bb <= q + 1 /\ q + 1 < zz
    BY <2>1
  <2>. QED BY <2>2 DEF bb, zz
<1>. QED BY <1>9, <1>11, Between

(* The next structure is found behind the strings, if one follows. *)
LEMMA AfterStringsIsStop ==
  ASSUME NEW table, NEW start, NEW strings, NEW ends, Strings(table, start, strings, ends),
         Stop(start, strings, ends) + 3 <= TableEnd(table)
  PROVE  AfterStrings(table, start) = Stop(start, strings, ends)
<1>. DEFINE E == {p \in start .. TableEnd(table) - Header - 1 : table[p] = 0 /\ table[p + 1] = 0}
            p0 == CHOOSE p \in E : \A q \in E : p <= q
            stop == Stop(start, strings, ends)
            T == TableEnd(table)
<1>1. AfterStrings(table, start) = IF E = {} THEN T ELSE 2 + p0
  BY DEF AfterStrings
<1>2. start \in Nat /\ T \in Nat /\ stop \in Nat /\ start <= stop - 2
  <2>. DEFINE m == Len(strings)
              g == ends[m]
  <2>1. m \in Nat /\ start \in Nat /\ T \in Nat /\ strings \in Seq(Seq(Chars))
    BY DEF Strings
  <2>2. g \in Nat
    BY <2>1 DEF Strings
  <2>3. CASE strings = <<>>
    <3>1. stop = start + g + 2
      BY <2>3 DEF Stop
    <3>. HIDE DEF g, stop
    <3>. QED BY <2>1, <2>2, <3>1
  <2>4. CASE strings # <<>>
    <3>1. m \in 1..m
      BY <2>1, <2>4
    <3>2. start <= Begin(start, ends, m) /\ Begin(start, ends, m) \in Nat
          /\ ZeroAt(start, ends, m) = Begin(start, ends, m) + Len(strings[m]) /\ Len(strings[m]) \in Nat
      BY <3>1, OneString
    <3>3. stop = start + g + 1 /\ ZeroAt(start, ends, m) = start + g - 1
      BY <2>4 DEF Stop, ZeroAt
    <3>. DEFINE bb == Begin(start, ends, m)
                zz == ZeroAt(start, ends, m)
                l == Len(strings[m])
    <3>4. start <= bb /\ bb \in Nat /\ zz = bb + l /\ l \in Nat /\ zz = start + g - 1
      BY <3>2, <3>3
    <3>5. stop = start + g + 1
      BY <3>3
    <3>. HIDE DEF bb, zz, l, g, stop
    <3>. QED BY <2>1, <2>2, <3>4, <3>5
  <2>. QED BY <2>3, <2>4
<1>3. table[stop - 2] = 0 /\ table[stop - 1] = 0
  BY DEF Strings
<1>4. stop + 3 <= T
  OBVIOUS
<1>5. stop - 2 \in E
  <2>. HIDE DEF stop, T
  <2>1. stop - 2 \in start .. T - 4 - 1 /\ (stop - 2) + 1 = stop - 1
    BY <1>2, <1>4
  <2>. QED BY <1>3, <2>1 DEF Header, T
<1>6. ASSUME NEW q \in E PROVE stop - 2 <= q
  <2>1. q \in Int /\ start <= q /\ table[q] = 0 /\ table[q + 1] = 0
    BY <1>2
  <2>2. ~(q < stop - 2)
    BY <2>1, FirstDoubleZero
  <2>. HIDE DEF stop
  <2>. QED BY <1>2, <2>1, <2>2
<1>7. \A q \in E : q \in Int
  BY <1>2
<1>8. p0 = stop - 2
  <2>. HIDE DEF E, stop
  <2>1. p0 \in E /\ \A q \in E : p0 <= q
    BY <1>5, <1>6
  <2>2. p0 <= stop - 2 /\ stop - 2 <= p0 /\ p0 \in Int
    BY <1>5, <1>6, <1>7, <2>1
  <2>. HIDE DEF p0
  <2>. QED BY <1>2, <2>2
<1>9. E # {}
  BY <1>5
<1>10. AfterStrings(table, start) = 2 + (stop - 2)
  BY <1>1, <1>8, <1>9
<1>. QED BY <1>2, <1>10

Blocks == [i \in 1..Len(structures) |-> Bytes(structures[i])]

(* Where the structures of the table end. *)
Ends == CHOOSE pos : Layout(Blocks, pos)

WrittenTable == structures \in Tables /\ padding \in Padding

(* TablesAssumption, for the table that was written. *)
LEMMA StructuresWellFormed ==
  ASSUME WrittenTable
  PROVE  /\ Len(structures) \in Nat /\ padding \in Nat
         /\ \A i \in 1..Len(structures) : WellFormed(structures[i])
<1>1. structures \in Seq(SMBStructures) /\ padding \in Nat
  BY TablesAssumption DEF WrittenTable
<1>2. ASSUME NEW i \in 1..Len(structures) PROVE WellFormed(structures[i])
  <2>1. structures[i] \in SMBStructures
    BY <1>1
  <2>2. LET s == structures[i]
        IN /\ Len(s.handle) = 2 /\ Header + Len(s.refs) < 256
           /\ \A j \in 1..Len(s.refs) : s.refs[j] \in 0..Len(s.strings)
           /\ \A j \in 1..Len(s.strings) : s.strings[j] # <<>>
    BY TablesAssumption DEF WrittenTable
  <2>. QED BY <2>1, <2>2 DEF WellFormed
<1>. QED BY <1>1, <1>2

(* Each structure is in the table behind the one before. *)
LEMMA TableLayout ==
  ASSUME WrittenTable
  PROVE  /\ Ends \in [0..Len(structures) -> Nat] /\ Ends[0] = 0
         /\ TableEnd(Table) \in Nat /\ Ends[Len(structures)] <= TableEnd(Table)
         /\ \A i \in 1..Len(structures) :
              /\ Ends[i] = Ends[i-1] + Len(Bytes(structures[i])) /\ Ends[i] <= TableEnd(Table)
              /\ \A k \in 1..Len(Bytes(structures[i])) :
                   Table[Ends[i-1] + k - 1] = Bytes(structures[i])[k]
<1>. DEFINE n == Len(structures)
            flat == FlattenSeq(Blocks)
            zeros == [i \in 1..padding |-> 0]
            bytes == flat \o zeros
<1>1. n \in Nat /\ padding \in Nat /\ \A i \in 1..n : Bytes(structures[i]) \in Seq(Nat)
  BY StructuresWellFormed, BytesSpell
<1>2. Blocks \in Seq(Seq(Nat)) /\ Len(Blocks) = n /\ \A i \in 1..n : Blocks[i] = Bytes(structures[i])
  BY <1>1 DEF Blocks
<1>3. flat \in Seq(Nat) /\ Layout(Blocks, Ends)
  <2>1. flat \in Seq(Nat) /\ \E pos : Layout(Blocks, pos)
    BY <1>2, FlattenedLayout
  <2>. QED BY <2>1 DEF Ends
<1>4. zeros \in Seq(Nat) /\ Len(zeros) = padding
  BY <1>1
<1>. HIDE DEF zeros
<1>5. /\ bytes \in Seq(Nat) /\ Len(bytes) = Len(flat) + padding /\ Len(flat) \in Nat
      /\ \A j \in 1..Len(flat) : bytes[j] = flat[j]
  <2>1. flat \in Seq(Nat) /\ zeros \in Seq(Nat)
    BY <1>3, <1>4
  <2>. HIDE DEF flat
  <2>2. /\ bytes \in Seq(Nat) /\ Len(bytes) = Len(flat) + Len(zeros) /\ Len(flat) \in Nat
        /\ \A j \in 1..Len(flat) : bytes[j] = flat[j]
    BY <2>1
  <2>. QED BY <1>4, <2>2
<1>6. Table = [p \in 0..Len(bytes) - 1 |-> bytes[p + 1]]
  BY DEF Table, Blocks, zeros
<1>. HIDE DEF bytes
<1>. DEFINE N == Len(bytes)
            L == Len(flat)
<1>7. TableEnd(Table) = N
  <2>1. TableEnd(Table) = Cardinality(0..N - 1)
    BY <1>6 DEF TableEnd
  <2>2. N \in Nat /\ 0 \in Int /\ N - 1 \in Int
    BY <1>5
  <2>3. Cardinality(0..N - 1) = IF 0 > N - 1 THEN 0 ELSE (N - 1) - 0 + 1
    BY <2>2, FS_Interval
  <2>. HIDE DEF N
  <2>. QED BY <2>1, <2>2, <2>3
<1>8. /\ Ends \in [0..n -> Nat] /\ Ends[0] = 0 /\ Ends[n] = L
      /\ \A i \in 1..n : Stands(Bytes(structures[i]), flat, Ends[i-1], Ends[i])
  BY <1>2, <1>3 DEF Layout
<1>9. N = L + padding /\ L \in Nat /\ N \in Nat
  BY <1>1, <1>5
<1>10. ASSUME NEW i \in 1..n
       PROVE  /\ Ends[i] = Ends[i-1] + Len(Bytes(structures[i])) /\ Ends[i] <= N
              /\ \A k \in 1..Len(Bytes(structures[i])) :
                   Table[Ends[i-1] + k - 1] = Bytes(structures[i])[k]
  <2>. DEFINE s == Bytes(structures[i])
              a == Ends[i-1]
              e == Ends[i]
              l == Len(s)
  <2>1. e = a + l /\ e <= L /\ \A k \in 1..l : flat[a + k] = s[k]
    BY <1>8 DEF Stands
  <2>2. a \in Nat /\ l \in Nat
    <3>1. i - 1 \in 0..n
      BY <1>1
    <3>. QED BY <1>1, <1>8, <3>1
  <2>3. ASSUME NEW k \in 1..l PROVE Table[a + k - 1] = s[k]
    <3>1. flat[a + k] = s[k]
      BY <2>1
    <3>2. a + k \in 1..L /\ a + k - 1 \in 0..N - 1 /\ (a + k - 1) + 1 = a + k
      <4>1. e = a + l /\ e <= L
        BY <2>1
      <4>. HIDE DEF a, l, e, L, N
      <4>. QED BY <1>1, <1>9, <2>2, <4>1
    <3>3. bytes[a + k] = flat[a + k]
      BY <1>5, <3>2
    <3>4. Table[a + k - 1] = bytes[a + k]
      BY <1>6, <3>2
    <3>. QED BY <3>1, <3>3, <3>4
  <2>4. e <= N
    <3>1. e = a + l /\ e <= L
      BY <2>1
    <3>. HIDE DEF a, l, e, L, N
    <3>. QED BY <1>1, <1>9, <2>2, <3>1
  <2>. QED BY <2>1, <2>3, <2>4
<1>11. L <= N
  <2>. HIDE DEF L, N
  <2>. QED BY <1>1, <1>9
<1>. QED BY <1>7, <1>8, <1>9, <1>10, <1>11

(* What the decoder meets at the i-th structure. *)
LEMMA StructureInTable ==
  ASSUME WrittenTable, NEW i \in 1..Len(structures)
  PROVE  LET s == structures[i]
             at == Ends[i-1]
         IN  /\ WellFormed(s) /\ at \in Nat /\ TableEnd(Table) \in Nat
             /\ Table[at] = s.type /\ Table[at + 1] = StringsAt(s)
             /\ \A j \in 1..Len(s.refs) : Table[at + Header + j - 1] = s.refs[j]
             /\ at + Header < TableEnd(Table) /\ StringsAt(s) <= TableEnd(Table) - at
             /\ Ends[i] \in Nat /\ Ends[i] >= at + 6
             /\ \E ends : /\ Strings(Table, at + StringsAt(s), s.strings, ends)
                          /\ Stop(at + StringsAt(s), s.strings, ends) = Ends[i]
<1>. DEFINE s == structures[i]
            a == Ends[i-1]
            e == Ends[i]
            b == Bytes(s)
            l == Len(b)
            T == TableEnd(Table)
            h == StringsAt(s)
            m == Len(s.strings)
<1>1. WellFormed(s) /\ Len(structures) \in Nat
  BY StructuresWellFormed
<1>2. i - 1 \in 0..Len(structures) /\ i \in 0..Len(structures)
  BY <1>1
<1>3. a \in Nat /\ e \in Nat /\ T \in Nat /\ e <= T /\ e = a + l
  BY <1>2, TableLayout
<1>4. \A k \in 1..l : Table[a + k - 1] = b[k]
  BY TableLayout
<1>5. PICK ends : StringEnds(s, ends) /\ l = Size(s, ends) /\ Spells(b, s, ends)
  BY <1>1, BytesSpell
<1>6. /\ h \in Nat /\ h >= 4 /\ m \in Nat /\ s.strings \in Seq(Seq(Chars)) /\ s.refs \in Seq(Nat)
      /\ \A j \in 1..m : s.strings[j] \in Seq(Chars) /\ s.strings[j] # <<>>
  BY <1>1, Fields
<1>. DEFINE g == ends[m]
<1>7. /\ ends \in [0..m -> Nat] /\ ends[0] = 0 /\ g \in Nat
      /\ \A j \in 1..m : ends[j] = ends[j-1] + Len(s.strings[j]) + 1 /\ ends[j] <= g
  <2>1. /\ ends \in [0..m -> Nat] /\ ends[0] = 0
        /\ \A j \in 1..m : ends[j] = ends[j-1] + Len(s.strings[j]) + 1 /\ ends[j] <= g
    BY <1>5, Zenon DEF StringEnds
  <2>2. m \in 0..m
    <3>1. m \in Nat
      BY <1>6
    <3>. HIDE DEF m
    <3>. QED BY <3>1
  <2>3. g \in Nat
    BY <2>1, <2>2
  <2>. QED BY <2>1, <2>3, Zenon
<1>8. l = h + g + (IF s.strings = <<>> THEN 2 ELSE 1)
  BY <1>5 DEF Size
<1>9. l \in Nat /\ l >= 6
  <2>1. CASE s.strings = <<>>
    <3>. HIDE DEF h, g, l
    <3>. QED BY <1>6, <1>7, <1>8, <2>1
  <2>2. CASE s.strings # <<>>
    <3>1. m \in 1..m /\ m - 1 \in 0..m
      BY <1>6, <2>2
    <3>2. g = ends[m-1] + Len(s.strings[m]) + 1 /\ ends[m-1] \in Nat
      BY <1>7, <3>1
    <3>3. Len(s.strings[m]) \in Nat /\ Len(s.strings[m]) >= 1
      BY <1>6, <3>1
    <3>. DEFINE f == ends[m-1]
                x == Len(s.strings[m])
    <3>4. g = f + x + 1 /\ f \in Nat /\ x \in Nat /\ x >= 1
      BY <3>2, <3>3
    <3>. HIDE DEF h, g, l, f, x
    <3>. QED BY <1>6, <1>7, <1>8, <2>2, <3>4
  <2>. QED BY <2>1, <2>2
<1>19. a \in Nat /\ h \in Nat /\ h >= 4 /\ g \in Nat /\ l \in Nat /\ l >= h + g + 1
  <2>1. h \in Nat /\ h >= 4 /\ g \in Nat
    BY <1>6, <1>7
  <2>. HIDE DEF h, g, l, a
  <2>. QED BY <1>3, <1>8, <1>9, <2>1
<1>10. Table[a] = s.type /\ Table[a + 1] = h
  <2>1. 1 \in 1..l /\ 2 \in 1..l /\ a + 1 - 1 = a /\ a + 2 - 1 = a + 1
    <3>. HIDE DEF a, l
    <3>. QED BY <1>3, <1>9
  <2>2. b[1] = s.type /\ b[2] = h
    BY <1>5 DEF Spells
  <2>. QED BY <1>4, <2>1, <2>2
<1>11. ASSUME NEW j \in 1..Len(s.refs) PROVE Table[a + Header + j - 1] = s.refs[j]
  <2>. DEFINE r == Len(s.refs)
  <2>1. h = 4 + r /\ r \in Nat /\ Header = 4
    BY <1>6 DEF StringsAt, Header
  <2>4. j \in 1..r
    OBVIOUS
  <2>2. b[Header + j] = s.refs[j]
    BY <1>5 DEF Spells
  <2>3. Header + j \in 1..l /\ a + (Header + j) - 1 = a + Header + j - 1
    <3>. HIDE DEF h, a, l, g, r
    <3>. QED BY <1>19, <2>1, <2>4
  <2>. QED BY <1>4, <2>2, <2>3
<1>12. a + Header < T /\ h <= T - a /\ e >= a + 6
  <2>. HIDE DEF h, a, l, g, T, e
  <2>. QED BY <1>3, <1>6, <1>7, <1>8, <1>9 DEF Header
<1>13. Stop(a + h, s.strings, ends) = e
  <2>1. Stop(a + h, s.strings, ends) = (a + h) + g + (IF s.strings = <<>> THEN 2 ELSE 1)
    BY DEF Stop
  <2>. HIDE DEF h, a, l, g, T, e
  <2>. QED BY <1>3, <1>6, <1>7, <1>8, <2>1
<1>14. ASSUME NEW j \in 1..m
       PROVE  /\ Table[ZeroAt(a + h, ends, j)] = 0
              /\ \A k \in 1..Len(s.strings[j]) : Table[Begin(a + h, ends, j) + k - 1] = s.strings[j][k]
  <2>. DEFINE x == Len(s.strings[j])
              f == ends[j-1]
              z == ends[j]
  <2>1. z = f + x + 1 /\ z <= g
    BY <1>7
  <2>2. f \in Nat /\ x \in Nat
    <3>1. j - 1 \in 0..m
      BY <1>6
    <3>2. s.strings[j] \in Seq(Chars)
      BY <1>6
    <3>3. x \in Nat
      BY <3>2
    <3>4. f \in Nat
      BY <1>7, <3>1
    <3>. QED BY <3>3, <3>4
  <2>3. b[h + z] = 0 /\ \A k \in 1..x : b[h + f + k] = s.strings[j][k]
    BY <1>5 DEF Spells
  <2>4. h + z \in 1..l /\ ZeroAt(a + h, ends, j) = a + (h + z) - 1
    <3>1. ZeroAt(a + h, ends, j) = (a + h) + z - 1
      BY DEF ZeroAt
    <3>. HIDE DEF h, a, l, g, x, f, z
    <3>. QED BY <1>19, <2>1, <2>2, <3>1
  <2>5. Table[ZeroAt(a + h, ends, j)] = 0
    BY <1>4, <2>3, <2>4
  <2>6. ASSUME NEW k \in 1..x PROVE Table[Begin(a + h, ends, j) + k - 1] = s.strings[j][k]
    <3>1. Begin(a + h, ends, j) = (a + h) + f
      BY DEF Begin
    <3>2. h + f + k \in 1..l /\ Begin(a + h, ends, j) + k - 1 = a + (h + f + k) - 1
      <4>. HIDE DEF h, a, l, g, x, f, z
      <4>. QED BY <1>19, <2>1, <2>2, <3>1
    <3>. QED BY <1>4, <2>3, <3>2
  <2>. QED BY <2>5, <2>6
<1>15. Table[e - 1] = 0 /\ Table[e - 2] = 0
  <2>1. b[l] = 0 /\ b[l - 1] = 0
    BY <1>5 DEF Spells
  <2>2. l \in 1..l /\ l - 1 \in 1..l /\ a + l - 1 = e - 1 /\ a + (l - 1) - 1 = e - 2
    <3>. HIDE DEF a, l, e
    <3>. QED BY <1>3, <1>9
  <2>. QED BY <1>4, <2>1, <2>2
<1>16. a + h \in Nat
  BY <1>3, <1>6
<1>17. Strings(Table, a + h, s.strings, ends)
  BY <1>3, <1>6, <1>7, <1>13, <1>14, <1>15, <1>16 DEF Strings
<1>18. \E q : Strings(Table, a + h, s.strings, q) /\ Stop(a + h, s.strings, q) = e
  BY <1>13, <1>17
<1>. QED BY <1>1, <1>3, <1>10, <1>11, <1>12, <1>18

(* The j-th name that the i-th structure carries is n, and its string is  *)
(* kept.                                                                   *)
Gives(n, i, j) == j \in 1..Len(PropertiesOf(structures[i].type)) /\ Named(n, i, j)

Text(i, j) == Trimmed(structures[i].strings[structures[i].refs[j]])

(* A structure carries at most four names, all different. *)
LEMMA NamesDiffer ==
  ASSUME NEW type
  PROVE  /\ Len(PropertiesOf(type)) \in 0..4
         /\ \A i, j \in 1..Len(PropertiesOf(type)) :
              /\ i \in 1..4 /\ i \in Nat /\ PropertiesOf(type)[i] \in Properties
              /\ PropertiesOf(type)[i] = PropertiesOf(type)[j] => i = j
<1>1. CASE type = 1
  <2>. DEFINE p == <<"oem-manufacturer", "oem-product-name", "oem-version", "serial-number">>
  <2>1. PropertiesOf(type) = p
    BY <1>1 DEF PropertiesOf
  <2>2. /\ Len(p) = 4 /\ p[1] = "oem-manufacturer" /\ p[2] = "oem-product-name"
        /\ p[3] = "oem-version" /\ p[4] = "serial-number"
    OBVIOUS
  <2>3. \A i \in 1..4 : i = 1 \/ i = 2 \/ i = 3 \/ i = 4
    OBVIOUS
  <2>. HIDE DEF p
  <2>4. \A i \in 1..Len(p) : i \in 1..4 /\ i \in Nat /\ p[i] \in Properties
    BY <2>2, <2>3 DEF Properties
  <2>5. \A i, j \in 1..Len(p) : p[i] = p[j] => i = j
    BY <2>2, <2>3
  <2>6. Len(p) \in 0..4
    BY <2>2
  <2>. QED BY <2>1, <2>4, <2>5, <2>6
<1>2. CASE type = 2
  <2>. DEFINE p == <<"oem-mb-manufacturer", "oem-mb-product">>
  <2>1. PropertiesOf(type) = p
    BY <1>2 DEF PropertiesOf
  <2>2. Len(p) = 2 /\ p[1] = "oem-mb-manufacturer" /\ p[2] = "oem-mb-product"
    OBVIOUS
  <2>3. \A i \in 1..2 : (i = 1 \/ i = 2) /\ i \in 1..4
    OBVIOUS
  <2>. HIDE DEF p
  <2>4. \A i \in 1..Len(p) : i \in 1..4 /\ i \in Nat /\ p[i] \in Properties
    BY <2>2, <2>3 DEF Properties
  <2>5. \A i, j \in 1..Len(p) : p[i] = p[j] => i = j
    BY <2>2, <2>3
  <2>6. Len(p) \in 0..4
    BY <2>2
  <2>. QED BY <2>1, <2>4, <2>5, <2>6
<1>3. CASE type # 1 /\ type # 2
  <2>1. PropertiesOf(type) = <<>>
    BY <1>3 DEF PropertiesOf
  <2>. QED BY <2>1
<1>. QED BY <1>1, <1>2, <1>3

(* What is left of a string is empty only when the string is not kept. *)
LEMMA TrimmedIs ==
  ASSUME NEW t \in Seq(Chars)
  PROVE  Trimmed(t) \in Seq(Chars) /\ (Trimmed(t) = <<>> <=> ~Kept(t))
<1>1. CASE ~Kept(t)
  BY <1>1 DEF Trimmed
<1>2. CASE Kept(t)
  <2>. DEFINE c == FirstChar(t)
              l == Len(t)
              u == SubSeq(t, c, l)
  <2>1. c \in 1..l /\ l \in Nat
    BY <1>2, FirstCharIs DEF Kept
  <2>2. Trimmed(t) = u
    BY <1>2 DEF Trimmed
  <2>3. \A i \in c..l : t[i] \in Chars
    <3>1. \A i \in c..l : i \in 1..l
      <4>. HIDE DEF c, l
      <4>. QED BY <2>1
    <3>. QED BY <3>1
  <2>4. u \in Seq(Chars) /\ Len(u) = (IF c <= l THEN l - c + 1 ELSE 0)
    <3>. HIDE DEF c, l
    <3>1. c \in Int /\ l \in Int
      BY <2>1
    <3>. QED BY <2>3, <3>1, SubSeqProperties
  <2>5. Len(u) # 0
    <3>. HIDE DEF c, l, u
    <3>. QED BY <2>1, <2>4
  <2>6. u # <<>>
    <3>. HIDE DEF u
    <3>. QED BY <2>5
  <2>. HIDE DEF u
  <2>. QED BY <1>2, <2>2, <2>4, <2>6
<1>. QED BY <1>1, <1>2

(* A structure gives a name at most one string, and it is not empty. *)
LEMMA GivesText ==
  ASSUME WrittenTable, NEW n, NEW i \in 1..Len(structures), NEW j, Gives(n, i, j)
  PROVE  /\ j \in 1..4 /\ Text(i, j) \in Seq(Chars) /\ Text(i, j) # <<>>
         /\ \A x : Gives(n, i, x) => x = j
<1>. DEFINE s == structures[i]
            t == s.strings[s.refs[j]]
<1>1. WellFormed(s)
  BY StructuresWellFormed
<1>2. j \in 1..4 /\ j \in Nat /\ j \in 1..Len(PropertiesOf(s.type)) /\ PropertiesOf(s.type)[j] = n
  BY NamesDiffer DEF Gives, Named
<1>3. Len(s.refs) >= 4 /\ s.refs[j] # 0 /\ Kept(t)
  BY DEF Gives, Named
<1>4. t \in Seq(Chars)
  <2>1. s.refs \in Seq(Nat) /\ s.strings \in Seq(Seq(Chars))
        /\ \A x \in 1..Len(s.refs) : s.refs[x] \in 0..Len(s.strings)
    BY <1>1, Fields
  <2>2. j \in 1..Len(s.refs)
    BY <1>2, <1>3, <2>1
  <2>3. s.refs[j] \in 1..Len(s.strings)
    BY <1>3, <2>1, <2>2
  <2>. QED BY <2>1, <2>3
<1>5. Text(i, j) \in Seq(Chars) /\ Text(i, j) # <<>>
  BY <1>3, <1>4, TrimmedIs DEF Text
<1>6. ASSUME NEW x, Gives(n, i, x) PROVE x = j
  <2>1. x \in 1..Len(PropertiesOf(s.type)) /\ PropertiesOf(s.type)[x] = n
    BY <1>6 DEF Gives, Named
  <2>. QED BY <1>2, <2>1, NamesDiffer
<1>. QED BY <1>2, <1>5, <1>6

(* What processSMBIOSStructureType1 and 2 make of the i-th structure: a     *)
(* name gets the string that the structure gives it, except a serial number *)
(* that is there; the others stay.                                          *)
LEMMA ProcessedIs ==
  ASSUME WrittenTable, NEW i \in 1..Len(structures), NEW n \in Properties
  PROVE  LET may == n = "serial-number" => ~serialKnown /\ root[n] = <<>>
         IN  /\ \A j : Gives(n, i, j) /\ may => Processed(Table, Ends[i-1])[n] = Text(i, j)
             /\ ~may \/ (\A j : ~Gives(n, i, j)) => Processed(Table, Ends[i-1])[n] = root[n]
<1>. DEFINE s == structures[i]
            at == Ends[i-1]
            may == n = "serial-number" => ~serialKnown /\ root[n] = <<>>
            names == IF Table[at + 1] < 8 THEN <<>> ELSE PropertiesOf(Table[at])
            Value(j) == StringAtIndex(Table, at + Table[at + 1], Table[at + Header + j - 1])
            Sets(j) == names[j] = n /\ Value(j) # <<>>
                       /\ (n = "serial-number" => ~serialKnown /\ root[n] = <<>>)
<1>1. Processed(Table, at)[n] =
        IF \E j \in 1..Len(names) : Sets(j) THEN Value(CHOOSE j \in 1..Len(names) : Sets(j)) ELSE root[n]
  BY DEF Processed
<1>2. /\ WellFormed(s) /\ Table[at] = s.type /\ Table[at + 1] = StringsAt(s)
      /\ \A j \in 1..Len(s.refs) : Table[at + Header + j - 1] = s.refs[j]
      /\ \E ends : Strings(Table, at + StringsAt(s), s.strings, ends)
  BY StructureInTable
<1>3. s.refs \in Seq(Nat) /\ s.strings \in Seq(Seq(Chars))
      /\ \A j \in 1..Len(s.refs) : s.refs[j] \in 0..Len(s.strings)
  BY <1>2, Fields
<1>4. Table[at + 1] < 8 <=> ~(Len(s.refs) >= 4)
  <2>. DEFINE r == Len(s.refs)
  <2>1. Table[at + 1] = 4 + r /\ r \in Nat
    BY <1>2, <1>3 DEF StringsAt, Header
  <2>. HIDE DEF r, at
  <2>2. Table[at + 1] < 8 <=> ~(r >= 4)
    BY <2>1
  <2>. QED BY <2>2 DEF r
<1>5. ASSUME NEW j \in 1..Len(s.refs)
      PROVE  Value(j) = IF s.refs[j] = 0 THEN <<>> ELSE Text(i, j)
  <2>1. Value(j) = StringAtIndex(Table, at + StringsAt(s), s.refs[j])
    BY <1>2
  <2>2. PICK ends : Strings(Table, at + StringsAt(s), s.strings, ends)
    BY <1>2
  <2>3. CASE s.refs[j] = 0
    BY <2>1, <2>2, <2>3, StringFound
  <2>4. CASE s.refs[j] # 0
    <3>1. s.refs[j] \in 1..Len(s.strings)
      BY <1>3, <2>4
    <3>2. StringAtIndex(Table, at + StringsAt(s), s.refs[j]) = Trimmed(s.strings[s.refs[j]])
      BY <2>2, <3>1, StringFound
    <3>. QED BY <2>1, <2>4, <3>2 DEF Text
  <2>. QED BY <2>3, <2>4
<1>6. ASSUME NEW j PROVE (j \in 1..Len(names) /\ Sets(j)) <=> (Gives(n, i, j) /\ may)
  <2>1. CASE ~(Len(s.refs) >= 4)
    <3>1. names = <<>>
      BY <1>4, <2>1
    <3>2. ~(j \in 1..Len(names))
      <4>. HIDE DEF names
      <4>. QED BY <3>1
    <3>3. ~Gives(n, i, j)
      BY <2>1 DEF Gives, Named
    <3>. QED BY <3>2, <3>3
  <2>2. CASE Len(s.refs) >= 4
    <3>1. names = PropertiesOf(s.type)
      BY <1>2, <1>4, <2>2
    <3>. HIDE DEF names
    <3>2. CASE ~(j \in 1..Len(names))
      BY <3>1, <3>2 DEF Gives
    <3>3. CASE j \in 1..Len(names)
      <4>1. j \in 1..4
        BY <3>1, <3>3, NamesDiffer
      <4>2. j \in 1..Len(s.refs)
        BY <1>3, <2>2, <4>1
      <4>3. Value(j) = IF s.refs[j] = 0 THEN <<>> ELSE Text(i, j)
        BY <1>5, <4>2
      <4>4. s.refs[j] # 0 => s.strings[s.refs[j]] \in Seq(Chars)
        BY <1>3, <4>2
      <4>5. Value(j) # <<>> <=> s.refs[j] # 0 /\ Kept(s.strings[s.refs[j]])
        BY <4>3, <4>4, TrimmedIs DEF Text
      <4>6. Gives(n, i, j) <=> names[j] = n /\ s.refs[j] # 0 /\ Kept(s.strings[s.refs[j]])
        BY <2>2, <3>1, <3>3 DEF Gives, Named
      <4>. HIDE DEF Value
      <4>. QED BY <3>3, <4>5, <4>6
    <3>. QED BY <3>2, <3>3
  <2>. QED BY <2>1, <2>2
<1>7. ASSUME NEW j, Gives(n, i, j), may PROVE Processed(Table, at)[n] = Text(i, j)
  <2>1. ASSUME NEW x \in 1..Len(names), Sets(x) PROVE x = j
    <3>1. Gives(n, i, x)
      <4>. HIDE DEF Sets, names, may
      <4>. QED BY <1>6, <2>1
    <3>. QED BY <1>7, <3>1, GivesText
  <2>2. j \in 1..Len(names) /\ Sets(j)
    BY <1>6, <1>7
  <2>. HIDE DEF Sets, Value, names
  <2>3. (CHOOSE x \in 1..Len(names) : Sets(x)) = j
    BY <2>1, <2>2
  <2>4. Processed(Table, at)[n] = Value(j)
    BY <1>1, <2>2, <2>3
  <2>5. j \in 1..Len(s.refs) /\ s.refs[j] # 0
    <3>1. j \in 1..4 /\ Len(s.refs) >= 4 /\ s.refs[j] # 0
      BY <1>7, GivesText DEF Gives, Named
    <3>. QED BY <1>3, <3>1
  <2>. QED BY <1>5, <2>4, <2>5
<1>8. ASSUME ~may \/ \A j : ~Gives(n, i, j) PROVE Processed(Table, at)[n] = root[n]
  <2>1. ~(\E j \in 1..Len(names) : Sets(j))
    BY <1>6, <1>8
  <2>. HIDE DEF Sets, Value, names
  <2>. QED BY <1>1, <2>1
<1>. QED BY <1>7, <1>8

Prevails(n, i, a) == IF n = "serial-number" THEN i <= a ELSE i >= a

(* v is what the first k structures give n. *)
GivenBy(n, k, v) ==
  \/ /\ (n = "serial-number" /\ serialKnown) \/ \A i \in 1..k : \A j \in 1..4 : ~Gives(n, i, j)
     /\ v = <<>>
  \/ /\ ~(n = "serial-number" /\ serialKnown)
     /\ \E i \in 1..k : \E j \in 1..4 :
          /\ Gives(n, i, j) /\ v = Text(i, j)
          /\ \A a \in 1..k : \A b \in 1..4 : Gives(n, a, b) => Prevails(n, i, a)

(* One structure more. *)
LEMMA GivenByNext ==
  ASSUME WrittenTable, NEW k \in Nat, k + 1 \in 1..Len(structures), NEW n \in Properties, GivenBy(n, k, root[n])
  PROVE  GivenBy(n, k + 1, Processed(Table, Ends[k])[n])
<1>. DEFINE i == k + 1
            v == Processed(Table, Ends[k])[n]
            may == n = "serial-number" => ~serialKnown /\ root[n] = <<>>
<1>1. /\ \A j : Gives(n, i, j) /\ may => v = Text(i, j)
      /\ ~may \/ (\A j : ~Gives(n, i, j)) => v = root[n]
  <2>1. i \in 1..Len(structures) /\ i - 1 = k
    OBVIOUS
  <2>2. LET m == n = "serial-number" => ~serialKnown /\ root[n] = <<>>
        IN  /\ \A j : Gives(n, i, j) /\ m => Processed(Table, Ends[i-1])[n] = Text(i, j)
            /\ ~m \/ (\A j : ~Gives(n, i, j)) => Processed(Table, Ends[i-1])[n] = root[n]
    BY <2>1, ProcessedIs
  <2>. HIDE DEF i
  <2>. QED BY <2>1, <2>2
<1>2. \A a \in 1..(k + 1) : a = i \/ a \in 1..k
  OBVIOUS
<1>3. \A j : Gives(n, i, j) => j \in 1..4
  BY GivesText
<1>4. i \in 1..(k + 1) /\ (\A a \in 1..k : a \in 1..(k + 1) /\ a <= i) /\ i <= i /\ i >= i
  OBVIOUS
<1>. HIDE DEF i, v
<1>5. CASE n = "serial-number" /\ serialKnown
  <2>1. v = root[n] /\ root[n] = <<>>
    BY <1>1, <1>5 DEF GivenBy
  <2>. QED BY <1>5, <2>1 DEF GivenBy, v
<1>6. CASE ~(n = "serial-number" /\ serialKnown) /\ \E j \in 1..4 : Gives(n, i, j)
  <2>1. PICK j \in 1..4 : Gives(n, i, j)
    BY <1>6
  <2>2. CASE may
    <3>1. v = Text(i, j)
      BY <1>1, <2>1, <2>2
    <3>2. ASSUME NEW a \in 1..(k + 1), NEW b \in 1..4, Gives(n, a, b) PROVE Prevails(n, i, a)
      <4>1. CASE a = i
        BY <1>4, <4>1 DEF Prevails
      <4>2. CASE a \in 1..k
        <5>1. CASE n = "serial-number"
          <6>1. root[n] = <<>>
            BY <2>2, <5>1
          <6>2. ASSUME NEW x \in 1..k, NEW y \in 1..4, Gives(n, x, y), root[n] = Text(x, y) PROVE FALSE
            <7>1. x \in 1..Len(structures)
              BY StructuresWellFormed
            <7>. QED BY <6>1, <6>2, <7>1, GivesText
          <6>3. \A x \in 1..k : \A y \in 1..4 : ~Gives(n, x, y)
            BY <1>6, <6>2 DEF GivenBy
          <6>. QED BY <3>2, <4>2, <6>3
        <5>2. CASE n # "serial-number"
          <6>1. a <= i
            BY <1>4, <4>2
          <6>. QED BY <4>2, <5>2, <6>1 DEF Prevails, i
        <5>. QED BY <5>1, <5>2
      <4>. QED BY <1>2, <4>1, <4>2
    <3>3. \E x \in 1..(k + 1) : \E y \in 1..4 :
            /\ Gives(n, x, y) /\ v = Text(x, y)
            /\ \A a \in 1..(k + 1) : \A b \in 1..4 : Gives(n, a, b) => Prevails(n, x, a)
      BY <1>4, <2>1, <3>1, <3>2, Zenon
    <3>. QED BY <1>6, <3>3 DEF GivenBy, v
  <2>3. CASE ~may
    <3>1. n = "serial-number" /\ root[n] # <<>> /\ v = root[n]
      BY <1>1, <1>6, <2>3
    <3>2. PICK x \in 1..k, y \in 1..4 :
            /\ Gives(n, x, y) /\ v = Text(x, y)
            /\ \A a \in 1..k : \A b \in 1..4 : Gives(n, a, b) => Prevails(n, x, a)
      BY <1>6, <3>1 DEF GivenBy
    <3>3. ASSUME NEW a \in 1..(k + 1), NEW b \in 1..4, Gives(n, a, b) PROVE Prevails(n, x, a)
      <4>1. CASE a = i
        BY <1>4, <3>1, <4>1 DEF Prevails
      <4>2. CASE a \in 1..k
        BY <3>2, <3>3, <4>2
      <4>. QED BY <1>2, <4>1, <4>2
    <3>4. x \in 1..(k + 1)
      BY <1>4
    <3>5. \E p \in 1..(k + 1) : \E q \in 1..4 :
            /\ Gives(n, p, q) /\ v = Text(p, q)
            /\ \A a \in 1..(k + 1) : \A b \in 1..4 : Gives(n, a, b) => Prevails(n, p, a)
      BY <3>2, <3>3, <3>4, Zenon
    <3>. QED BY <1>6, <3>5 DEF GivenBy, v
  <2>. QED BY <2>2, <2>3
<1>7. CASE ~(n = "serial-number" /\ serialKnown) /\ ~(\E j \in 1..4 : Gives(n, i, j))
  <2>1. v = root[n]
    BY <1>1, <1>3, <1>7
  <2>2. \A b \in 1..4 : ~Gives(n, i, b)
    BY <1>7
  <2>3. CASE (\A a \in 1..k : \A b \in 1..4 : ~Gives(n, a, b)) /\ root[n] = <<>>
    <3>1. \A a \in 1..(k + 1) : \A b \in 1..4 : ~Gives(n, a, b)
      BY <1>2, <2>2, <2>3
    <3>. QED BY <2>1, <2>3, <3>1 DEF GivenBy, v
  <2>4. CASE \E x \in 1..k : \E y \in 1..4 :
               /\ Gives(n, x, y) /\ root[n] = Text(x, y)
               /\ \A a \in 1..k : \A b \in 1..4 : Gives(n, a, b) => Prevails(n, x, a)
    <3>1. PICK x \in 1..k, y \in 1..4 :
            /\ Gives(n, x, y) /\ v = Text(x, y)
            /\ \A a \in 1..k : \A b \in 1..4 : Gives(n, a, b) => Prevails(n, x, a)
      BY <2>1, <2>4
    <3>2. \A a \in 1..(k + 1) : \A b \in 1..4 : Gives(n, a, b) => Prevails(n, x, a)
      BY <1>2, <2>2, <3>1
    <3>3. x \in 1..(k + 1)
      BY <1>4
    <3>4. \E p \in 1..(k + 1) : \E q \in 1..4 :
            /\ Gives(n, p, q) /\ v = Text(p, q)
            /\ \A a \in 1..(k + 1) : \A b \in 1..4 : Gives(n, a, b) => Prevails(n, p, a)
      BY <3>1, <3>2, <3>3, Zenon
    <3>. QED BY <1>7, <3>4 DEF GivenBy, v
  <2>. QED BY <1>7, <2>3, <2>4 DEF GivenBy
<1>. QED BY <1>5, <1>6, <1>7 DEF v

(* What all structures give a name is what was written under it. *)
LEMMA GivenIsWritten ==
  ASSUME WrittenTable, NEW n \in Properties, GivenBy(n, Len(structures), root[n])
  PROVE  root[n] = Written(n)
<1>. DEFINE N == Len(structures)
            places == {a \in (1..N) \X (1..4) :
                         a[2] <= Len(PropertiesOf(structures[a[1]].type)) /\ Named(n, a[1], a[2])}
            Best(a) == \A b \in places : IF n = "serial-number" THEN a[1] <= b[1] ELSE a[1] >= b[1]
            chosen == CHOOSE a \in places : Best(a)
            s == structures[chosen[1]].strings[structures[chosen[1]].refs[chosen[2]]]
<1>1. Written(n) = IF places = {} \/ (n = "serial-number" /\ serialKnown) THEN <<>>
                   ELSE SubSeq(s, FirstChar(s), Len(s))
  BY DEF Written
<1>2. N \in Nat
  BY StructuresWellFormed
<1>3. ASSUME NEW i \in 1..N, NEW j \in 1..4 PROVE <<i, j>> \in places <=> Gives(n, i, j)
  <2>1. Len(PropertiesOf(structures[i].type)) \in Nat
    BY NamesDiffer
  <2>2. j \in 1..Len(PropertiesOf(structures[i].type)) <=> j <= Len(PropertiesOf(structures[i].type))
    BY <2>1
  <2>. QED BY <2>2 DEF Gives
<1>4. ASSUME NEW a \in places PROVE a = <<a[1], a[2]>> /\ a[1] \in 1..N /\ a[2] \in 1..4 /\ Gives(n, a[1], a[2])
  <2>1. a = <<a[1], a[2]>> /\ a[1] \in 1..N /\ a[2] \in 1..4
    OBVIOUS
  <2>2. <<a[1], a[2]>> \in places
    BY <2>1
  <2>. HIDE DEF places
  <2>. QED BY <1>3, <2>1, <2>2
<1>. HIDE DEF places
<1>5. CASE root[n] = <<>> /\ ((n = "serial-number" /\ serialKnown) \/ \A i \in 1..N : \A j \in 1..4 : ~Gives(n, i, j))
  <2>1. places = {} \/ (n = "serial-number" /\ serialKnown)
    BY <1>4, <1>5
  <2>. QED BY <1>1, <1>5, <2>1
<1>6. CASE /\ ~(n = "serial-number" /\ serialKnown)
           /\ \E i \in 1..N : \E j \in 1..4 :
                /\ Gives(n, i, j) /\ root[n] = Text(i, j)
                /\ \A a \in 1..N : \A b \in 1..4 : Gives(n, a, b) => Prevails(n, i, a)
  <2>1. PICK i \in 1..N, j \in 1..4 :
          /\ Gives(n, i, j) /\ root[n] = Text(i, j)
          /\ \A a \in 1..N : \A b \in 1..4 : Gives(n, a, b) => Prevails(n, i, a)
    BY <1>6
  <2>2. <<i, j>> \in places /\ Best(<<i, j>>)
    <3>1. <<i, j>> \in places
      BY <1>3, <2>1
    <3>2. ASSUME NEW b \in places
          PROVE  IF n = "serial-number" THEN i <= b[1] ELSE i >= b[1]
      <4>1. b[1] \in 1..N /\ b[2] \in 1..4 /\ Gives(n, b[1], b[2])
        BY <1>4
      <4>2. Prevails(n, i, b[1])
        BY <2>1, <4>1
      <4>. QED BY <4>2 DEF Prevails
    <3>. QED BY <3>1, <3>2
  <2>3. chosen \in places /\ Best(chosen)
    <3>. HIDE DEF Best
    <3>. QED BY <2>2
  <2>. DEFINE c == chosen[1]
              d == chosen[2]
  <2>4. c \in 1..N /\ d \in 1..4 /\ Gives(n, c, d)
    <3>. HIDE DEF chosen, Best
    <3>. QED BY <1>4, <2>3
  <2>5. c = i
    <3>1. (IF n = "serial-number" THEN c <= i ELSE c >= i)
      <4>. HIDE DEF chosen
      <4>. QED BY <2>2, <2>3
    <3>2. IF n = "serial-number" THEN i <= c ELSE i >= c
      <4>. HIDE DEF chosen
      <4>. QED BY <2>2, <2>3
    <3>. HIDE DEF c
    <3>. QED BY <1>2, <2>4, <3>1, <3>2
  <2>6. d = j
    <3>1. Gives(n, i, d)
      BY <2>4, <2>5, Zenon
    <3>. HIDE DEF d
    <3>. QED BY <2>1, <3>1, GivesText
  <2>7. s = structures[i].strings[structures[i].refs[j]]
    <3>1. s = structures[c].strings[structures[c].refs[d]]
      OBVIOUS
    <3>. HIDE DEF s, c, d
    <3>. QED BY <2>5, <2>6, <3>1
  <2>8. Kept(s)
    <3>1. Kept(structures[i].strings[structures[i].refs[j]])
      BY <2>1 DEF Gives, Named
    <3>. QED BY <2>7, <3>1
  <2>9. root[n] = Trimmed(s)
    BY <2>1, <2>7 DEF Text
  <2>10. places # {}
    BY <2>2
  <2>. HIDE DEF s
  <2>. QED BY <1>1, <1>6, <2>8, <2>9, <2>10 DEF Trimmed
<1>. QED BY <1>5, <1>6 DEF GivenBy

(* As many structures are decoded as are not left. *)
Decoded == Len(structures) - structureCount

DecodingInv ==
  /\ WrittenTable
  /\ structureCount \in 0..Len(structures) /\ nextByte \in 0..TableEnd(Table)
  /\ structureCount > 0 => nextByte = Ends[Decoded]
  /\ {serialKnown, registered, missed} \subseteq BOOLEAN
  /\ \A n \in Properties : root[n] \in Seq(Chars) /\ GivenBy(n, Decoded, root[n])
  /\ registered => structureCount = 0

LEMMA DecodingStarts == SMBIOSInit => DecodingInv
<1>. SUFFICES ASSUME SMBIOSInit PROVE DecodingInv
  OBVIOUS
<1>1. WrittenTable /\ structureCount = Len(structures) /\ nextByte = 0
  BY DEF SMBIOSInit, WrittenTable
<1>2. Len(structures) \in Nat /\ TableEnd(Table) \in Nat /\ Ends[0] = 0
  BY <1>1, StructuresWellFormed, TableLayout
<1>3. Decoded = 0
  BY <1>1, <1>2 DEF Decoded
<1>4. structureCount \in 0..Len(structures) /\ nextByte \in 0..TableEnd(Table)
  BY <1>1, <1>2
<1>5. ASSUME NEW n \in Properties PROVE root[n] \in Seq(Chars) /\ GivenBy(n, Decoded, root[n])
  <2>1. root[n] = <<>>
    BY DEF SMBIOSInit
  <2>2. GivenBy(n, 0, <<>>)
    <3>1. \A i \in 1..0 : FALSE
      OBVIOUS
    <3>2. \A i \in 1..0 : \A j \in 1..4 : ~Gives(n, i, j)
      BY <3>1
    <3>. QED BY <3>2 DEF GivenBy
  <2>. QED BY <1>3, <2>1, <2>2
<1>6. {serialKnown, registered, missed} \subseteq BOOLEAN /\ ~registered
  BY DEF SMBIOSInit
<1>. QED BY <1>1, <1>2, <1>3, <1>4, <1>5, <1>6 DEF DecodingInv

(* MoreStructures: as long as structures are left. *)
LEMMA DecodingGoesOn == ASSUME DecodingInv, structureCount > 0 PROVE MoreStructures(Table)
<1>. DEFINE i == Decoded + 1
            T == TableEnd(Table)
<1>1. WrittenTable /\ structureCount \in 0..Len(structures) /\ nextByte = Ends[Decoded]
  BY DEF DecodingInv
<1>2. i \in 1..Len(structures) /\ i - 1 = Decoded
  <2>1. Len(structures) \in Nat
    BY <1>1, StructuresWellFormed
  <2>. QED BY <1>1, <2>1 DEF Decoded
<1>. HIDE DEF i
<1>3. /\ Table[Ends[i-1] + 1] = StringsAt(structures[i]) /\ Ends[i-1] + Header < T
      /\ StringsAt(structures[i]) <= T - Ends[i-1]
  BY <1>1, <1>2, StructureInTable
<1>4. Ends[i-1] = nextByte
  BY <1>1, <1>2
<1>5. structureCount > 0 /\ T > nextByte + Header /\ Table[nextByte + 1] <= T - nextByte
  <2>1. Ends[i-1] \in Nat /\ T \in Nat
    BY <1>1, <1>2, StructureInTable
  <2>. HIDE DEF T
  <2>2. T > nextByte + Header
    BY <1>3, <1>4, <2>1 DEF Header
  <2>. QED BY <1>3, <1>4, <2>2
<1>. QED BY <1>5 DEF MoreStructures

(* The loop's body: one structure is decoded. *)
LEMMA DecodingStep ==
  ASSUME DecodingInv, structureCount > 0
  PROVE  LET at == AfterStrings(Table, nextByte + Table[nextByte + 1])
         IN  /\ structureCount - 1 \in 0..Len(structures) /\ at \in 0..TableEnd(Table)
             /\ structureCount - 1 > 0 => at = Ends[Decoded + 1]
             /\ \A n \in Properties :
                  /\ Processed(Table, nextByte)[n] \in Seq(Chars)
                  /\ GivenBy(n, Decoded + 1, Processed(Table, nextByte)[n])
<1>. DEFINE i == Decoded + 1
            s == structures[i]
            T == TableEnd(Table)
            a == Ends[i-1]
            e == Ends[i]
            h == StringsAt(s)
            at == AfterStrings(Table, nextByte + Table[nextByte + 1])
<1>1. WrittenTable /\ structureCount \in 0..Len(structures) /\ nextByte = Ends[Decoded]
  BY DEF DecodingInv
<1>2. i \in 1..Len(structures) /\ i - 1 = Decoded /\ Decoded \in Nat /\ Len(structures) \in Nat
  <2>1. Len(structures) \in Nat
    BY <1>1, StructuresWellFormed
  <2>. QED BY <1>1, <2>1 DEF Decoded
<1>3. structureCount - 1 \in 0..Len(structures)
  BY <1>1, <1>2
<1>4. structureCount - 1 > 0 => i + 1 \in 1..Len(structures)
  BY <1>1, <1>2 DEF Decoded
<1>5. /\ WellFormed(s) /\ a \in Nat /\ T \in Nat /\ Table[a + 1] = h /\ e \in Nat
      /\ \E ends : Strings(Table, a + h, s.strings, ends) /\ Stop(a + h, s.strings, ends) = e
  BY <1>1, <1>2, StructureInTable
<1>6. a = nextByte /\ at = AfterStrings(Table, a + h) /\ h \in Nat
  <2>1. a = nextByte
    BY <1>1, <1>2
  <2>2. h \in Nat
    BY <1>5, Fields
  <2>. QED BY <1>5, <2>1, <2>2
<1>7. at \in 0..T
  <2>1. a + h \in Nat
    BY <1>5, <1>6
  <2>. QED BY <1>5, <1>6, <2>1, AfterStringsInTable
<1>8. ASSUME structureCount - 1 > 0 PROVE at = e
  <2>1. i + 1 \in 1..Len(structures) /\ (i + 1) - 1 = i
    BY <1>2, <1>4, <1>8
  <2>2. Ends[(i + 1) - 1] + 6 <= Ends[i + 1] /\ Ends[i + 1] \in Nat
    BY <1>1, <2>1, StructureInTable
  <2>3. Ends[i + 1] <= T
    BY <1>1, <2>1, TableLayout
  <2>4. e + 3 <= T
    <3>. DEFINE f == Ends[i + 1]
    <3>1. e + 6 <= f /\ f \in Nat /\ f <= T
      BY <2>1, <2>2, <2>3
    <3>. HIDE DEF e, f, T
    <3>. QED BY <1>5, <3>1
  <2>5. PICK ends : Strings(Table, a + h, s.strings, ends) /\ Stop(a + h, s.strings, ends) = e
    BY <1>5
  <2>. QED BY <1>6, <2>4, <2>5, AfterStringsIsStop
<1>9. ASSUME NEW n \in Properties
      PROVE  /\ Processed(Table, nextByte)[n] \in Seq(Chars)
             /\ GivenBy(n, Decoded + 1, Processed(Table, nextByte)[n])
  <2>1. root[n] \in Seq(Chars) /\ GivenBy(n, Decoded, root[n])
    BY DEF DecodingInv
  <2>2. GivenBy(n, Decoded + 1, Processed(Table, nextByte)[n])
    BY <1>1, <1>2, <2>1, GivenByNext
  <2>3. Processed(Table, nextByte)[n] \in Seq(Chars)
    <3>1. CASE Processed(Table, nextByte)[n] = <<>>
      BY <3>1
    <3>2. CASE \E x \in 1..i : \E j \in 1..4 : Gives(n, x, j) /\ Processed(Table, nextByte)[n] = Text(x, j)
      <4>1. PICK x \in 1..i, j \in 1..4 : Gives(n, x, j) /\ Processed(Table, nextByte)[n] = Text(x, j)
        BY <3>2
      <4>2. x \in 1..Len(structures)
        BY <1>2, <4>1
      <4>. QED BY <1>1, <4>1, <4>2, GivesText
    <3>. QED BY <2>2, <3>1, <3>2 DEF GivenBy
  <2>. QED BY <2>2, <2>3
<1>. QED BY <1>3, <1>7, <1>8, <1>9

(* What is read from the table depends on the structures alone. *)
LEMMA SameTable ==
  ASSUME UNCHANGED <<structures, padding>> PROVE Table' = Table /\ Ends' = Ends /\ WrittenTable' = WrittenTable
  BY DEF Table, Ends, Blocks, WrittenTable

LEMMA SameGivenBy ==
  ASSUME UNCHANGED <<structures, serialKnown>>, NEW n, NEW k, NEW v, GivenBy(n, k, v)
  PROVE  GivenBy(n, k, v)'
<1>1. \A i, j : Gives(n, i, j)' = Gives(n, i, j)
  BY DEF Gives, Named
<1>2. \A i, j : Text(i, j)' = Text(i, j)
  BY DEF Text
<1>. QED BY <1>1, <1>2 DEF GivenBy

LEMMA DecodingKept == DecodingInv /\ [SMBIOSNext]_smbiosVars => DecodingInv'
<1>. SUFFICES ASSUME DecodingInv, [SMBIOSNext]_smbiosVars PROVE DecodingInv'
  OBVIOUS
<1>1. UNCHANGED <<structures, padding, serialKnown>>
  BY DEF SMBIOSNext, smbiosVars, DecodeStructure, RegisterSMBIOS, MonitorStarts, WaitForSMBIOS,
         ReadVendor, ReadProduct
<1>2. Table' = Table /\ Ends' = Ends /\ WrittenTable'
  BY <1>1, SameTable DEF DecodingInv
<1>3. TableEnd(Table)' = TableEnd(Table)
  BY <1>2 DEF TableEnd
<1>4. CASE DecodeStructure
  <2>1. /\ structureCount > 0 /\ ~registered /\ structureCount' = structureCount - 1
        /\ nextByte' = AfterStrings(Table, nextByte + Table[nextByte + 1])
        /\ root' = Processed(Table, nextByte) /\ UNCHANGED <<registered, missed>>
    BY <1>4 DEF DecodeStructure, MoreStructures
  <2>2. Decoded' = Decoded + 1
    <3>1. structureCount \in 0..Len(structures) /\ Len(structures) \in Nat
      BY StructuresWellFormed DEF DecodingInv
    <3>. QED BY <1>1, <2>1, <3>1 DEF Decoded
  <2>3. /\ structureCount' \in 0..Len(structures') /\ nextByte' \in 0..TableEnd(Table)'
        /\ structureCount' > 0 => nextByte' = Ends'[Decoded']
    BY <1>1, <1>2, <1>3, <2>1, <2>2, DecodingStep
  <2>4. ASSUME NEW n \in Properties PROVE root'[n] \in Seq(Chars) /\ GivenBy(n, Decoded, root[n])'
    <3>1. root'[n] \in Seq(Chars) /\ GivenBy(n, Decoded + 1, root'[n])
      BY <2>1, DecodingStep
    <3>. QED BY <1>1, <2>2, <3>1, SameGivenBy
  <2>5. {serialKnown', registered', missed'} \subseteq BOOLEAN /\ ~registered'
    BY <1>1, <2>1 DEF DecodingInv
  <2>. QED BY <1>2, <2>3, <2>4, <2>5 DEF DecodingInv
<1>5. CASE UNCHANGED <<structureCount, nextByte, root>>
  <2>1. Decoded' = Decoded
    BY <1>1, <1>5 DEF Decoded
  <2>2. ASSUME NEW n \in Properties PROVE root'[n] \in Seq(Chars) /\ GivenBy(n, Decoded, root[n])'
    BY <1>1, <1>5, <2>1, SameGivenBy DEF DecodingInv
  <2>3. registered' => structureCount' = 0
    <3>1. CASE RegisterSMBIOS
      <4>1. ~MoreStructures(Table)
        BY <3>1 DEF RegisterSMBIOS
      <4>2. ~(structureCount > 0)
        BY <4>1, DecodingGoesOn
      <4>3. structureCount \in 0..Len(structures) /\ Len(structures) \in Nat
        BY StructuresWellFormed DEF DecodingInv
      <4>. QED BY <1>5, <4>2, <4>3
    <3>2. CASE registered' = registered
      BY <1>5, <3>2 DEF DecodingInv
    <3>3. RegisterSMBIOS \/ registered' = registered
      BY DEF SMBIOSNext, smbiosVars, DecodeStructure, MonitorStarts, WaitForSMBIOS, ReadVendor, ReadProduct
    <3>. QED BY <3>1, <3>2, <3>3
  <2>4. {serialKnown', registered', missed'} \subseteq BOOLEAN
    <3>1. {serialKnown, registered, missed} \subseteq BOOLEAN
      BY DEF DecodingInv
    <3>2. registered' \in BOOLEAN
      BY <3>1 DEF SMBIOSNext, smbiosVars, DecodeStructure, RegisterSMBIOS, MonitorStarts, WaitForSMBIOS,
                  ReadVendor, ReadProduct
    <3>3. missed' \in BOOLEAN
      BY <3>1 DEF SMBIOSNext, smbiosVars, DecodeStructure, RegisterSMBIOS, MonitorStarts, WaitForSMBIOS,
                  ReadVendor, ReadProduct
    <3>. QED BY <1>1, <3>1, <3>2, <3>3
  <2>5. /\ structureCount' \in 0..Len(structures') /\ nextByte' \in 0..TableEnd(Table)'
        /\ structureCount' > 0 => nextByte' = Ends'[Decoded']
    BY <1>1, <1>2, <1>3, <1>5, <2>1 DEF DecodingInv
  <2>. QED BY <1>2, <2>2, <2>3, <2>4, <2>5 DEF DecodingInv
<1>6. DecodeStructure \/ UNCHANGED <<structureCount, nextByte, root>>
  BY DEF SMBIOSNext, smbiosVars, RegisterSMBIOS, MonitorStarts, WaitForSMBIOS, ReadVendor, ReadProduct
<1>. QED BY <1>4, <1>5, <1>6

(* Where the Super I/O monitor is.  Once OemSMBIOS is registered the root  *)
(* does not change, and nobody changes what a monitor has read.            *)
MonitorInv ==
  /\ monitor = [step |-> monitor.step, vendor |-> monitor.vendor, product |-> monitor.product]
  /\ monitor.step \in {"start", "wait", "vendor", "product", "configured"}
  /\ registered \in BOOLEAN /\ missed \in BOOLEAN
  /\ monitor.step \in {"vendor", "product", "configured"} /\ ~missed => registered
  /\ monitor.step \in {"product", "configured"} /\ ~missed =>
       monitor.vendor = NameFrom("oem-mb-manufacturer", "oem-manufacturer")
  /\ monitor.step = "configured" /\ ~missed =>
       monitor.product = NameFrom("oem-mb-product", "oem-product-name")

FinalNames ==
  monitor.step = "configured" /\ ~missed =>
    /\ registered
    /\ monitor.vendor = NameFrom("oem-mb-manufacturer", "oem-manufacturer")
    /\ monitor.product = NameFrom("oem-mb-product", "oem-product-name")

LEMMA MonitorAlways == SMBIOSSpec => []MonitorInv
<1>1. SMBIOSInit => MonitorInv
  <2>. SUFFICES ASSUME SMBIOSInit PROVE MonitorInv
    OBVIOUS
  <2>1. monitor.step = "start" /\ registered = FALSE /\ missed = FALSE
    BY DEF SMBIOSInit
  <2>2. monitor = [step |-> monitor.step, vendor |-> monitor.vendor, product |-> monitor.product]
    BY DEF SMBIOSInit
  <2>. QED BY <2>1, <2>2 DEF MonitorInv
<1>2. MonitorInv /\ [SMBIOSNext]_smbiosVars => MonitorInv'
  <2>. SUFFICES ASSUME MonitorInv, [SMBIOSNext]_smbiosVars PROVE MonitorInv'
    OBVIOUS
  <2>1. CASE DecodeStructure
    BY <2>1 DEF MonitorInv, DecodeStructure, NameFrom
  <2>2. CASE RegisterSMBIOS
    BY <2>2 DEF MonitorInv, RegisterSMBIOS, NameFrom
  <2>3. CASE MonitorStarts
    BY <2>3 DEF MonitorInv, MonitorStarts, NameFrom
  <2>4. CASE WaitForSMBIOS
    BY <2>4 DEF MonitorInv, WaitForSMBIOS, NameFrom
  <2>5. CASE ReadVendor
    BY <2>5 DEF MonitorInv, ReadVendor, NameFrom
  <2>6. CASE ReadProduct
    BY <2>6 DEF MonitorInv, ReadProduct, NameFrom
  <2>7. CASE UNCHANGED smbiosVars
    BY <2>7 DEF MonitorInv, smbiosVars, NameFrom
  <2>. QED BY <2>1, <2>2, <2>3, <2>4, <2>5, <2>6, <2>7 DEF SMBIOSNext
<1>. QED BY <1>1, <1>2, PTL DEF SMBIOSSpec

(* A Super I/O monitor that has met OemSMBIOS registered is configured for *)
(* the names that stay at the root, both from the mainboard or, where it   *)
(* has none, from the system; one that read while the table is decoded may *)
(* have others.                                                            *)
THEOREM MonitorMeetsFinalNames == SMBIOSSpec => []FinalNames
<1>1. MonitorInv => FinalNames
  BY DEF MonitorInv, FinalNames
<1>. QED BY <1>1, MonitorAlways, PTL

LEMMA DecodingAlways == SMBIOSSpec => []DecodingInv
  BY DecodingStarts, DecodingKept, PTL DEF SMBIOSSpec

(* The counter of structures and the position stay within the table, and  *)
(* what is put at the root are strings of printable characters.            *)
THEOREM SMBIOSTypeCorrect == SMBIOSSpec => []SMBIOSTypeOK
<1>1. DecodingInv /\ MonitorInv => SMBIOSTypeOK
  BY DEF DecodingInv, MonitorInv, SMBIOSTypeOK
<1>. QED BY <1>1, DecodingAlways, MonitorAlways, PTL

(* Every table of well-formed structures is decoded as it was written, by  *)
(* the time that OemSMBIOS registers: whatever structures it has, blank    *)
(* strings, unused numbers and zeros within them, and however many zeros   *)
(* follow.  The strings may have any length, but one whose characters,     *)
(* without leading spaces, are a multiple of 256 counts as none, as the    *)
(* 8-bit length of stringAtIndex has it.  And a Super I/O monitor that has met OemSMBIOS registered has   *)
(* these names, those of the mainboard if there are any.                   *)
THEOREM BoardAsWritten == SMBIOSSpec => []BoardKnown
<1>1. ASSUME DecodingInv, MonitorInv PROVE BoardKnown
  <2>1. ASSUME registered PROVE \A n \in Properties : root[n] = Written(n)
    <3>1. WrittenTable /\ structureCount = 0 /\ Len(structures) \in Nat
      BY <1>1, <2>1, StructuresWellFormed DEF DecodingInv
    <3>2. Decoded = Len(structures)
      BY <3>1 DEF Decoded
    <3>3. \A n \in Properties : GivenBy(n, Len(structures), root[n])
      BY <1>1, <3>2 DEF DecodingInv
    <3>. QED BY <3>1, <3>3, GivenIsWritten
  <2>2. ASSUME monitor.step = "configured", ~missed
        PROVE  /\ monitor.vendor = IF Written("oem-mb-manufacturer") # <<>>
                                   THEN Written("oem-mb-manufacturer") ELSE Written("oem-manufacturer")
               /\ monitor.product = IF Written("oem-mb-product") # <<>>
                                    THEN Written("oem-mb-product") ELSE Written("oem-product-name")
    <3>1. /\ registered /\ monitor.vendor = NameFrom("oem-mb-manufacturer", "oem-manufacturer")
          /\ monitor.product = NameFrom("oem-mb-product", "oem-product-name")
      BY <1>1, <2>2 DEF MonitorInv
    <3>2. \A n \in Properties : root[n] = Written(n)
      BY <2>1, <3>1
    <3>3. {"oem-mb-manufacturer", "oem-manufacturer", "oem-mb-product", "oem-product-name"} \subseteq Properties
      BY DEF Properties
    <3>. HIDE DEF Written
    <3>. QED BY <3>1, <3>2, <3>3 DEF NameFrom
  <2>. QED BY <2>1, <2>2 DEF BoardKnown
<1>. QED BY <1>1, DecodingAlways, MonitorAlways, PTL
================================================================================
