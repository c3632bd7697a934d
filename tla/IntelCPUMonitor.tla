---------------------------- MODULE IntelCPUMonitor ----------------------------
(***************************************************************************)
(* The frequency loop of IntelCPUMonitor on a processor with turbo.        *)
(* Activate runs it once on the thread of start; at its end it sets the    *)
(* timer that runs it again.  It samples the cycle counters of all CPUs    *)
(* twice, 2 ms apart, and computes the frequencies from the differences.   *)
(* Sleep stops the counters; on wake-up setPowerState forgets all samples  *)
(* and that the counters have been switched on.                            *)
(*                                                                         *)
(* A sample is named by where it comes from; the counters do not wrap      *)
(* around within the 2 ms, and there is one logical CPU in each core.      *)
(***************************************************************************)
EXTENDS Integers

CONSTANTS Cpus,        \* 0 .. count - 1
          MaxSleeps    \* bound: how often the machine goes to sleep

ASSUME CpuAssumption == Cpus # {} /\ MaxSleeps \in Nat

(* No sample, or a counter at rest; one of an earlier loop; the two of the *)
(* latest loop.                                                            *)
Samples == {"zero", "old", "first", "second"}

(* The thread of start, and the one that runs the timer's action.          *)
LoopThreads == {"starter", "workLoop"}

LoopSteps == {"out", "begin", "sample1", "sample2", "publish", "unlock", "rearm"}

VARIABLES
  UCC, lastUCC,        \* core cycles: the last two samples of each CPU
  UCR, lastUCR,        \* reference cycles
  InitFlags,           \* the counters of the CPU have been switched on
  counting,            \* the CPUs: their counters are on
  Frequency,           \* where each frequency comes from
  Active, LoopLock,
  timerSet,            \* the timer of the work loop is going to fire
  loopStep,            \* where in loopTimerEvent each thread is
  clearing,            \* which bzero of setPowerState is next, 6: none
  sleeps,              \* how often the machine has slept
  stopped,             \* Deactivate has been called
  disturbed,           \* history: sleep or setPowerState during this loop
  stoppedAmid          \* history: Deactivate was called during a loop

counterVars == <<UCC, lastUCC, UCR, lastUCR, InitFlags, counting>>
loopVars == <<Active, LoopLock, timerSet, loopStep>>
otherVars == <<clearing, sleeps, stopped, stoppedAmid>>
cpuVars == <<counterVars, Frequency, loopVars, otherVars, disturbed>>

Looping == \E t \in LoopThreads : loopStep[t] # "out"

At(t, s) == loopStep[t] = s

Go(t, s) == loopStep' = [loopStep EXCEPT ![t] = s]

Zeroed == [c \in Cpus |-> "zero"]

Unset == [c \in Cpus |-> FALSE]
--------------------------------------------------------------------------------
IntelInit ==
  /\ UCC = Zeroed /\ lastUCC = Zeroed /\ UCR = Zeroed /\ lastUCR = Zeroed
  /\ InitFlags = Unset /\ counting \in [Cpus -> BOOLEAN]
  /\ Frequency = [c \in Cpus |-> "none"]
  /\ Active = FALSE /\ LoopLock = FALSE /\ timerSet = FALSE
  /\ loopStep = [t \in LoopThreads |-> "out"]
  /\ clearing = 6 /\ sleeps = 0
  /\ stopped = FALSE /\ disturbed = FALSE /\ stoppedAmid = FALSE

Activate ==
  /\ ~Active /\ ~stopped
  /\ Active' = TRUE
  /\ Go("starter", "begin")
  /\ UNCHANGED <<counterVars, Frequency, LoopLock, timerSet, otherVars, disturbed>>

TimerFires ==
  /\ timerSet /\ At("workLoop", "out")
  /\ timerSet' = FALSE
  /\ Go("workLoop", "begin")
  /\ UNCHANGED <<counterVars, Frequency, Active, LoopLock, otherVars, disturbed>>

(* Nothing is done, and no timer set, while another loop runs. *)
BeginLoop(t) ==
  /\ At(t, "begin")
  /\ IF LoopLock
     THEN Go(t, "out") /\ UNCHANGED <<LoopLock, disturbed>>
     ELSE Go(t, "sample1") /\ LoopLock' = TRUE /\ disturbed' = (clearing # 6)
  /\ UNCHANGED <<counterVars, Frequency, Active, timerSet, otherVars>>

(* The previous sample; those of this loop go by their names. *)
Previous(s, which) == IF which = "first" /\ s # "zero" THEN "old" ELSE s

(* UCState, on all CPUs at once and with interrupts off: the counters are  *)
(* switched on unless that has been done, the previous sample is kept and  *)
(* a new one taken.                                                        *)
UCState(which) ==
  /\ InitFlags' = [c \in Cpus |-> TRUE]
  /\ counting' = [c \in Cpus |-> counting[c] \/ ~InitFlags[c]]
  /\ lastUCC' = [c \in Cpus |-> Previous(UCC[c], which)]
  /\ lastUCR' = [c \in Cpus |-> Previous(UCR[c], which)]
  /\ UCC' = [c \in Cpus |-> IF counting'[c] THEN which ELSE "zero"]
  /\ UCR' = UCC'

Sample(t) ==
  /\ \/ At(t, "sample1") /\ UCState("first")  /\ Go(t, "sample2")
     \/ At(t, "sample2") /\ UCState("second") /\ Go(t, "publish")
  /\ UNCHANGED <<Frequency, Active, LoopLock, timerSet, otherVars, disturbed>>

(* The quotient of the two differences; the ratio of the P-state when the  *)
(* reference counter has not moved.                                        *)
IntelGetFrequency(c) ==
  IF UCR[c] = lastUCR[c] THEN "ratio"
  ELSE IF lastUCC[c] = "first" /\ UCC[c] = "second" /\ lastUCR[c] = "first" /\ UCR[c] = "second"
       THEN "measured"
       ELSE "other"

Publish(t) ==
  /\ At(t, "publish")
  /\ Frequency' = [c \in Cpus |-> IntelGetFrequency(c)]
  /\ Go(t, "unlock")
  /\ UNCHANGED <<counterVars, Active, LoopLock, timerSet, otherVars, disturbed>>

(* Mutant of LeaveLoop: the timer is set before the lock is given up. *)
ArmFirst(t) ==
  /\ \/ /\ At(t, "unlock") /\ Go(t, "rearm")
        /\ timerSet' = TRUE /\ UNCHANGED LoopLock
     \/ /\ At(t, "rearm") /\ Go(t, "out")
        /\ LoopLock' = FALSE /\ UNCHANGED timerSet
  /\ UNCHANGED <<counterVars, Frequency, Active, otherVars, disturbed>>

(* The lock is given up, then the timer set. *)
LeaveLoop(t) ==
  /\ \/ /\ At(t, "unlock") /\ Go(t, "rearm")
        /\ LoopLock' = FALSE /\ UNCHANGED timerSet
     \/ /\ At(t, "rearm") /\ Go(t, "out")
        /\ timerSet' = TRUE /\ UNCHANGED LoopLock
  /\ UNCHANGED <<counterVars, Frequency, Active, otherVars, disturbed>>

(* The machine sleeps and wakes up; nothing runs in between. *)
Sleep ==
  /\ sleeps < MaxSleeps /\ clearing = 6
  /\ sleeps' = sleeps + 1
  /\ counting' = Unset
  /\ clearing' = 1
  /\ disturbed' = TRUE
  /\ UNCHANGED <<UCC, lastUCC, UCR, lastUCR, InitFlags, Frequency, loopVars, stopped, stoppedAmid>>

(* Mutant of SetPowerState: InitFlags stays. *)
ClearSamples ==
  /\ clearing < 6
  /\ clearing' = clearing + 1
  /\ UCC'     = IF clearing = 1 THEN Zeroed ELSE UCC
  /\ lastUCC' = IF clearing = 2 THEN Zeroed ELSE lastUCC
  /\ UCR'     = IF clearing = 3 THEN Zeroed ELSE UCR
  /\ lastUCR' = IF clearing = 4 THEN Zeroed ELSE lastUCR
  /\ disturbed' = TRUE
  /\ UNCHANGED <<InitFlags, counting, Frequency, loopVars, sleeps, stopped, stoppedAmid>>

(* setPowerState, on the thread of power management: five times bzero. *)
SetPowerState ==
  /\ clearing < 6
  /\ clearing' = clearing + 1
  /\ UCC'       = IF clearing = 1 THEN Zeroed ELSE UCC
  /\ lastUCC'   = IF clearing = 2 THEN Zeroed ELSE lastUCC
  /\ UCR'       = IF clearing = 3 THEN Zeroed ELSE UCR
  /\ lastUCR'   = IF clearing = 4 THEN Zeroed ELSE lastUCR
  /\ InitFlags' = IF clearing = 5 THEN Unset ELSE InitFlags
  /\ disturbed' = TRUE
  /\ UNCHANGED <<counting, Frequency, loopVars, sleeps, stopped, stoppedAmid>>

Deactivate ==
  /\ Active
  /\ Active' = FALSE /\ timerSet' = FALSE
  /\ stopped' = TRUE /\ stoppedAmid' = Looping
  /\ UNCHANGED <<counterVars, Frequency, LoopLock, loopStep, clearing, sleeps, disturbed>>
--------------------------------------------------------------------------------
LoopTimerEvent(t) == BeginLoop(t) \/ Sample(t) \/ Publish(t) \/ LeaveLoop(t)

IntelNext ==
  \/ Activate \/ Deactivate \/ TimerFires
  \/ Sleep \/ SetPowerState
  \/ \E t \in LoopThreads : LoopTimerEvent(t)

IntelSpec == IntelInit /\ [][IntelNext]_cpuVars
--------------------------------------------------------------------------------
(* LoopLock is held exactly while a loop has begun and not published.      *)
IntelTypeOK ==
  /\ {UCC, lastUCC, UCR, lastUCR} \subseteq [Cpus -> Samples]
  /\ {InitFlags, counting} \subseteq [Cpus -> BOOLEAN]
  /\ Frequency \in [Cpus -> {"none", "ratio", "measured", "other"}]
  /\ {Active, LoopLock, timerSet, stopped, disturbed, stoppedAmid} \subseteq BOOLEAN
  /\ loopStep \in [LoopThreads -> LoopSteps]
  /\ LoopLock <=> \E t \in LoopThreads : loopStep[t] \in {"sample1", "sample2", "publish", "unlock"}
  /\ clearing \in 1..6
  /\ sleeps \in 0..MaxSleeps

(* "Please, don't remove this timer!"  From Activate on the loop runs, or  *)
(* the timer is set to run it again; it never ends up returning early with *)
(* no timer set.  After Deactivate neither holds, unless a loop was        *)
(* running, which then sets the timer again.                               *)
MonitoringFollowsActive ==
  /\ Active => Looping \/ timerSet
  /\ stopped /\ ~stoppedAmid => ~Looping /\ ~timerSet

(* What a loop publishes comes from the two samples that this loop took,   *)
(* unless the machine slept, or setPowerState was still clearing samples,  *)
(* while it ran.  So the counters are on again after each wake-up.         *)
FrequencyMeasured ==
  \A t \in LoopThreads :
    loopStep[t] = "unlock" /\ ~disturbed => \A c \in Cpus : Frequency[c] = "measured"
================================================================================
