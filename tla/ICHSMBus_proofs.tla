---------------------------- MODULE ICHSMBus_proofs ----------------------------
(***************************************************************************)
(* Proofs about ICHSMBus, for any number of threads and registers: the     *)
(* types also with GetConf, the rest when all threads lock the bus.        *)
(***************************************************************************)
EXTENDS ICHSMBus, TLAPS

Calling == Programming \cup {"poll", "check", "asleep", "left", "woken", "result"}

(* A thread in I2CExec has its arguments, and a controller at work has been *)
(* given a command.                                                         *)
ArgInv ==
  /\ \A t \in Threads : step[t] \in Calling => reg[t] \in Registers /\ op[t] \in {"Read", "Write"}
  /\ \A t \in Threads : step[t] \in {"describe", "start"} => hcmd \in Registers
  /\ "BUSY" \in hs => hcmd \in Registers

TypeInv == TypeOK /\ ArgInv

(* The steps of a thread, and those of the controller and the interrupt. *)
ThreadStep(t) ==
  \/ Begin(t) \/ LockI2CBus(t) \/ UnlockI2CBus(t) \/ Exec(t) \/ I2CExec(t)

HostStep == Transfer \/ InterruptFilter \/ InterruptHandler

LEMMA InitTypes == Init => TypeInv
<1>. SUFFICES ASSUME Init PROVE TypeInv
  OBVIOUS
<1>. USE DEF Init, Steps, Errors
<1>1. TypeOK
  <2>1. /\ step \in [Threads -> Steps] /\ op \in [Threads -> {"None", "Read", "Write"}]
        /\ outcome \in [Threads -> {"None", "success", "failure"}]
    OBVIOUS
  <2>2. /\ reg \in [Threads -> Registers \cup {Undefined}]
        /\ buffer \in [Threads -> Registers \cup {Undefined}]
        /\ chip \in [Registers -> Registers \cup {Undefined}]
    OBVIOUS
  <2>3. I2C_Transfer \in [op : {"None", "Read", "Write"}, error : BOOLEAN,
                          buffer : Threads \cup {NoThread}]
    OBVIOUS
  <2>4. /\ hs \subseteq Errors \cup {"BUSY", "INTR"} /\ fSt \subseteq Errors \cup {"INTR"}
        /\ event \in BOOLEAN /\ disturbed \in BOOLEAN
    OBVIOUS
  <2>. QED BY <2>1, <2>2, <2>3, <2>4 DEF TypeOK
<1>2. ArgInv
  BY DEF ArgInv, Calling, Programming
<1>. QED BY <1>1, <1>2 DEF TypeInv

LEMMA ThreadTypes ==
  ASSUME TypeInv, NEW t \in Threads, ThreadStep(t)
  PROVE  TypeInv'
<1>. USE DEF TypeInv, TypeOK, ArgInv, Goto, Return, hostVars, handlerVars, Calling, Programming, Steps
<1>1. CASE Begin(t)
  BY <1>1 DEF Begin
<1>2. CASE LockI2CBus(t)
  BY <1>2 DEF LockI2CBus
<1>3. CASE UnlockI2CBus(t)
  BY <1>3 DEF UnlockI2CBus
<1>4. CASE Exec(t)
  <2>1. PICK o \in {"Read", "Write"}, r \in Registers :
          op' = [op EXCEPT ![t] = o] /\ reg' = [reg EXCEPT ![t] = r]
    BY <1>4 DEF Exec
  <2>2. /\ step' \in [Threads -> Steps] /\ op' \in [Threads -> {"None", "Read", "Write"}]
        /\ reg' \in [Threads -> Registers \cup {Undefined}]
    BY <1>4, <2>1 DEF Exec
  <2>3. /\ buffer' \in [Threads -> Registers \cup {Undefined}]
        /\ outcome' \in [Threads -> {"None", "success", "failure"}]
    BY <1>4 DEF Exec
  <2>4. TypeOK'
    BY <1>4, <2>2, <2>3 DEF Exec
  <2>5. ArgInv'
    BY <1>4, <2>1 DEF Exec
  <2>. QED BY <2>4, <2>5
<1>5. CASE Poll(t)
  BY <1>5 DEF Poll, WaitForIdle
<1>6. CASE WriteAddress(t)
  BY <1>6 DEF WriteAddress, Direction
<1>7. CASE WriteCommand(t)
  BY <1>7 DEF WriteCommand
<1>8. CASE Describe(t)
  BY <1>8 DEF Describe
<1>9. CASE Start(t)
  BY <1>9 DEF Start, Errors
<1>10. CASE CheckEvent(t)
  <2>1. event' \in BOOLEAN
    BY <1>10 DEF CheckEvent, TakeEvent
  <2>2. step' \in [Threads -> Steps]
    BY <1>10 DEF CheckEvent, TakeEvent
  <2>3. ArgInv'
    BY <1>10 DEF CheckEvent, TakeEvent
  <2>. QED BY <1>10, <2>1, <2>2, <2>3 DEF CheckEvent
<1>11. CASE Leave(t)
  BY <1>11 DEF Leave
<1>12. CASE Awake(t)
  <2>1. step' \in [Threads -> Steps] /\ outcome' \in [Threads -> {"None", "success", "failure"}]
    BY <1>12 DEF Awake
  <2>2. ArgInv'
    BY <1>12 DEF Awake
  <2>3. event' \in BOOLEAN
    BY <1>12 DEF Awake
  <2>. QED BY <1>12, <2>1, <2>2, <2>3 DEF Awake
<1>13. CASE Result(t)
  BY <1>13 DEF Result
<1>. QED
  BY <1>1, <1>2, <1>3, <1>4, <1>5, <1>6, <1>7, <1>8, <1>9, <1>10, <1>11, <1>12, <1>13
  DEF ThreadStep, I2CExec

LEMMA HostTypes ==
  ASSUME TypeInv, HostStep
  PROVE  TypeInv'
<1>. USE DEF TypeInv, TypeOK, ArgInv, Goto, threadVars, hostVars, handlerVars, Errors, Calling, Programming, Steps
<1>1. CASE Transfer
  <2>1. hcmd \in Registers
    BY <1>1 DEF Transfer
  <2>2. hs' \subseteq Errors \cup {"BUSY", "INTR"} /\ "BUSY" \notin hs'
    BY <1>1 DEF Transfer
  <2>3. hd0' \in Registers \cup {Undefined}
    BY <1>1, <2>1 DEF Transfer
  <2>4. chip' \in [Registers -> Registers \cup {Undefined}]
    BY <1>1, <2>1 DEF Transfer
  <2>. QED BY <1>1, <2>2, <2>3, <2>4 DEF Transfer
<1>2. CASE InterruptFilter
  BY <1>2 DEF InterruptFilter
<1>3. CASE Acknowledge
  BY <1>3 DEF Acknowledge
<1>4. CASE Fetch
  <2>1. I2C_Transfer' \in [op : {"None", "Read", "Write"}, error : BOOLEAN,
                           buffer : Threads \cup {NoThread}]
    BY <1>4 DEF Fetch
  <2>2. buffer' \in [Threads -> Registers \cup {Undefined}]
    BY <1>4 DEF Fetch
  <2>. QED BY <1>4, <2>1, <2>2 DEF Fetch
<1>5. CASE Signal
  BY <1>5 DEF Signal
<1>. QED
  BY <1>1, <1>2, <1>3, <1>4, <1>5 DEF HostStep, InterruptHandler

LEMMA TypesStutter == UNCHANGED vars => (TypeInv => TypeInv')
  BY DEF TypeInv, TypeOK, ArgInv, vars, threadVars, hostVars, handlerVars

LEMMA NextSteps == Next <=> (\E t \in Threads : ThreadStep(t)) \/ HostStep
  BY DEF Next, ThreadStep, HostStep

LEMMA TypesKept == TypeInv /\ [Next]_vars => TypeInv'
  BY ThreadTypes, HostTypes, TypesStutter, NextSteps

(* Arguments, controller, handler and event always have values of their    *)
(* types: no transfer is started without a register.                       *)
THEOREM TypeCorrect == Spec => []TypeOK
<1>1. Spec => []TypeInv
  BY InitTypes, TypesKept, PTL DEF Spec
<1>2. TypeInv => TypeOK
  BY DEF TypeInv
<1>. QED BY <1>1, <1>2, PTL
--------------------------------------------------------------------------------
(* A thread is in I2CExec, or between two transfers, exactly when it has   *)
(* I2C_Lock.                                                               *)
LockInv == \A t \in Threads : step[t] \notin {"idle", "lock"} <=> busLock = t

(* Nobody programs a controller that is at work, and what has been         *)
(* programmed is what the thread was asked for.                            *)
HostInv ==
  /\ \A t \in Threads :
       /\ step[t] \in Programming => "BUSY" \notin hs
       /\ step[t] \in {"command", "describe", "start"} => slave = op[t]
       /\ step[t] \in {"describe", "start"} => hcmd = reg[t]
       /\ step[t] = "start" /\ op[t] = "Write" => hd0 = reg[t]
  /\ "BUSY" \in hs /\ slave = "Write" => hd0 = hcmd

ChipInv == TypeInv /\ LockInv /\ HostInv /\ ChipIntact

LEMMA InitChip == Init => LockInv /\ HostInv /\ ChipIntact
  BY BusAssumption DEF Init, LockInv, HostInv, ChipIntact, Programming, Errors

LEMMA ThreadChip ==
  ASSUME Unlocked = {}, ChipInv, NEW t \in Threads, ThreadStep(t)
  PROVE  LockInv' /\ HostInv' /\ ChipIntact'
<1>1. \A u \in Threads \ {t} : step[t] \notin {"idle", "lock"} => step[u] \in {"idle", "lock"}
  BY DEF ChipInv, LockInv
<1>2. chip' = chip
  BY DEF ThreadStep, I2CExec, Begin, LockI2CBus, UnlockI2CBus, Exec, Poll, WriteAddress,
     WriteCommand, Describe, Start, CheckEvent, Leave, Awake, Result, hostVars
<1>3. ChipIntact'
  BY <1>2 DEF ChipInv, ChipIntact
<1>. USE <1>1, <1>3, BusAssumption DEF ChipInv, TypeInv, TypeOK, ArgInv, LockInv, HostInv, Goto, Return, hostVars,
       handlerVars, Calling, Programming, Steps
<1>4. CASE Begin(t)
  BY <1>4 DEF Begin
<1>5. CASE LockI2CBus(t)
  BY <1>5 DEF LockI2CBus
<1>6. CASE UnlockI2CBus(t)
  BY <1>6 DEF UnlockI2CBus
<1>7. CASE Exec(t)
  BY <1>7 DEF Exec
<1>8. CASE Poll(t)
  BY <1>8 DEF Poll, WaitForIdle
<1>9. CASE WriteAddress(t)
  BY <1>9 DEF WriteAddress, Direction
<1>10. CASE WriteCommand(t)
  BY <1>10 DEF WriteCommand
<1>11. CASE Describe(t)
  BY <1>11 DEF Describe
<1>12. CASE Start(t)
  BY <1>12 DEF Start
<1>13. CASE CheckEvent(t)
  BY <1>13 DEF CheckEvent, TakeEvent
<1>14. CASE Leave(t)
  BY <1>14 DEF Leave
<1>15. CASE Awake(t)
  BY <1>15 DEF Awake
<1>16. CASE Result(t)
  BY <1>16 DEF Result
<1>. QED
  BY <1>4, <1>5, <1>6, <1>7, <1>8, <1>9, <1>10, <1>11, <1>12, <1>13, <1>14, <1>15, <1>16
  DEF ThreadStep, I2CExec

LEMMA HostChip ==
  ASSUME Unlocked = {}, ChipInv, HostStep
  PROVE  LockInv' /\ HostInv' /\ ChipIntact'
<1>. USE DEF ChipInv, TypeInv, TypeOK, ArgInv, LockInv, HostInv, ChipIntact, Goto, threadVars, hostVars,
       handlerVars, Errors, Calling, Programming, Steps
<1>1. CASE Transfer
  BY <1>1 DEF Transfer
<1>2. CASE InterruptFilter
  BY <1>2 DEF InterruptFilter
<1>3. CASE Acknowledge
  BY <1>3 DEF Acknowledge
<1>4. CASE Fetch
  BY <1>4 DEF Fetch
<1>5. CASE Signal
  BY <1>5 DEF Signal
<1>. QED
  BY <1>1, <1>2, <1>3, <1>4, <1>5 DEF HostStep, InterruptHandler

LEMMA ChipStutter == UNCHANGED vars => (ChipInv => ChipInv')
  BY TypesStutter DEF ChipInv, LockInv, HostInv, ChipIntact, vars, threadVars, hostVars, handlerVars

LEMMA ChipKept ==
  ASSUME Unlocked = {}, ChipInv, [Next]_vars
  PROVE  ChipInv'
<1>1. TypeInv'
  BY TypesKept DEF ChipInv
<1>2. CASE UNCHANGED vars
  BY <1>2, ChipStutter
<1>3. CASE Next
  BY <1>1, <1>3, ThreadChip, HostChip, NextSteps DEF ChipInv
<1>. QED BY <1>2, <1>3

(* When all callers lock the bus, a byte only gets into the register of    *)
(* the chip it was meant for, whatever times out, fails or hangs.          *)
THEOREM ChipStaysIntact ==
  ASSUME Unlocked = {}
  PROVE  Spec => []ChipIntact
<1>1. Init => ChipInv
  BY InitTypes, InitChip DEF ChipInv
<1>2. ChipInv /\ [Next]_vars => ChipInv'
  BY ChipKept
<1>3. ChipInv => ChipIntact
  BY DEF ChipInv
<1>. QED BY <1>1, <1>2, <1>3, PTL DEF Spec
--------------------------------------------------------------------------------
(* What the controller, the handler and the event are, while thread t      *)
(* waits for its transfer: at work, ended with the answer or an error,     *)
(* acknowledged, fetched, signalled.                                       *)
HasAnswer(t) == op[t] = "Read" => hd0 = reg[t]

Fetched(t) == I2C_Transfer.error \/ (op[t] = "Read" => buffer[t] = reg[t])

Ended(t, status) == (status = {"INTR"} /\ HasAnswer(t)) \/ status = Errors

Running(t) ==
  \/ hs = {"BUSY"} /\ handler = "off" /\ slave = op[t] /\ hcmd = reg[t]
  \/ Ended(t, hs) /\ handler = "off"
  \/ Ended(t, hs) /\ handler = "acknowledge" /\ fSt = hs
  \/ Ended(t, fSt) /\ handler = "fetch" /\ hs = {}

InTransfer(t) ==
  \/ ~event /\ ~I2C_Transfer.error /\ Running(t)
  \/ hs = {} /\ handler = "signal" /\ ~event /\ Fetched(t)
  \/ hs = {} /\ handler = "off" /\ event /\ Fetched(t) /\ step[t] = "check"

Waiting == {"check", "asleep", "woken", "result"}

Quiet == hs = {} /\ handler = "off" /\ ~event

Described(t) == I2C_Transfer.op = op[t] /\ (op[t] = "Read" => I2C_Transfer.buffer = t)

(* What a thread relies on at each step of I2CExec, as long as nobody has  *)
(* left a transfer behind.                                                 *)
ThreadAnswer(t) ==
  /\ step[t] # "left"
  /\ step[t] \in {"idle", "lock"} => outcome[t] = "None"
  /\ step[t] \in {"check", "asleep"} => InTransfer(t)
  /\ step[t] = "woken" => hs = {} /\ handler = "off" /\ Fetched(t)
  /\ step[t] = "result" => Quiet /\ Fetched(t)
  /\ step[t] \in Waiting \cup {"start"} => Described(t)
  /\ step[t] = "start" => ~I2C_Transfer.error
  /\ Answered(t)

AnswerInv ==
  ~disturbed => /\ (\A t \in Threads : step[t] \notin Waiting) => Quiet
                /\ \A t \in Threads : ThreadAnswer(t)

LEMMA InitAnswer == Init => AnswerInv
  BY DEF Init, AnswerInv, ThreadAnswer, Quiet, Waiting, Answered, Errors

LEMMA ThreadAnswers ==
  ASSUME Unlocked = {}, ChipInv, AnswerInv, NEW t \in Threads, ThreadStep(t)
  PROVE  AnswerInv'
<1>1. \A u \in Threads \ {t} : step[t] \notin {"idle", "lock"} => step[u] \in {"idle", "lock"}
  BY DEF ChipInv, LockInv
<1>. USE <1>1, BusAssumption DEF ChipInv, TypeInv, TypeOK, ArgInv, LockInv, HostInv, AnswerInv, ThreadAnswer,
       HasAnswer, Fetched, Ended, Running, InTransfer, Waiting, Quiet, Described, Answered,
       Goto, Return, hostVars, handlerVars, Calling, Programming, Steps, Errors
<1>3. CASE Begin(t)
  BY <1>3 DEF Begin
<1>4. CASE LockI2CBus(t)
  BY <1>4 DEF LockI2CBus
<1>5. CASE UnlockI2CBus(t)
  BY <1>5 DEF UnlockI2CBus
<1>6. CASE Exec(t)
  BY <1>6 DEF Exec
<1>7. CASE Poll(t)
  BY <1>7 DEF Poll, WaitForIdle
<1>8. CASE WriteAddress(t)
  BY <1>8 DEF WriteAddress, Direction
<1>9. CASE WriteCommand(t)
  BY <1>9 DEF WriteCommand
<1>10. CASE Describe(t)
  BY <1>10 DEF Describe
<1>11. CASE Start(t)
  <2>. SUFFICES ASSUME ~disturbed' PROVE ~disturbed /\ AnswerInv'
    BY DEF AnswerInv
  <2>1. ~disturbed /\ Quiet /\ ~I2C_Transfer.error /\ Described(t) /\ slave = op[t] /\ hcmd = reg[t]
    BY <1>1, <1>11 DEF Start
  <2>2. ThreadAnswer(t)'
    BY <1>11, <2>1 DEF Start
  <2>3. ASSUME NEW u \in Threads \ {t} PROVE ThreadAnswer(u)'
    BY <1>1, <1>11, <2>1, <2>3 DEF Start
  <2>4. step'[t] \in Waiting
    BY <1>11 DEF Start
  <2>. QED BY <2>1, <2>2, <2>3, <2>4 DEF AnswerInv
<1>12. CASE CheckEvent(t)
  BY <1>12 DEF CheckEvent, TakeEvent
<1>13. CASE Leave(t)
  BY <1>13 DEF Leave
<1>14. CASE Awake(t)
  BY <1>14 DEF Awake
<1>15. CASE Result(t)
  BY <1>15 DEF Result
<1>. QED
  BY <1>3, <1>4, <1>5, <1>6, <1>7, <1>8, <1>9, <1>10, <1>11, <1>12, <1>13, <1>14, <1>15
  DEF ThreadStep, I2CExec

LEMMA HostAnswers ==
  ASSUME Unlocked = {}, ChipInv, AnswerInv, HostStep
  PROVE  AnswerInv'
<1>. USE DEF ChipInv, TypeInv, TypeOK, ArgInv, LockInv, HostInv, ChipIntact, AnswerInv, ThreadAnswer,
       HasAnswer, Fetched, Ended, Running, InTransfer, Waiting, Quiet, Described, Answered,
       Goto, threadVars, hostVars, handlerVars, Calling, Programming, Steps, Errors
<1>1. CASE Transfer
  BY <1>1 DEF Transfer
<1>2. CASE InterruptFilter
  <2>. SUFFICES ASSUME ~disturbed' PROVE ~disturbed /\ AnswerInv'
    BY DEF AnswerInv
  <2>1. PICK t \in Threads : step[t] \in Waiting
    BY <1>2 DEF InterruptFilter
  <2>2. step[t] \in {"check", "asleep"} /\ Ended(t, hs) /\ ~event /\ ~I2C_Transfer.error
    <3>1. ~disturbed /\ hs # {} /\ hs # {"BUSY"} /\ handler = "off"
      BY <1>2 DEF InterruptFilter
    <3>2. step[t] \in {"check", "asleep"}
      BY <2>1, <3>1
    <3>3. InTransfer(t)
      BY <3>1, <3>2
    <3>. QED BY <3>1, <3>2, <3>3
  <2>3. ThreadAnswer(t)'
    BY <1>2, <2>1, <2>2 DEF InterruptFilter
  <2>4. ASSUME NEW u \in Threads \ {t} PROVE ThreadAnswer(u)'
    BY <1>2, <2>1, <2>2 DEF InterruptFilter
  <2>. QED BY <1>2, <2>1, <2>3, <2>4 DEF InterruptFilter
<1>3. CASE Acknowledge
  BY <1>3 DEF Acknowledge
<1>4. CASE Fetch
  BY <1>4 DEF Fetch
<1>5. CASE Signal
  BY <1>5 DEF Signal
<1>. QED
  BY <1>1, <1>2, <1>3, <1>4, <1>5 DEF HostStep, InterruptHandler

LEMMA AnswerStutter == UNCHANGED vars => (AnswerInv => AnswerInv')
  BY DEF AnswerInv, ThreadAnswer, HasAnswer, Fetched, Ended, Running, InTransfer, Waiting, Quiet, Described,
     Answered, vars, threadVars, hostVars, handlerVars

(* When all callers lock the bus, and as long as each has waited for its   *)
(* interrupt, a read that reports success has brought the register that    *)
(* was asked for.                                                          *)
THEOREM LockedReadsAnswered ==
  ASSUME Unlocked = {}
  PROVE  Spec => []ReadsAnswered
<1>1. Init => ChipInv /\ AnswerInv
  BY InitTypes, InitChip, InitAnswer DEF ChipInv
<1>2. ChipInv /\ AnswerInv /\ [Next]_vars => (ChipInv /\ AnswerInv)'
  BY ChipKept, ThreadAnswers, HostAnswers, AnswerStutter, NextSteps
<1>3. AnswerInv => ReadsAnswered
  BY DEF AnswerInv, ThreadAnswer, ReadsAnswered
<1>. QED BY <1>1, <1>2, <1>3, PTL DEF Spec
================================================================================
