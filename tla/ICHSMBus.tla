-------------------------------- MODULE ICHSMBus --------------------------------
(***************************************************************************)
(* The driver of the SMBus host controller: I2CExec programs the           *)
(* controller, starts a transfer and sleeps; an interrupt filter and a     *)
(* handler on the work loop fetch the answer and wake the caller.  The     *)
(* callbacks of Andigilog bracket their transfers by LockI2CBus and        *)
(* UnlockI2CBus; its GetConf, which runs when the keys have already been   *)
(* registered, does not.  All of them transfer one byte.                   *)
(*                                                                         *)
(* The chip on the bus and every caller that writes put the name of a      *)
(* register into it, so that the model can tell whose byte it is.          *)
(***************************************************************************)
CONSTANTS Threads,     \* the threads that use the bus
          Unlocked,    \* those of them that run GetConf
          Registers,   \* the registers of the chip
          NoThread, Undefined

ASSUME BusAssumption ==
  /\ Unlocked \subseteq Threads
  /\ NoThread \notin Threads
  /\ Undefined \notin Registers

VARIABLES
  busLock,     \* who has I2C_Lock
  step,        \* where each thread is
  op, reg,     \* the arguments of I2CExec: the direction and cmdbuf
  buffer,      \* what this call has brought into buf
  outcome,     \* what the last call has returned
  I2C_Transfer,      \* op, error_marker, and whose buffer
  event,             \* Lock.event
  hs,                \* the controller's status register
  slave, hcmd, hd0,  \* its direction bit, its command and its data register
  chip,              \* the registers of the chip
  handler, fSt,      \* where the interrupt handler is, and its status
  disturbed          \* history: an interrupt may be on its way for nobody

threadVars  == <<busLock, step, op, reg, buffer, outcome>>
hostVars    == <<hs, slave, hcmd, hd0, chip>>
handlerVars == <<handler, fSt>>
vars == <<threadVars, I2C_Transfer, event, hostVars, handlerVars, disturbed>>

Programming == {"address", "command", "describe", "start"}

Steps == Programming \cup
         {"idle", "lock", "ready", "poll", "check", "asleep", "left", "woken", "result"}

(* DEVERR stands for BUSERR and FAILED as well. *)
Errors == {"DEVERR"}
--------------------------------------------------------------------------------
(* start.  After a cold start the status may still show an error. *)
Init ==
  /\ busLock = NoThread
  /\ step = [t \in Threads |-> "idle"]
  /\ op = [t \in Threads |-> "None"]
  /\ reg = [t \in Threads |-> Undefined]
  /\ buffer = [t \in Threads |-> Undefined]
  /\ outcome = [t \in Threads |-> "None"]
  /\ I2C_Transfer = [op |-> "None", error |-> FALSE, buffer |-> NoThread]
  /\ event = FALSE
  /\ hs \in {{}, Errors}
  /\ slave = "Read" /\ hcmd = Undefined /\ hd0 = Undefined
  /\ chip = [r \in Registers |-> r]
  /\ handler = "off" /\ fSt = {}
  /\ disturbed = (hs # {})

Goto(t, s) == step' = [step EXCEPT ![t] = s]

(* I2CExec returns: 0 is success. *)
Return(t, result) == Goto(t, "ready") /\ outcome' = [outcome EXCEPT ![t] = result]
--------------------------------------------------------------------------------
(* Andigilog comes to a callback that uses the bus, or to GetConf. *)
Begin(t) ==
  /\ step[t] = "idle"
  /\ Goto(t, IF t \in Unlocked THEN "ready" ELSE "lock")
  /\ UNCHANGED <<busLock, op, reg, buffer, outcome, I2C_Transfer, event, hostVars, handlerVars, disturbed>>

LockI2CBus(t) ==
  /\ step[t] = "lock"
  /\ busLock = NoThread
  /\ busLock' = t
  /\ Goto(t, "ready")
  /\ UNCHANGED <<op, reg, buffer, outcome, I2C_Transfer, event, hostVars, handlerVars, disturbed>>

(* The callback, or GetConf, has made all its transfers. *)
UnlockI2CBus(t) ==
  /\ step[t] = "ready"
  /\ busLock' = IF t \in Unlocked THEN busLock ELSE NoThread
  /\ Goto(t, "idle")
  /\ op' = [op EXCEPT ![t] = "None"]
  /\ reg' = [reg EXCEPT ![t] = Undefined]
  /\ buffer' = [buffer EXCEPT ![t] = Undefined]
  /\ outcome' = [outcome EXCEPT ![t] = "None"]
  /\ UNCHANGED <<I2C_Transfer, event, hostVars, handlerVars, disturbed>>

(* ReadI2CBus and WriteI2CBus, with a register of the chip. *)
Exec(t) ==
  /\ step[t] = "ready"
  /\ \E o \in {"Read", "Write"}, r \in Registers :
       op' = [op EXCEPT ![t] = o] /\ reg' = [reg EXCEPT ![t] = r]
  /\ buffer' = [buffer EXCEPT ![t] = Undefined]
  /\ outcome' = [outcome EXCEPT ![t] = "None"]
  /\ Goto(t, "poll")
  /\ UNCHANGED <<busLock, I2C_Transfer, event, hostVars, handlerVars, disturbed>>
--------------------------------------------------------------------------------
(* Mutant: the status is read, but not looked at. *)
GoOn(t) ==
  /\ Goto(t, "address")
  /\ UNCHANGED outcome

(* The hundred looks at the status; if it is busy each time the call fails. *)
WaitForIdle(t) ==
  \/ "BUSY" \notin hs /\ Goto(t, "address") /\ UNCHANGED outcome
  \/ "BUSY" \in hs /\ Return(t, "failure")

Poll(t) ==
  /\ step[t] = "poll"
  /\ WaitForIdle(t)
  /\ UNCHANGED <<busLock, op, reg, buffer, I2C_Transfer, event, hostVars, handlerVars, disturbed>>

(* TXSLVA. *)
Direction(t) == slave' = op[t]

WriteAddress(t) ==
  /\ step[t] = "address"
  /\ Direction(t)
  /\ Goto(t, "command")
  /\ UNCHANGED <<busLock, op, reg, buffer, outcome, I2C_Transfer, event, hs, hcmd, hd0, chip, handlerVars, disturbed>>

WriteCommand(t) ==
  /\ step[t] = "command"
  /\ hcmd' = reg[t]
  /\ Goto(t, "describe")
  /\ UNCHANGED <<busLock, op, reg, buffer, outcome, I2C_Transfer, event, hs, slave, hd0, chip, handlerVars, disturbed>>

(* I2C_Transfer, of which a write leaves the buffer alone, and HD0. *)
Describe(t) ==
  /\ step[t] = "describe"
  /\ I2C_Transfer' = [op |-> op[t], error |-> FALSE,
                      buffer |-> IF op[t] = "Read" THEN t ELSE I2C_Transfer.buffer]
  /\ hd0' = IF op[t] = "Write" THEN reg[t] ELSE hd0
  /\ Goto(t, "start")
  /\ UNCHANGED <<busLock, op, reg, buffer, outcome, event, hs, slave, hcmd, chip, handlerVars, disturbed>>

Start(t) ==
  /\ step[t] = "start"
  /\ hs' = hs \cup {"BUSY"}
  /\ Goto(t, "check")
  /\ UNCHANGED <<busLock, op, reg, buffer, outcome, I2C_Transfer, event, slave, hcmd, hd0, chip, handlerVars, disturbed>>

(* Under Lock.holder: the event has come already, or the thread sleeps.    *)
(* Mutant: the event is left for the next call.                            *)
LeaveEvent(t) ==
  \/ event /\ Goto(t, "result") /\ UNCHANGED event
  \/ ~event /\ Goto(t, "asleep") /\ UNCHANGED event

TakeEvent(t) ==
  \/ event /\ Goto(t, "result") /\ event' = FALSE
  \/ ~event /\ Goto(t, "asleep") /\ UNCHANGED event

CheckEvent(t) ==
  /\ step[t] = "check"
  /\ TakeEvent(t)
  /\ UNCHANGED <<busLock, op, reg, buffer, outcome, I2C_Transfer, hostVars, handlerVars, disturbed>>

(* IOLockSleepDeadline ends after a second, or when the caller's task gets *)
(* a signal (THREAD_INTERRUPTIBLE).  Mutant: it does not.                  *)
SleepOn(t) == FALSE

Leave(t) ==
  /\ step[t] = "asleep"
  /\ Goto(t, "left")
  /\ disturbed' = TRUE
  /\ UNCHANGED <<busLock, op, reg, buffer, outcome, I2C_Transfer, event, hostVars, handlerVars>>

(* The thread has Lock.holder again. *)
Awake(t) ==
  /\ event' = FALSE
  /\ \/ step[t] = "woken" /\ Goto(t, "result") /\ UNCHANGED outcome
     \/ step[t] = "left" /\ Return(t, "failure")
  /\ UNCHANGED <<busLock, op, reg, buffer, I2C_Transfer, hostVars, handlerVars, disturbed>>

Result(t) ==
  /\ step[t] = "result"
  /\ Return(t, IF I2C_Transfer.error THEN "failure" ELSE "success")
  /\ UNCHANGED <<busLock, op, reg, buffer, I2C_Transfer, event, hostVars, handlerVars, disturbed>>

I2CExec(t) ==
  \/ Poll(t) \/ WriteAddress(t) \/ WriteCommand(t) \/ Describe(t) \/ Start(t)
  \/ CheckEvent(t) \/ Leave(t) \/ Awake(t) \/ Result(t)
--------------------------------------------------------------------------------
(* The controller ends what its registers say, or fails. *)
Transfer ==
  /\ "BUSY" \in hs
  /\ \/ /\ hs' = (hs \ {"BUSY"}) \cup {"INTR"}
        /\ IF slave = "Read"
           THEN hd0' = chip[hcmd] /\ UNCHANGED chip
           ELSE chip' = [chip EXCEPT ![hcmd] = hd0] /\ UNCHANGED hd0
     \/ /\ hs' = (hs \ {"BUSY"}) \cup Errors
        /\ UNCHANGED <<hd0, chip>>
  /\ UNCHANGED <<threadVars, I2C_Transfer, event, slave, hcmd, handlerVars, disturbed>>

(* The interrupt is masked from here to the end of the handler. *)
InterruptFilter ==
  /\ handler = "off"
  /\ "BUSY" \notin hs /\ hs # {}
  /\ fSt' = hs
  /\ handler' = "acknowledge"
  /\ UNCHANGED <<threadVars, I2C_Transfer, event, hostVars, disturbed>>

(* Writing ones to the status clears them. *)
Acknowledge ==
  /\ handler = "acknowledge"
  /\ hs' = hs \ fSt
  /\ IF I2C_Transfer.op = "None"
     THEN handler' = "off" /\ fSt' = {}
     ELSE handler' = "fetch" /\ UNCHANGED fSt
  /\ UNCHANGED <<threadVars, I2C_Transfer, event, slave, hcmd, hd0, chip, disturbed>>

Fetch ==
  /\ handler = "fetch"
  /\ IF fSt \cap Errors # {}
     THEN I2C_Transfer' = [I2C_Transfer EXCEPT !.error = TRUE] /\ UNCHANGED buffer
     ELSE /\ buffer' = IF I2C_Transfer.op = "Read"
                       THEN [buffer EXCEPT ![I2C_Transfer.buffer] = hd0] ELSE buffer
          /\ UNCHANGED I2C_Transfer
  /\ handler' = "signal"
  /\ UNCHANGED <<busLock, step, op, reg, outcome, event, hostVars, fSt, disturbed>>

(* IOLockWakeup wakes one thread. *)
Signal ==
  /\ handler = "signal"
  /\ event' = TRUE
  /\ \/ \E t \in Threads : step[t] = "asleep" /\ Goto(t, "woken")
     \/ (\A t \in Threads : step[t] # "asleep") /\ UNCHANGED step
  /\ handler' = "off" /\ fSt' = {}
  /\ UNCHANGED <<busLock, op, reg, buffer, outcome, I2C_Transfer, hostVars, disturbed>>

InterruptHandler == Acknowledge \/ Fetch \/ Signal
--------------------------------------------------------------------------------
Next ==
  \/ \E t \in Threads : Begin(t) \/ LockI2CBus(t) \/ UnlockI2CBus(t) \/ Exec(t) \/ I2CExec(t)
  \/ Transfer \/ InterruptFilter \/ InterruptHandler

Spec == Init /\ [][Next]_vars

(* A thread in I2CExec runs on, its sleep ends after the deadline at the   *)
(* latest, the lock of the bus serves all who wait for it, and who has it  *)
(* makes finitely many transfers.  The controller may hang.                *)
Fairness ==
  \A t \in Threads : /\ WF_vars(I2CExec(t))
                     /\ SF_vars(LockI2CBus(t) \/ UnlockI2CBus(t))

FairSpec == Spec /\ Fairness
--------------------------------------------------------------------------------
TypeOK ==
  /\ busLock \in Threads \cup {NoThread}
  /\ step \in [Threads -> Steps]
  /\ op \in [Threads -> {"None", "Read", "Write"}]
  /\ reg \in [Threads -> Registers \cup {Undefined}]
  /\ buffer \in [Threads -> Registers \cup {Undefined}]
  /\ outcome \in [Threads -> {"None", "success", "failure"}]
  /\ I2C_Transfer \in [op : {"None", "Read", "Write"}, error : BOOLEAN,
                       buffer : Threads \cup {NoThread}]
  /\ event \in BOOLEAN
  /\ hs \subseteq Errors \cup {"BUSY", "INTR"}
  /\ slave \in {"Read", "Write"}
  /\ hcmd \in Registers \cup {Undefined} /\ hd0 \in Registers \cup {Undefined}
  /\ chip \in [Registers -> Registers \cup {Undefined}]
  /\ handler \in {"off", "acknowledge", "fetch", "signal"}
  /\ fSt \subseteq Errors \cup {"INTR"}
  /\ disturbed \in BOOLEAN

(* Threads that lock the bus never change the controller's registers while *)
(* it uses them, even if one has left its transfer behind: a byte only     *)
(* gets into the register of the chip that it was meant for.               *)
ChipIntact == \A r \in Registers : chip[r] = r

(* As long as every caller has waited for its interrupt, a read that       *)
(* reports success has brought the register that was asked for.            *)
Answered(t) ==
  step[t] = "ready" /\ outcome[t] = "success" /\ op[t] = "Read" => buffer[t] = reg[t]

ReadsAnswered == ~disturbed => \A t \in Threads : Answered(t)

(* "store original conf" (Andigilog.cpp:233): what GetConf stores for a    *)
(* PWM is what it has read from the register of that PWM.  Without the     *)
(* lock it may be a byte that a callback has asked for.                    *)
OriginalConfStored == ~disturbed => \A t \in Unlocked : Answered(t)

(* "Don't block forever" (ICHSMBus.cpp:257): whether the controller        *)
(* answers or hangs, who asks for the bus gets it, and every call returns. *)
CallsReturn == \A t \in Threads : step[t] \in {"lock", "poll"} ~> step[t] = "ready"
================================================================================
