---------------------------- MODULE SuperIOSensors ----------------------------
(***************************************************************************)
(* The list of sensors of a SuperIOMonitor.  startPlugin appends to it     *)
(* while readings of the keys that it has already registered look through  *)
(* it in getSensor.  The iterator of a list that has changed comes to its  *)
(* end at once, and the reading fails.  addTachometer holds the storage    *)
(* lock, addSensor alone does not; of the readings, those over the         *)
(* emulated ports do not hold it.                                          *)
(***************************************************************************)
EXTENDS DeviceLock, Integers, Sequences

CONSTANTS Plan,           \* what startPlugin adds: sequence of names
          TachometerKeys, \* those of them that addTachometer adds
          PortReaders     \* threads that read keys over the ports

SensorReaders == Clients \cup PortReaders

Adder == "SuperIOMonitor"

PlanNames == {Plan[i] : i \in 1..Len(Plan)}

ASSUME SensorsAssumption ==
  /\ Plan \in Seq(PlanNames)
  /\ Free \notin PlanNames \cup {Adder} /\ Clients \cap (PortReaders \cup {Free, Adder}) = {}

VARIABLES
  sensors,       \* the list, which counts as changed when it grows or shrinks
  next, addStep, \* startPlugin: the next sensor of the Plan, and how far it is
  handled,       \* the keys that FakeSMCDevice has this plug-in for
  looking,       \* getSensor of each reader
  superIOStopped,
  changedAmid    \* history: addSensor alone changed the list, or stop was
                 \* called, while the reader was looking

listVars == <<sensors, next, addStep, handled, looking, superIOStopped, changedAmid>>
sensorVars == <<listVars, deviceLock>>

NotLooking == [name |-> Free, at |-> 0, size |-> 0, result |-> "none"]

Name == Plan[next]
--------------------------------------------------------------------------------
SensorsInit ==
  /\ sensors = <<>> /\ next = 1 /\ addStep = "lookup" /\ handled = {}
  /\ looking = [r \in SensorReaders |-> NotLooking]
  /\ superIOStopped = FALSE /\ changedAmid = {} /\ deviceLock = Free

Adding(step) ==
  /\ ~superIOStopped /\ next <= Len(Plan) /\ addStep = step
  /\ UNCHANGED <<looking, superIOStopped>>

NextSensor == next' = next + 1 /\ addStep' = "lookup"

(* getSensor: a name that is in the list is not added again. *)
NewName == \A i \in 1..Len(sensors) : sensors[i] # Name

LockTachometer ==
  IF Name \in TachometerKeys THEN LockDevice(Adder) ELSE UNCHANGED deviceLock

UnlockTachometer ==
  IF deviceLock = Adder THEN UnlockDevice ELSE UNCHANGED deviceLock

LookUpName ==
  /\ Adding("lookup")
  /\ \/ ~NewName /\ NextSensor /\ UNCHANGED deviceLock
     \/ /\ NewName
        /\ LockTachometer
        /\ addStep' = "list" /\ UNCHANGED next
  /\ UNCHANGED <<sensors, handled, changedAmid>>

(* Mutant of FirstListed: the key is registered before the sensor is in    *)
(* the list.                                                               *)
FirstHandled(step) == IF step = "list" THEN "handler" ELSE "list"

FirstListed(step) == step

ListSensor ==
  /\ addStep \in {"list", "handler"} /\ Adding(addStep) /\ FirstListed(addStep) = "list"
  /\ sensors' = Append(sensors, Name)
  /\ changedAmid' = IF Name \in TachometerKeys THEN changedAmid
                   ELSE changedAmid \cup {r \in SensorReaders : looking[r].name # Free}
  /\ IF addStep = "list" THEN addStep' = "handler" /\ UNCHANGED <<next, deviceLock>>
     ELSE NextSensor /\ UnlockTachometer
  /\ UNCHANGED handled

(* kFakeSMCAddKeyHandler; it takes the lock. *)
HandleKey ==
  /\ addStep \in {"list", "handler"} /\ Adding(addStep) /\ FirstListed(addStep) = "handler"
  /\ deviceLock \in {Free, Adder}
  /\ handled' = handled \cup {Name}
  /\ IF addStep = "list" THEN addStep' = "handler" /\ UNCHANGED <<next, deviceLock>>
     ELSE NextSensor /\ UnlockTachometer
  /\ UNCHANGED <<sensors, changedAmid>>

(* The value callback for a key, up to the iterator over the list. *)
BeginLooking(r) ==
  /\ looking[r].name = Free
  /\ IF r \in Clients THEN LockDevice(r) ELSE UNCHANGED deviceLock
  /\ \E k \in handled :
       looking' = [looking EXCEPT ![r] = [NotLooking EXCEPT !.name = k, !.size = Len(sensors)]]
  /\ changedAmid' = changedAmid \ {r}
  /\ UNCHANGED <<sensors, next, addStep, handled, superIOStopped>>

LookAtNext(r) ==
  /\ looking[r].name # Free /\ looking[r].result = "none"
  /\ LET at == looking[r].at + 1
         over == Len(sensors) # looking[r].size \/ at > Len(sensors)
     IN looking' = [looking EXCEPT ![r] =
          [@ EXCEPT !.at = at, !.result = IF over THEN "failed"
                                          ELSE IF sensors[at] = looking[r].name THEN "found" ELSE "none"]]
  /\ UNCHANGED <<sensors, next, addStep, handled, superIOStopped, changedAmid, deviceLock>>

ReturnSensorValue(r) ==
  /\ looking[r].result # "none"
  /\ looking' = [looking EXCEPT ![r] = NotLooking]
  /\ IF r \in Clients THEN UnlockDevice ELSE UNCHANGED deviceLock
  /\ changedAmid' = changedAmid \ {r}
  /\ UNCHANGED <<sensors, next, addStep, handled, superIOStopped>>

(* stop, after the start has ended.  kFakeSMCRemoveHandler has no effect,  *)
(* so that the keys stay with this plug-in.                                *)
StopSuperIO ==
  /\ ~superIOStopped /\ next > Len(Plan)
  /\ superIOStopped' = TRUE
  /\ sensors' = <<>>
  /\ changedAmid' = SensorReaders
  /\ UNCHANGED <<next, addStep, handled, looking, deviceLock>>
--------------------------------------------------------------------------------
SensorsNext ==
  \/ LookUpName \/ ListSensor \/ HandleKey \/ StopSuperIO
  \/ \E r \in SensorReaders : BeginLooking(r) \/ LookAtNext(r) \/ ReturnSensorValue(r)

SensorsSpec == SensorsInit /\ [][SensorsNext]_sensorVars
--------------------------------------------------------------------------------
(* No key is in the list twice. *)
SensorsTypeOK ==
  /\ sensors \in Seq(PlanNames)
  /\ \A i, j \in 1..Len(sensors) : sensors[i] = sensors[j] => i = j
  /\ next \in 1 .. Len(Plan) + 1 /\ addStep \in {"lookup", "list", "handler"}
  /\ \A r \in SensorReaders : looking[r].at \in 0 .. Len(Plan) + 1
  /\ changedAmid \subseteq SensorReaders /\ deviceLock \in Clients \cup {Adder, Free}

(* A key for which FakeSMCDevice calls this plug-in is in the list, so     *)
(* that a reading at once after the registration finds it.                 *)
HandledKeysListed ==
  ~superIOStopped => \A k \in handled : \E i \in 1..Len(sensors) : sensors[i] = k

(* A reading that holds the lock finds its sensor, unless a sensor that is *)
(* no tachometer was added, or the plug-in stopped, while it was looking.  *)
LockedReadingsFind ==
  \A c \in Clients : looking[c].result = "failed" /\ ~superIOStopped => c \in changedAmid

(* What a client can rely on: both. *)
ReadingsFind == HandledKeysListed /\ LockedReadingsFind
================================================================================
