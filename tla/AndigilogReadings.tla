--------------------------- MODULE AndigilogReadings ---------------------------
(***************************************************************************)
(* The sensor readings of Andigilog.  A key whose reading is used up makes *)
(* updateSensors read all sensors under the lock of the bus; a reading     *)
(* serves one call of the key's callback, which encodes the speed of a fan *)
(* in place.  Clients come through kFakeSMCGetKeyValue, one at a time; a   *)
(* READ over the emulated ports calls the callback without that lock.      *)
(***************************************************************************)
EXTENDS Encodings, DeviceLock

CONSTANTS Sensors,     \* the sensors with a key
          Tachometers, \* those of them that are fans with a key of type fpe2
          Ports,       \* threads that read keys over the ports
          Raw          \* what the chip can measure, 0 among it

Readers == Clients \cup Ports

ASSUME ReadingAssumption ==
  /\ Tachometers \subseteq Sensors
  /\ \A v \in Raw : v \in Nat /\ v < 16384
  /\ 0 \in Raw
  /\ Free \notin Readers \cup Sensors

VARIABLES
  measure,       \* Measures[].value
  obsoleted,     \* Measures[].obsoleted
  todo,          \* updateSensors: the sensors that it still has to read
  readStep,      \* where in the callback each reader is
  wanted,        \* the sensor that it reads, Free: none
  bus,           \* who has called LockI2CBus
  portsUsed,     \* whether this machine's ports are read
  sampled        \* history: the last value the chip gave for each sensor

measureVars == <<measure, obsoleted, todo, readStep, wanted, bus, portsUsed, sampled>>
readingVars == <<measureVars, deviceLock>>

ReadSteps == {"idle", "test", "lock", "update", "transfer", "unlock", "mark", "encode", "copy"}

Enter(r, s) == readStep' = [readStep EXCEPT ![r] = s]

In(r, s) == readStep[r] = s
--------------------------------------------------------------------------------
(* The table that start copies has all readings used up. *)
ReadingInit ==
  /\ measure = [s \in Sensors |-> 0] /\ obsoleted = [s \in Sensors |-> TRUE]
  /\ todo = {}
  /\ readStep = [r \in Readers |-> "idle"]
  /\ wanted = [r \in Readers |-> Free]
  /\ deviceLock = Free /\ bus = Free
  /\ portsUsed \in BOOLEAN
  /\ sampled = measure

CallSensor(r) ==
  /\ In(r, "idle")
  /\ IF r \in Clients THEN LockDevice(r) ELSE portsUsed /\ UNCHANGED deviceLock
  /\ \E s \in Sensors : wanted' = [wanted EXCEPT ![r] = s]
  /\ Enter(r, "test")
  /\ UNCHANGED <<measure, obsoleted, todo, bus, portsUsed, sampled>>

(* readSensor: an obsolete reading makes updateSensors run; ... *)
TestObsoleted(r) ==
  /\ In(r, "test")
  /\ Enter(r, IF obsoleted[wanted[r]] THEN "lock" ELSE "mark")
  /\ UNCHANGED <<measure, obsoleted, todo, wanted, deviceLock, bus, portsUsed, sampled>>

LockSensorBus(r) ==
  /\ In(r, "lock") /\ bus = Free
  /\ bus' = r /\ todo' = Sensors
  /\ Enter(r, "update")
  /\ UNCHANGED <<measure, obsoleted, wanted, deviceLock, portsUsed, sampled>>

(* updateSensors goes through its table: a reading counts as new before    *)
(* the transfer that brings it, ...                                        *)
Current == CHOOSE s \in todo : TRUE

RenewReading(r) ==
  /\ In(r, "update")
  /\ obsoleted' = [obsoleted EXCEPT ![Current] = FALSE]
  /\ Enter(r, "transfer")
  /\ UNCHANGED <<measure, todo, wanted, deviceLock, bus, portsUsed, sampled>>

(* ... which gives 0 when it fails or the sensor has no value. *)
TransferReading(r) ==
  /\ In(r, "transfer")
  /\ todo' = todo \ {Current}
  /\ \E v \in Raw :
       /\ measure' = [measure EXCEPT ![Current] = v]
       /\ sampled' = [sampled EXCEPT ![Current] = v]
  /\ Enter(r, IF todo' = {} THEN "unlock" ELSE "update")
  /\ UNCHANGED <<obsoleted, wanted, deviceLock, bus, portsUsed>>

UnlockSensorBus(r) ==
  /\ In(r, "unlock")
  /\ bus' = Free
  /\ Enter(r, "mark")
  /\ UNCHANGED <<measure, obsoleted, todo, wanted, deviceLock, portsUsed, sampled>>

(* Mutant of MarkObsoleted: the reading can be used again. *)
MarkNothing(r) ==
  /\ In(r, "mark")
  /\ Enter(r, IF wanted[r] \in Tachometers THEN "encode" ELSE "copy")
  /\ UNCHANGED <<measure, obsoleted, todo, wanted, deviceLock, bus, portsUsed, sampled>>

(* ... the reading is used up. *)
MarkObsoleted(r) ==
  /\ In(r, "mark")
  /\ obsoleted' = [obsoleted EXCEPT ![wanted[r]] = TRUE]
  /\ Enter(r, IF wanted[r] \in Tachometers THEN "encode" ELSE "copy")
  /\ UNCHANGED <<measure, todo, wanted, deviceLock, bus, portsUsed, sampled>>

EncodeInPlace(r) ==
  /\ In(r, "encode")
  /\ measure' = [measure EXCEPT ![wanted[r]] = encode_fpe2(@)]
  /\ Enter(r, "copy")
  /\ UNCHANGED <<obsoleted, todo, wanted, deviceLock, bus, portsUsed, sampled>>

CopyMeasure(r) ==
  /\ In(r, "copy")
  /\ wanted' = [wanted EXCEPT ![r] = Free]
  /\ IF r \in Clients THEN UnlockDevice ELSE UNCHANGED deviceLock
  /\ Enter(r, "idle")
  /\ UNCHANGED <<measure, obsoleted, todo, bus, portsUsed, sampled>>
--------------------------------------------------------------------------------
ReadKey(r) ==
  \/ CallSensor(r) \/ TestObsoleted(r) \/ LockSensorBus(r) \/ RenewReading(r)
  \/ TransferReading(r) \/ UnlockSensorBus(r) \/ MarkObsoleted(r) \/ EncodeInPlace(r) \/ CopyMeasure(r)

ReadingNext == \E r \in Readers : ReadKey(r)

ReadingSpec == ReadingInit /\ [][ReadingNext]_readingVars
--------------------------------------------------------------------------------
ReadingTypeOK ==
  /\ measure \in [Sensors -> Word] /\ obsoleted \in [Sensors -> BOOLEAN]
  /\ todo \subseteq Sensors
  /\ readStep \in [Readers -> ReadSteps] /\ wanted \in [Readers -> Sensors \cup {Free}]
  /\ bus \in Readers \cup {Free}
  /\ portsUsed \in BOOLEAN /\ sampled \in [Sensors -> Raw]

(* While nobody reads over the ports, what a client is about to get is the *)
(* last value that the chip gave, encoded once if it is a speed: a reading *)
(* from the cache is never encoded again.                                  *)
EncodedOnce ==
  ~portsUsed =>
    \A r \in Clients : In(r, "copy") =>
      measure[wanted[r]] = IF wanted[r] \in Tachometers THEN encode_fpe2(sampled[wanted[r]])
                           ELSE sampled[wanted[r]]

(* And each value that the chip gave serves one call: a reading that is    *)
(* not obsolete is as the chip gave it, once its transfer is over.         *)
CacheIsRaw ==
  ~portsUsed =>
    \A s \in Sensors :
      ~obsoleted[s] /\ (\A r \in Readers : In(r, "transfer") => s # Current)
        => measure[s] = sampled[s]
================================================================================
