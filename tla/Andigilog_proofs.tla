---------------------------- MODULE Andigilog_proofs ----------------------------
(***************************************************************************)
(* Proofs about Andigilog: the encodings of its readings, the readings for *)
(* every set of sensors and readers, and its fan control for any number of *)
(* fans and PWMs.                                                          *)
(***************************************************************************)
EXTENDS AndigilogReadings, AndigilogPwm, TLAPS

LEMMA SwapBytes ==
  ASSUME NEW hi \in Nat, NEW lo \in Nat, hi < 256, lo < 256
  PROVE  swap_value(256 * hi + lo) = 256 * lo + hi
<1>1. (256 * hi + lo) % 256 = lo
  OBVIOUS
<1>2. (256 * hi + lo) \div 256 = hi
  OBVIOUS
<1>. QED BY <1>1, <1>2 DEF swap_value

(* Exchanging the bytes twice gives the word back. *)
LEMMA SwapTwice ==
  ASSUME NEW v \in Nat, v < 65536
  PROVE  swap_value(swap_value(v)) = v
<1>. DEFINE hi == v \div 256
            lo == v % 256
<1>1. hi \in Nat /\ lo \in Nat
  OBVIOUS
<1>2. hi < 256
  OBVIOUS
<1>3. lo < 256
  OBVIOUS
<1>4. v = 256 * hi + lo
  OBVIOUS
<1>. HIDE DEF hi, lo
<1>5. swap_value(256 * hi + lo) = 256 * lo + hi
  BY <1>1, <1>2, <1>3, SwapBytes
<1>6. swap_value(256 * lo + hi) = 256 * hi + lo
  BY <1>1, <1>2, <1>3, SwapBytes
<1>. QED BY <1>4, <1>5, <1>6

LEMMA FitsWord ==
  ASSUME NEW v \in Nat, v < 65536
  PROVE  v % 65536 = v
  OBVIOUS

(* A fan speed below 16384 comes back from its key as it went in; a speed  *)
(* that is encoded twice does not, see AndigilogReadings.                  *)
THEOREM SpeedComesBack ==
  ASSUME NEW v \in Nat, v < 16384
  PROVE  decode_fpe2(encode_fpe2(v)) = v
<1>. DEFINE w == v * 4
<1>1. w \in Nat /\ w < 65536
  OBVIOUS
<1>2. w \div 4 = v
  OBVIOUS
<1>. HIDE DEF w
<1>3. w % 65536 = w
  BY <1>1, FitsWord
<1>4. encode_fpe2(v) = swap_value(w)
  BY <1>3 DEF encode_fpe2, w
<1>5. swap_value(swap_value(w)) = w
  BY <1>1, SwapTwice
<1>. QED BY <1>2, <1>4, <1>5 DEF decode_fpe2

(* A voltage below 4 V, in millivolts, loses less than one of them in fp2e: *)
(* what is read from the key, scaled back and rounded up, is what went in.  *)
THEOREM VoltageComesBack ==
  ASSUME NEW v \in Nat, v < 4000
  PROVE  (swap_value(encode_fp2e(v)) * 1000 + 16383) \div 16384 = v
<1>. DEFINE w == (v * 16384) \div 1000
<1>1. w \in Nat
  OBVIOUS
<1>2. w * 1000 <= v * 16384 /\ v * 16384 < w * 1000 + 1000
  OBVIOUS
<1>. HIDE DEF w
<1>3. w < 65536
  BY <1>1, <1>2
<1>4. encode_fp2e(v) = swap_value(w)
  BY <1>1, <1>3, FitsWord DEF encode_fp2e, w
<1>5. swap_value(encode_fp2e(v)) = w
  BY <1>1, <1>3, <1>4, SwapTwice
<1>6. (w * 1000 + 16383) \div 16384 = v
  BY <1>1, <1>2
<1>. QED BY <1>5, <1>6
--------------------------------------------------------------------------------
BusSteps == {"update", "transfer", "unlock"}

(* Who is inside updateSensors has the bus, and a sensor left to read.     *)
BusInv ==
  /\ \A r \in Readers : readStep[r] \in BusSteps <=> bus = r
  /\ \A r \in Readers : readStep[r] \in {"update", "transfer"} => todo # {}
  /\ \A r \in Readers : readStep[r] = "unlock" => todo = {}
  /\ \A r \in Readers : readStep[r] # "idle" => wanted[r] \in Sensors

TypeInv == ReadingTypeOK /\ BusInv

(* Without ports, whoever is in a callback is the client with the lock.    *)
LockInv ==
  ~portsUsed => \A r \in Readers : readStep[r] # "idle" => r \in Clients /\ deviceLock = r

(* What each step knows of the measured values, without ports.             *)
Fresh(s) == measure[s] = sampled[s]

Encoded(s) == measure[s] = IF s \in Tachometers THEN encode_fpe2(sampled[s]) ELSE sampled[s]

StepInv ==
  ~portsUsed => \A r \in Readers :
    /\ readStep[r] \in BusSteps => \A s \in Sensors \ todo : Fresh(s)
    /\ readStep[r] \in {"mark", "encode"} => Fresh(wanted[r])
    /\ readStep[r] = "encode" => obsoleted[wanted[r]] /\ wanted[r] \in Tachometers
    /\ readStep[r] = "copy" => Encoded(wanted[r])

ReadingInv == TypeInv /\ LockInv /\ StepInv /\ CacheIsRaw

LEMMA EncodedWord ==
  ASSUME NEW v \in Word
  PROVE  encode_fpe2(v) \in Word
<1>. DEFINE x == v * 4
            w == x % 65536
            hi == w \div 256
            lo == w % 256
<1>1. v \in Nat
  BY DEF Word
<1>2. x \in Nat
  BY <1>1
<1>. HIDE DEF x
<1>3. w \in Nat /\ w < 65536
  BY <1>2
<1>4. encode_fpe2(v) = lo * 256 + hi
  BY DEF encode_fpe2, swap_value, w, x
<1>. HIDE DEF w
<1>5. hi \in Nat /\ hi < 256 /\ lo \in Nat /\ lo < 256
  BY <1>3
<1>. HIDE DEF hi, lo
<1>. DEFINE e == lo * 256 + hi
<1>6. e \in Nat /\ e < 65536
  BY <1>5
<1>. HIDE DEF e
<1>7. e \in Word
  BY <1>6 DEF Word
<1>. QED BY <1>4, <1>7 DEF e

LEMMA RawWord == \A v \in Raw : v \in Word
  BY ReadingAssumption DEF Word

LEMMA CurrentLeft == todo # {} => Current \in todo
  BY DEF Current

(* A step of the reader r from one place to another.                       *)
LEMMA Entered ==
  ASSUME TypeInv, NEW r \in Readers, NEW s \in ReadSteps, Enter(r, s)
  PROVE  /\ readStep' \in [Readers -> ReadSteps] /\ readStep'[r] = s
         /\ \A q \in Readers : q # r => readStep'[q] = readStep[q]
  BY DEF TypeInv, ReadingTypeOK, Enter

LEMMA ReadingInitRight == ReadingInit => ReadingInv
<1>. SUFFICES ASSUME ReadingInit PROVE ReadingInv
  OBVIOUS
<1>. USE ReadingAssumption DEF ReadingInit
<1>1. ReadingTypeOK
  <2>1. measure \in [Sensors -> Word] /\ sampled \in [Sensors -> Raw]
    BY RawWord
  <2>. QED BY <2>1 DEF ReadingTypeOK, ReadSteps
<1>2. BusInv
  BY DEF BusInv, BusSteps
<1>3. LockInv /\ StepInv
  BY DEF LockInv, StepInv, BusSteps
<1>4. CacheIsRaw
  BY DEF CacheIsRaw
<1>. QED BY <1>1, <1>2, <1>3, <1>4 DEF ReadingInv, TypeInv

(* The parts of a step of r that every action shares.                      *)
LEMMA NobodyElse ==
  ASSUME ReadingInv, ~portsUsed, NEW r \in Readers, readStep[r] # "idle"
  PROVE  /\ r \in Clients /\ deviceLock = r
         /\ \A q \in Readers : q # r => readStep[q] = "idle"
  BY DEF ReadingInv, LockInv

LEMMA CallRight ==
  ASSUME ReadingInv, NEW r \in Readers, CallSensor(r) PROVE ReadingInv'
<1>1. PICK s \in Sensors : wanted' = [wanted EXCEPT ![r] = s]
  BY DEF CallSensor
<1>. USE ReadingAssumption
<1>2. /\ readStep[r] = "idle" /\ readStep' \in [Readers -> ReadSteps] /\ readStep'[r] = "test"
      /\ \A q \in Readers : q # r => readStep'[q] = readStep[q]
      /\ UNCHANGED <<measure, obsoleted, todo, bus, portsUsed, sampled>>
  BY Entered DEF CallSensor, ReadSteps, ReadingInv, In
<1>3. /\ wanted' \in [Readers -> Sensors \cup {Free}] /\ wanted'[r] \in Sensors
      /\ \A q \in Readers : q # r => wanted'[q] = wanted[q]
  BY <1>1 DEF ReadingInv, TypeInv, ReadingTypeOK
<1>4. TypeInv'
  <2>1. ReadingTypeOK'
    BY <1>2, <1>3 DEF ReadingInv, TypeInv, ReadingTypeOK
  <2>2. BusInv'
    BY <1>2, <1>3 DEF ReadingInv, TypeInv, BusInv, BusSteps
  <2>. QED BY <2>1, <2>2 DEF TypeInv
<1>5. ~portsUsed => r \in Clients /\ deviceLock = Free /\ deviceLock' = r
  BY DEF CallSensor, LockDevice
<1>6. ~portsUsed => \A q \in Readers : readStep[q] = "idle"
  BY <1>5 DEF ReadingInv, LockInv
<1>7. LockInv'
  BY <1>2, <1>5, <1>6 DEF LockInv
<1>8. StepInv'
  BY <1>2, <1>6 DEF StepInv, BusSteps
<1>9. CacheIsRaw'
  BY <1>2, <1>6 DEF ReadingInv, CacheIsRaw, In, Current
<1>. QED BY <1>4, <1>7, <1>8, <1>9 DEF ReadingInv

LEMMA TestRight ==
  ASSUME ReadingInv, NEW r \in Readers, TestObsoleted(r) PROVE ReadingInv'
<1>. USE ReadingAssumption
<1>. DEFINE s == IF obsoleted[wanted[r]] THEN "lock" ELSE "mark"
<1>1. /\ readStep[r] = "test" /\ readStep' \in [Readers -> ReadSteps] /\ readStep'[r] = s
      /\ \A q \in Readers : q # r => readStep'[q] = readStep[q]
      /\ UNCHANGED <<measure, obsoleted, todo, wanted, deviceLock, bus, portsUsed, sampled>>
  BY Entered DEF TestObsoleted, ReadSteps, ReadingInv, In
<1>2. wanted[r] \in Sensors
  BY <1>1 DEF ReadingInv, TypeInv, BusInv
<1>3. TypeInv'
  <2>1. ReadingTypeOK'
    BY <1>1 DEF ReadingInv, TypeInv, ReadingTypeOK
  <2>2. BusInv'
    BY <1>1 DEF ReadingInv, TypeInv, BusInv, BusSteps
  <2>. QED BY <2>1, <2>2 DEF TypeInv
<1>4. ASSUME ~portsUsed
      PROVE /\ r \in Clients /\ deviceLock = r
            /\ \A q \in Readers : q # r => readStep[q] = "idle"
  BY <1>1, <1>4, NobodyElse
<1>5. LockInv'
  BY <1>1, <1>4 DEF LockInv
<1>6. ~portsUsed /\ ~obsoleted[wanted[r]] => Fresh(wanted[r])
  BY <1>1, <1>2, <1>4 DEF ReadingInv, CacheIsRaw, In, Fresh
<1>7. StepInv'
  BY <1>1, <1>4, <1>6 DEF StepInv, BusSteps, Fresh
<1>8. CacheIsRaw'
  BY <1>1, <1>4 DEF ReadingInv, CacheIsRaw, In, Current
<1>. QED BY <1>3, <1>5, <1>7, <1>8 DEF ReadingInv

LEMMA LockRight ==
  ASSUME ReadingInv, NEW r \in Readers, LockSensorBus(r) PROVE ReadingInv'
<1>. USE ReadingAssumption
<1>1. /\ readStep[r] = "lock" /\ readStep' \in [Readers -> ReadSteps] /\ readStep'[r] = "update"
      /\ \A q \in Readers : q # r => readStep'[q] = readStep[q]
      /\ bus = Free /\ bus' = r /\ todo' = Sensors
      /\ UNCHANGED <<measure, obsoleted, wanted, deviceLock, portsUsed, sampled>>
  BY Entered DEF LockSensorBus, ReadSteps, ReadingInv, In
<1>2. wanted[r] \in Sensors
  BY <1>1 DEF ReadingInv, TypeInv, BusInv
<1>3. \A q \in Readers : readStep[q] \notin BusSteps
  BY <1>1 DEF ReadingInv, TypeInv, BusInv
<1>4. TypeInv'
  <2>1. ReadingTypeOK'
    BY <1>1 DEF ReadingInv, TypeInv, ReadingTypeOK
  <2>2. BusInv'
    BY <1>1, <1>2, <1>3 DEF ReadingInv, TypeInv, BusInv, BusSteps
  <2>. QED BY <2>1, <2>2 DEF TypeInv
<1>5. ASSUME ~portsUsed
      PROVE /\ r \in Clients /\ deviceLock = r
            /\ \A q \in Readers : q # r => readStep[q] = "idle"
  BY <1>1, <1>5, NobodyElse
<1>6. LockInv'
  BY <1>1, <1>5 DEF LockInv
<1>7. StepInv'
  BY <1>1, <1>5 DEF StepInv, BusSteps
<1>8. CacheIsRaw'
  BY <1>1, <1>3, <1>5 DEF ReadingInv, CacheIsRaw, In, BusSteps
<1>. QED BY <1>4, <1>6, <1>7, <1>8 DEF ReadingInv

LEMMA RenewRight ==
  ASSUME ReadingInv, NEW r \in Readers, RenewReading(r) PROVE ReadingInv'
<1>. USE ReadingAssumption
<1>1. /\ readStep[r] = "update" /\ readStep' \in [Readers -> ReadSteps] /\ readStep'[r] = "transfer"
      /\ \A q \in Readers : q # r => readStep'[q] = readStep[q]
      /\ obsoleted' = [obsoleted EXCEPT ![Current] = FALSE]
      /\ UNCHANGED <<measure, todo, wanted, deviceLock, bus, portsUsed, sampled>>
  BY Entered DEF RenewReading, ReadSteps, ReadingInv, In
<1>2. wanted[r] \in Sensors /\ todo # {} /\ bus = r
  BY <1>1 DEF ReadingInv, TypeInv, BusInv, BusSteps
<1>3. Current' = Current /\ Current \in todo /\ Current \in Sensors
  BY <1>1, <1>2, CurrentLeft DEF Current, ReadingInv, TypeInv, ReadingTypeOK
<1>4. /\ obsoleted' \in [Sensors -> BOOLEAN]
      /\ \A s \in Sensors : s # Current => obsoleted'[s] = obsoleted[s]
  BY <1>1, <1>3 DEF ReadingInv, TypeInv, ReadingTypeOK
<1>5. TypeInv'
  <2>1. ReadingTypeOK'
    BY <1>1, <1>4 DEF ReadingInv, TypeInv, ReadingTypeOK
  <2>2. BusInv'
    BY <1>1, <1>2 DEF ReadingInv, TypeInv, BusInv, BusSteps
  <2>. QED BY <2>1, <2>2 DEF TypeInv
<1>6. ASSUME ~portsUsed
      PROVE /\ r \in Clients /\ deviceLock = r
            /\ \A q \in Readers : q # r => readStep[q] = "idle"
  BY <1>1, <1>6, NobodyElse
<1>7. LockInv'
  BY <1>1, <1>6 DEF LockInv
<1>8. StepInv'
  BY <1>1, <1>6 DEF ReadingInv, StepInv, BusSteps, Fresh
<1>9. CacheIsRaw'
  BY <1>1, <1>3, <1>4, <1>6 DEF ReadingInv, CacheIsRaw, In
<1>. QED BY <1>5, <1>7, <1>8, <1>9 DEF ReadingInv

LEMMA TransferRight ==
  ASSUME ReadingInv, NEW r \in Readers, TransferReading(r) PROVE ReadingInv'
<1>2. PICK v \in Raw : measure' = [measure EXCEPT ![Current] = v] /\ sampled' = [sampled EXCEPT ![Current] = v]
  BY DEF TransferReading
<1>. USE ReadingAssumption
<1>. DEFINE s == IF todo' = {} THEN "unlock" ELSE "update"
<1>1. /\ readStep[r] = "transfer" /\ readStep' \in [Readers -> ReadSteps] /\ readStep'[r] = s
      /\ \A q \in Readers : q # r => readStep'[q] = readStep[q]
      /\ todo' = todo \ {Current}
      /\ UNCHANGED <<obsoleted, wanted, deviceLock, bus, portsUsed>>
  BY Entered DEF TransferReading, ReadSteps, ReadingInv, In
<1>3. wanted[r] \in Sensors /\ todo # {} /\ bus = r
  BY <1>1 DEF ReadingInv, TypeInv, BusInv, BusSteps
<1>4. Current \in todo /\ Current \in Sensors
  BY <1>3, CurrentLeft DEF ReadingInv, TypeInv, ReadingTypeOK
<1>5. /\ measure' \in [Sensors -> Word] /\ sampled' \in [Sensors -> Raw]
      /\ measure'[Current] = v /\ sampled'[Current] = v
      /\ \A q \in Sensors : q # Current => measure'[q] = measure[q] /\ sampled'[q] = sampled[q]
  BY <1>2, <1>4, RawWord DEF ReadingInv, TypeInv, ReadingTypeOK
<1>6. TypeInv'
  <2>1. ReadingTypeOK'
    BY <1>1, <1>5 DEF ReadingInv, TypeInv, ReadingTypeOK
  <2>2. \A q \in Readers : q # r => readStep[q] \notin BusSteps
    BY <1>3 DEF ReadingInv, TypeInv, BusInv
  <2>3. BusInv'
    BY <1>1, <1>3, <2>2 DEF ReadingInv, TypeInv, BusInv, BusSteps
  <2>. QED BY <2>1, <2>3 DEF TypeInv
<1>7. ASSUME ~portsUsed
      PROVE /\ r \in Clients /\ deviceLock = r
            /\ \A q \in Readers : q # r => readStep[q] = "idle"
  BY <1>1, <1>7, NobodyElse
<1>8. LockInv'
  BY <1>1, <1>7 DEF LockInv
<1>9. ~portsUsed => \A q \in Sensors \ todo' : Fresh(q)'
  BY <1>1, <1>4, <1>5 DEF ReadingInv, StepInv, BusSteps, Fresh
<1>10. StepInv'
  BY <1>1, <1>7, <1>9 DEF StepInv, BusSteps, Fresh
<1>11. CacheIsRaw'
  <2>. SUFFICES ASSUME ~portsUsed', NEW q \in Sensors, ~obsoleted'[q] PROVE measure'[q] = sampled'[q]
    BY DEF CacheIsRaw
  <2>1. CASE q = Current
    BY <1>5, <2>1
  <2>2. CASE q # Current
    BY <1>1, <1>5, <1>7, <2>2 DEF ReadingInv, CacheIsRaw, In
  <2>. QED BY <2>1, <2>2
<1>. QED BY <1>6, <1>8, <1>10, <1>11 DEF ReadingInv

LEMMA UnlockRight ==
  ASSUME ReadingInv, NEW r \in Readers, UnlockSensorBus(r) PROVE ReadingInv'
<1>. USE ReadingAssumption
<1>1. /\ readStep[r] = "unlock" /\ readStep' \in [Readers -> ReadSteps] /\ readStep'[r] = "mark"
      /\ \A q \in Readers : q # r => readStep'[q] = readStep[q]
      /\ bus' = Free
      /\ UNCHANGED <<measure, obsoleted, todo, wanted, deviceLock, portsUsed, sampled>>
  BY Entered DEF UnlockSensorBus, ReadSteps, ReadingInv, In
<1>2. wanted[r] \in Sensors /\ todo = {} /\ bus = r
  BY <1>1 DEF ReadingInv, TypeInv, BusInv, BusSteps
<1>3. TypeInv'
  <2>1. ReadingTypeOK'
    BY <1>1 DEF ReadingInv, TypeInv, ReadingTypeOK
  <2>2. BusInv'
    BY <1>1, <1>2 DEF ReadingInv, TypeInv, BusInv, BusSteps
  <2>. QED BY <2>1, <2>2 DEF TypeInv
<1>4. ASSUME ~portsUsed
      PROVE /\ r \in Clients /\ deviceLock = r
            /\ \A q \in Readers : q # r => readStep[q] = "idle"
  BY <1>1, <1>4, NobodyElse
<1>5. LockInv'
  BY <1>1, <1>4 DEF LockInv
<1>6. ~portsUsed => Fresh(wanted[r])
  BY <1>1, <1>2 DEF ReadingInv, StepInv, BusSteps
<1>7. StepInv'
  BY <1>1, <1>4, <1>6 DEF StepInv, BusSteps, Fresh
<1>8. CacheIsRaw'
  BY <1>1, <1>4 DEF ReadingInv, CacheIsRaw, In, Current
<1>. QED BY <1>3, <1>5, <1>7, <1>8 DEF ReadingInv

LEMMA MarkRight ==
  ASSUME ReadingInv, NEW r \in Readers, MarkObsoleted(r) PROVE ReadingInv'
<1>. USE ReadingAssumption
<1>. DEFINE s == IF wanted[r] \in Tachometers THEN "encode" ELSE "copy"
<1>1. /\ readStep[r] = "mark" /\ readStep' \in [Readers -> ReadSteps] /\ readStep'[r] = s
      /\ \A q \in Readers : q # r => readStep'[q] = readStep[q]
      /\ obsoleted' = [obsoleted EXCEPT ![wanted[r]] = TRUE]
      /\ UNCHANGED <<measure, todo, wanted, deviceLock, bus, portsUsed, sampled>>
  BY Entered DEF MarkObsoleted, ReadSteps, ReadingInv, In
<1>2. wanted[r] \in Sensors
  BY <1>1 DEF ReadingInv, TypeInv, BusInv
<1>3. /\ obsoleted' \in [Sensors -> BOOLEAN] /\ obsoleted'[wanted[r]]
      /\ \A q \in Sensors : ~obsoleted'[q] => ~obsoleted[q]
  BY <1>1, <1>2 DEF ReadingInv, TypeInv, ReadingTypeOK
<1>4. TypeInv'
  <2>1. ReadingTypeOK'
    BY <1>1, <1>3 DEF ReadingInv, TypeInv, ReadingTypeOK
  <2>2. BusInv'
    BY <1>1, <1>2 DEF ReadingInv, TypeInv, BusInv, BusSteps
  <2>. QED BY <2>1, <2>2 DEF TypeInv
<1>5. ASSUME ~portsUsed
      PROVE /\ r \in Clients /\ deviceLock = r
            /\ \A q \in Readers : q # r => readStep[q] = "idle"
  BY <1>1, <1>5, NobodyElse
<1>6. LockInv'
  BY <1>1, <1>5 DEF LockInv
<1>7. ~portsUsed => Fresh(wanted[r])
  BY <1>1 DEF ReadingInv, StepInv
<1>8. StepInv'
  BY <1>1, <1>3, <1>5, <1>7 DEF StepInv, BusSteps, Fresh, Encoded
<1>9. CacheIsRaw'
  BY <1>1, <1>3, <1>5 DEF ReadingInv, CacheIsRaw, In, Current
<1>. QED BY <1>4, <1>6, <1>8, <1>9 DEF ReadingInv

LEMMA EncodeRight ==
  ASSUME ReadingInv, NEW r \in Readers, EncodeInPlace(r) PROVE ReadingInv'
<1>. USE ReadingAssumption
<1>1. /\ readStep[r] = "encode" /\ readStep' \in [Readers -> ReadSteps] /\ readStep'[r] = "copy"
      /\ \A q \in Readers : q # r => readStep'[q] = readStep[q]
      /\ measure' = [measure EXCEPT ![wanted[r]] = encode_fpe2(measure[wanted[r]])]
      /\ UNCHANGED <<obsoleted, todo, wanted, deviceLock, bus, portsUsed, sampled>>
  BY Entered DEF EncodeInPlace, ReadSteps, ReadingInv, In
<1>2. wanted[r] \in Sensors
  BY <1>1 DEF ReadingInv, TypeInv, BusInv
<1>3. encode_fpe2(measure[wanted[r]]) \in Word
  BY <1>2, EncodedWord DEF ReadingInv, TypeInv, ReadingTypeOK
<1>4. /\ measure' \in [Sensors -> Word] /\ measure'[wanted[r]] = encode_fpe2(measure[wanted[r]])
      /\ \A q \in Sensors : q # wanted[r] => measure'[q] = measure[q]
  BY <1>1, <1>2, <1>3 DEF ReadingInv, TypeInv, ReadingTypeOK
<1>5. TypeInv'
  <2>1. ReadingTypeOK'
    BY <1>1, <1>4 DEF ReadingInv, TypeInv, ReadingTypeOK
  <2>2. BusInv'
    BY <1>1, <1>2 DEF ReadingInv, TypeInv, BusInv, BusSteps
  <2>. QED BY <2>1, <2>2 DEF TypeInv
<1>6. ASSUME ~portsUsed
      PROVE /\ r \in Clients /\ deviceLock = r
            /\ \A q \in Readers : q # r => readStep[q] = "idle"
  BY <1>1, <1>6, NobodyElse
<1>7. LockInv'
  BY <1>1, <1>6 DEF LockInv
<1>8. ~portsUsed => obsoleted[wanted[r]] /\ wanted[r] \in Tachometers /\ measure[wanted[r]] = sampled[wanted[r]]
  BY <1>1 DEF ReadingInv, StepInv, Fresh
<1>9. ~portsUsed => Encoded(wanted[r])'
  BY <1>1, <1>4, <1>8 DEF Encoded
<1>10. StepInv'
  BY <1>1, <1>6, <1>9 DEF StepInv, BusSteps, Encoded
<1>11. CacheIsRaw'
  BY <1>1, <1>4, <1>6, <1>8 DEF ReadingInv, CacheIsRaw, In
<1>. QED BY <1>5, <1>7, <1>10, <1>11 DEF ReadingInv

LEMMA CopyRight ==
  ASSUME ReadingInv, NEW r \in Readers, CopyMeasure(r) PROVE ReadingInv'
<1>. USE ReadingAssumption
<1>1. /\ readStep[r] = "copy" /\ readStep' \in [Readers -> ReadSteps] /\ readStep'[r] = "idle"
      /\ \A q \in Readers : q # r => readStep'[q] = readStep[q]
      /\ wanted' = [wanted EXCEPT ![r] = Free]
      /\ UNCHANGED <<measure, obsoleted, todo, bus, portsUsed, sampled>>
  BY Entered DEF CopyMeasure, ReadSteps, ReadingInv, In
<1>2. /\ wanted' \in [Readers -> Sensors \cup {Free}]
      /\ \A q \in Readers : q # r => wanted'[q] = wanted[q]
  BY <1>1 DEF ReadingInv, TypeInv, ReadingTypeOK
<1>3. TypeInv'
  <2>1. ReadingTypeOK'
    BY <1>1, <1>2 DEF ReadingInv, TypeInv, ReadingTypeOK
  <2>2. BusInv'
    BY <1>1, <1>2 DEF ReadingInv, TypeInv, BusInv, BusSteps
  <2>. QED BY <2>1, <2>2 DEF TypeInv
<1>4. ~portsUsed => \A q \in Readers : readStep'[q] = "idle"
  BY <1>1, NobodyElse
<1>5. LockInv' /\ StepInv'
  BY <1>1, <1>4 DEF LockInv, StepInv, BusSteps
<1>6. CacheIsRaw'
  BY <1>1, NobodyElse DEF ReadingInv, CacheIsRaw, In, Current
<1>. QED BY <1>3, <1>5, <1>6 DEF ReadingInv

LEMMA ReadingInvariant == ReadingSpec => []ReadingInv
<1>1. ReadingInv /\ [ReadingNext]_readingVars => ReadingInv'
  <2>. SUFFICES ASSUME ReadingInv, [ReadingNext]_readingVars PROVE ReadingInv'
    OBVIOUS
  <2>1. CASE UNCHANGED readingVars
    <3>1. UNCHANGED <<measure, obsoleted, todo, readStep, wanted, bus, portsUsed, sampled, deviceLock>>
      BY <2>1 DEF readingVars, measureVars
    <3>2. TypeInv'
      BY <3>1 DEF ReadingInv, TypeInv, ReadingTypeOK, BusInv
    <3>3. LockInv' /\ StepInv'
      BY <3>1 DEF ReadingInv, LockInv, StepInv, Fresh, Encoded
    <3>4. CacheIsRaw'
      BY <3>1 DEF ReadingInv, CacheIsRaw, In, Current
    <3>. QED BY <3>2, <3>3, <3>4 DEF ReadingInv
  <2>2. CASE ReadingNext
    <3>1. PICK r \in Readers : ReadKey(r)
      BY <2>2 DEF ReadingNext
    <3>. QED BY <3>1, CallRight, TestRight, LockRight, RenewRight, TransferRight, UnlockRight,
                MarkRight, EncodeRight, CopyRight DEF ReadKey
  <2>. QED BY <2>1, <2>2
<1>. QED BY <1>1, ReadingInitRight, PTL DEF ReadingSpec

(* Type correctness: a measured value is an unsigned 16-bit number also    *)
(* when it has been encoded again and again over the ports.                *)
THEOREM ReadingTypeCorrect == ReadingSpec => []ReadingTypeOK
<1>1. ReadingInv => ReadingTypeOK
  BY DEF ReadingInv, TypeInv
<1>. QED BY <1>1, ReadingInvariant, PTL

(* Without readings over the ports no client gets a speed that was encoded *)
(* more than once.                                                         *)
THEOREM SpeedsEncodedOnce == ReadingSpec => []EncodedOnce
<1>1. ReadingInv => EncodedOnce
  BY DEF ReadingInv, StepInv, EncodedOnce, Encoded, In, Readers
<1>. QED BY <1>1, ReadingInvariant, PTL

(* Without readings over the ports what is not used up is as measured.     *)
THEOREM CacheStaysRaw == ReadingSpec => []CacheIsRaw
<1>1. ReadingInv => CacheIsRaw
  BY DEF ReadingInv
<1>. QED BY <1>1, ReadingInvariant, PTL
--------------------------------------------------------------------------------
(* Fan control.  What GetConf leaves of a configuration. *)
Kept(c) == IF c.zone = 3 THEN Off(c) ELSE c

(* GetConf has come as far as it has: the table has what the chip has for  *)
(* the PWMs before, and the BIOS's configuration is in the others.  Nobody *)
(* switches fans before it has ended.                                      *)
ScanInv ==
  ~disturbed =>
    /\ scanned # NumPwm => \A t \in Threads : step[t] \notin ModeSteps
    /\ \A p \in Pwms : IF p < scanned THEN value[p] = Kept(original[p]) ELSE control[p] = original[p]

(* The mode of a fan with a PWM for itself, and the PWM. *)
ModeInv ==
  ~disturbed => \A f \in Fans : Alone(f) =>
    IF PwmOf[f] < scanned
    THEN /\ f \in pwmMode => control[PwmOf[f]].zone \in {4, 7}
         /\ f \notin pwmMode =>
              \/ control[PwmOf[f]] = original[PwmOf[f]] /\ original[PwmOf[f]].zone \notin {3, 7}
              \/ control[PwmOf[f]] = Cruise /\ original[PwmOf[f]].zone \in {3, 4, 7}
    ELSE f \notin pwmMode

(* A PWM that SetPwmMode has written is that of a fan it has been at. *)
WrittenInv ==
  \A t \in Threads : \A p \in init[t] : \E g \in Fans : g < fan[t] /\ PwmOf[g] = p

(* A PWM that only one call at a time is about, and that the chip leaves   *)
(* alone: from the transfer on the chip has its duty cycle, and the table  *)
(* has the last one that was recorded.                                     *)
DutyOf(p) ==
  p \notin unsure =>
    /\ \A t, u \in Threads : InDutyOf(t, p) /\ InDutyOf(u, p) => t = u
    /\ \A t \in Threads : step[t] \in {"unlock", "record", "applied"} /\ idx[t] = p => dutyReg[p] = data[t]
    /\ duty[p] # NoDuty =>
         \/ dutyReg[p] = duty[p]
         \/ \E t \in Threads : step[t] \in {"unlock", "record"} /\ idx[t] = p

DutyInv == \A p \in Pwms : DutyOf(p)

ModesInv == ScanInv /\ ModeInv /\ WrittenInv

PwmInv == TypeOK /\ ModesInv /\ DutyInv

LEMMA PwmConstants ==
  /\ NumFans \in Nat /\ NumPwm \in Nat /\ NumPwm >= 1 /\ 0 \in Pwms
  /\ \A f \in Fans : f \in Nat /\ f < NumFans /\ PwmOf[f] \in Int /\ (PwmOf[f] >= 0 => PwmOf[f] \in Pwms)
  /\ \A p \in Pwms : p \in Nat /\ p < NumPwm
  /\ BootConfs \subseteq Confs
<1>1. /\ NumFans \in Nat /\ NumPwm \in Nat \ {0} /\ PwmOf \in [Fans -> Pwms \cup {-1}]
      /\ BootConfs \subseteq Confs
  BY PwmAssumption
<1>. QED BY <1>1 DEF Fans, Pwms

LEMMA ConfTypes ==
  /\ Manual \in Confs /\ Cruise \in Confs /\ Manual.zone = 7 /\ Cruise.zone = 1
  /\ \A c \in Confs : Off(c) \in Confs /\ Off(c).zone = 4 /\ Automatic(c) \in Confs /\ c.zone \in 0..7
  BY DEF Confs, Manual, Cruise, Off, Automatic

LEMMA DutyDataType == ASSUME NEW v \in Nat PROVE DutyData(v) \in DutyLevels
<1>1. CASE v < 25
  BY <1>1 DEF DutyData, DutyLevels
<1>2. CASE v \in 25..49
  BY <1>2 DEF DutyData, DutyLevels
<1>3. CASE v \in 50..74
  BY <1>3 DEF DutyData, DutyLevels
<1>4. CASE v \in 75..99
  BY <1>4 DEF DutyData, DutyLevels
<1>5. CASE ~(v < 25) /\ v \notin 25..49 /\ v \notin 50..74 /\ v \notin 75..99
  BY <1>5 DEF DutyData, DutyLevels
<1>. QED BY <1>1, <1>2, <1>3, <1>4, <1>5

LEMMA WriteType ==
  ASSUME NEW register, NEW S, register \in [Pwms -> S], NEW p \in Pwms, NEW byte \in S
  PROVE  [register EXCEPT ![p] = byte] \in [Pwms -> S]
  OBVIOUS

LEMMA PwmInitType == Init => TypeOK
<1>. SUFFICES ASSUME Init PROVE TypeOK
  OBVIOUS
<1>1. [zone |-> 0, alt |-> FALSE] \in Confs
  BY DEF Confs
<1>2. -1 \in -1..NumPwm /\ 0 \in 0..NumFans
  BY PwmConstants
<1>3. original \in [Pwms -> Confs]
  BY PwmConstants DEF Init
<1>4. NoDuty \in DutyLevels \cup {NoDuty} /\ 0 \in DutyLevels
  BY DEF DutyLevels
<1>. QED BY <1>1, <1>2, <1>3, <1>4, PwmConstants DEF Init, TypeOK

LEMMA GetConfType == ASSUME TypeOK, GetConf PROVE TypeOK'
<1>1. PICK read, written \in BOOLEAN, conf \in BootConfs \cup {control[scanned]} :
        /\ IF conf.zone = 3
           THEN /\ Write(control, scanned, Off(conf), written)
                /\ value' = [value EXCEPT ![scanned] = Off(conf)]
           ELSE /\ UNCHANGED control
                /\ value' = [value EXCEPT ![scanned] = conf]
        /\ pwmMode' = pwmMode \cup IF conf.zone \in {3, 7} THEN FansOf(scanned) ELSE {}
        /\ disturbed' = (disturbed \/ ~read \/ ~written)
  BY DEF GetConf
<1>2. scanned \in Pwms /\ conf \in Confs /\ Off(conf) \in Confs
  BY ConfTypes, PwmConstants DEF GetConf, TypeOK
<1>3. control' \in [Pwms -> Confs] /\ value' \in [Pwms -> Confs]
  BY <1>1, <1>2, WriteType DEF TypeOK, Write
<1>4. pwmMode' \subseteq Fans /\ disturbed' \in BOOLEAN
  BY <1>1 DEF TypeOK, FansOf
<1>5. scanned' \in -1..NumPwm
  BY <1>2, PwmConstants DEF GetConf
<1>. QED BY <1>3, <1>4, <1>5 DEF GetConf, TypeOK, modeVars, dutyVars

LEMMA SetPwmModeType == ASSUME TypeOK, NEW t \in Threads, SetPwmMode(t) PROVE TypeOK'
<1>1. /\ fan[t] \in Fans /\ fan' = [fan EXCEPT ![t] = @ + 1]
  BY DEF SetPwmMode
<1>2. fan' \in [Threads -> 0..NumFans]
  BY <1>1, PwmConstants DEF TypeOK
<1>3. CASE UNCHANGED <<pwmMode, control, init, disturbed>>
  BY <1>2, <1>3 DEF SetPwmMode, TypeOK, dutyVars
<1>4. CASE PwmOf[fan[t]] >= 0 /\ Switch(t, fan[t], PwmOf[fan[t]])
  <2>. DEFINE p == PwmOf[fan[t]]
  <2>1. p \in Pwms
    BY <1>1, <1>4, PwmConstants
  <2>2. pwmMode' \subseteq Fans
    BY <1>1, <1>4 DEF Switch, TypeOK
  <2>3. init' \in [Threads -> SUBSET Pwms] /\ disturbed' \in BOOLEAN
    <3>1. init \in [Threads -> SUBSET Pwms] /\ init[t] \cup {p} \in SUBSET Pwms
      BY <2>1 DEF TypeOK
    <3>2. init' = init \/ init' = [init EXCEPT ![t] = init[t] \cup {p}]
      BY <1>4 DEF Switch
    <3>3. init' \in [Threads -> SUBSET Pwms]
      BY <3>1, <3>2
    <3>4. disturbed' \in BOOLEAN
      BY <1>4 DEF Switch, TypeOK
    <3>. QED BY <3>3, <3>4
  <2>4. control' \in [Pwms -> Confs]
    <3>1. value[p] \in Confs
      BY <2>1 DEF TypeOK
    <3>2. Manual \in Confs /\ Automatic(value[p]) \in Confs
      BY <3>1, ConfTypes
    <3>. QED BY <1>4, <2>1, <3>2, WriteType DEF Switch, Write, TypeOK
  <2>. QED BY <1>2, <2>2, <2>3, <2>4 DEF SetPwmMode, TypeOK, dutyVars
<1>5. PwmOf[fan[t]] < 0 \/ PwmOf[fan[t]] >= 0
  BY <1>1, PwmConstants
<1>. QED BY <1>3, <1>4, <1>5 DEF SetPwmMode

LEMMA SetPwmDutyType == ASSUME TypeOK, NEW t \in Threads, SetPwmDuty(t) PROVE TypeOK'
<1>1. CASE CallSetPwmDuty(t)
  <2>1. PICK f \in pwmMode, v \in Speeds :
          /\ PwmOf[f] >= 0
          /\ idx' = [idx EXCEPT ![t] = PwmOf[f]]
          /\ data' = [data EXCEPT ![t] = DutyData(v)]
          /\ Goto(t, IF duty[PwmOf[f]] = DutyData(v) THEN "applied" ELSE "lockDuty")
          /\ unsure' = unsure \cup {q \in {PwmOf[f]} : \E u \in Threads : InDutyOf(u, q)}
    BY <1>1 DEF CallSetPwmDuty
  <2>2. f \in Fans /\ v \in Nat
    BY PwmAssumption DEF TypeOK
  <2>3. PwmOf[f] \in Pwms /\ DutyData(v) \in DutyLevels
    BY <2>1, <2>2, PwmConstants, DutyDataType
  <2>4. idx' \in [Threads -> Pwms] /\ data' \in [Threads -> DutyLevels] /\ unsure' \subseteq Pwms
    BY <2>1, <2>3 DEF TypeOK
  <2>5. step' \in [Threads -> {"idle"} \cup ModeSteps \cup DutySteps]
    BY <2>1 DEF TypeOK, Goto, DutySteps
  <2>. QED BY <1>1, <2>4, <2>5 DEF CallSetPwmDuty, TypeOK, chipVars, modeVars
<1>2. CASE WriteDuty(t)
  <2>1. dutyReg' \in [Pwms -> DutyLevels \cup {Unknown}] /\ unsure' \subseteq Pwms
    BY <1>2 DEF WriteDuty, Write, TypeOK
  <2>2. step' \in [Threads -> {"idle"} \cup ModeSteps \cup DutySteps]
    BY <1>2 DEF WriteDuty, TypeOK, Goto, DutySteps
  <2>. QED BY <1>2, <2>1, <2>2 DEF WriteDuty, TypeOK, dutyVars, modeVars
<1>3. CASE UnlockI2CBus(t)
  BY <1>3 DEF UnlockI2CBus, TypeOK, chipVars, dutyVars, modeVars, Goto, DutySteps
<1>4. CASE RecordDuty(t)
  BY <1>4 DEF RecordDuty, TypeOK, chipVars, dutyVars, modeVars, Goto, DutySteps
<1>5. CASE EndSetPwmDuty(t)
  BY <1>5, PwmConstants DEF EndSetPwmDuty, TypeOK, chipVars, modeVars, Goto, DutyLevels
<1>. QED BY <1>1, <1>2, <1>3, <1>4, <1>5 DEF SetPwmDuty

LEMMA PwmNextType == ASSUME TypeOK, [Next]_vars PROVE TypeOK'
<1>1. CASE BeginGetConf
  BY <1>1, PwmConstants DEF BeginGetConf, TypeOK, chipVars, modeVars, dutyVars
<1>2. CASE GetConf
  BY <1>2, GetConfType
<1>3. ASSUME NEW t \in Threads, CallSetPwmMode(t) PROVE TypeOK'
  BY <1>3 DEF CallSetPwmMode, TypeOK, Goto, ModeSteps, chipVars, dutyVars
<1>4. ASSUME NEW t \in Threads, SetPwmMode(t) PROVE TypeOK'
  BY <1>4, SetPwmModeType
<1>5. ASSUME NEW t \in Threads, EndSetPwmMode(t) PROVE TypeOK'
  BY <1>5, PwmConstants DEF EndSetPwmMode, TypeOK, Goto, chipVars, dutyVars
<1>6. ASSUME NEW t \in Threads, LockI2CBus(t) PROVE TypeOK'
  BY <1>6 DEF LockI2CBus, TypeOK, Goto, ModeSteps, DutySteps, chipVars, modeVars, dutyVars
<1>7. ASSUME NEW t \in Threads, SetPwmDuty(t) PROVE TypeOK'
  BY <1>7, SetPwmDutyType
<1>8. CASE UNCHANGED vars
  BY <1>8 DEF vars, chipVars, modeVars, dutyVars, TypeOK
<1>9. ASSUME NEW p \in Pwms, ChipDrives(p) PROVE TypeOK'
  <2>1. dutyReg' \in [Pwms -> DutyLevels \cup {Unknown}] /\ unsure' \subseteq Pwms
    BY <1>9 DEF ChipDrives, TypeOK
  <2>. QED BY <1>9, <2>1 DEF ChipDrives, TypeOK, modeVars, dutyVars
<1>. QED BY <1>1, <1>2, <1>3, <1>4, <1>5, <1>6, <1>7, <1>8, <1>9 DEF Next

(* Where a step of GetConf finds and leaves a PWM, if nothing has failed. *)
LEMMA GetConfEffect ==
  ASSUME TypeOK, ScanInv, GetConf, ~disturbed'
  PROVE  /\ ~disturbed /\ scanned \in Pwms /\ scanned' = scanned + 1
         /\ control[scanned] = original[scanned]
         /\ control' = [control EXCEPT ![scanned] = Kept(original[scanned])]
         /\ value' = [value EXCEPT ![scanned] = Kept(original[scanned])]
         /\ pwmMode' = pwmMode \cup IF original[scanned].zone \in {3, 7} THEN FansOf(scanned) ELSE {}
<1>1. PICK read, written \in BOOLEAN, conf \in BootConfs \cup {control[scanned]} :
        /\ read => conf = control[scanned]
        /\ IF conf.zone = 3
           THEN /\ Write(control, scanned, Off(conf), written)
                /\ value' = [value EXCEPT ![scanned] = Off(conf)]
           ELSE /\ UNCHANGED control
                /\ value' = [value EXCEPT ![scanned] = conf]
        /\ pwmMode' = pwmMode \cup IF conf.zone \in {3, 7} THEN FansOf(scanned) ELSE {}
        /\ disturbed' = (disturbed \/ ~read \/ ~written)
  BY DEF GetConf
<1>2. ~disturbed /\ read /\ written
  BY <1>1
<1>3. scanned \in Pwms /\ scanned' = scanned + 1 /\ scanned \in Nat
  BY PwmConstants DEF GetConf
<1>4. control[scanned] = original[scanned] /\ conf = original[scanned]
  BY <1>1, <1>2, <1>3 DEF ScanInv
<1>5. control' = [control EXCEPT ![scanned] = Kept(original[scanned])]
  <2>1. control \in [Pwms -> Confs]
    BY DEF TypeOK
  <2>. QED BY <1>1, <1>2, <1>3, <1>4, <2>1 DEF Write, Kept
<1>. QED BY <1>1, <1>2, <1>3, <1>4, <1>5 DEF Kept

LEMMA GetConfModes == ASSUME TypeOK, ModesInv, GetConf PROVE ModesInv'
<1>1. WrittenInv'
  BY DEF GetConf, modeVars, ModesInv, WrittenInv
<1>2. ScanInv' /\ ModeInv'
  <2>. SUFFICES ASSUME ~disturbed' PROVE ScanInv' /\ ModeInv'
    BY DEF ScanInv, ModeInv
  <2>1. /\ ~disturbed /\ scanned \in Pwms /\ scanned' = scanned + 1
        /\ control[scanned] = original[scanned]
        /\ control' = [control EXCEPT ![scanned] = Kept(original[scanned])]
        /\ value' = [value EXCEPT ![scanned] = Kept(original[scanned])]
        /\ pwmMode' = pwmMode \cup IF original[scanned].zone \in {3, 7} THEN FansOf(scanned) ELSE {}
    BY GetConfEffect DEF ModesInv
  <2>2. UNCHANGED <<original, step>> /\ scanned \in Nat /\ scanned # NumPwm
    BY <2>1, PwmConstants DEF GetConf
  <2>3. control \in [Pwms -> Confs] /\ value \in [Pwms -> Confs] /\ original \in [Pwms -> Confs]
    BY DEF TypeOK
  <2>4. ScanInv'
    <3>1. ASSUME NEW t \in Threads PROVE step'[t] \notin ModeSteps
      BY <2>1, <2>2 DEF ModesInv, ScanInv
    <3>2. ASSUME NEW p \in Pwms
          PROVE  IF p < scanned' THEN value'[p] = Kept(original'[p]) ELSE control'[p] = original'[p]
      <4>1. CASE p = scanned
        BY <2>1, <2>2, <2>3, <4>1
      <4>2. CASE p # scanned
        <5>1. value'[p] = value[p] /\ control'[p] = control[p] /\ (p < scanned' <=> p < scanned)
          BY <2>1, <2>2, <2>3, <4>2, PwmConstants
        <5>. QED BY <2>1, <2>2, <5>1 DEF ModesInv, ScanInv
      <4>. QED BY <4>1, <4>2
    <3>. QED BY <3>1, <3>2 DEF ScanInv
  <2>5. ModeInv'
    <3>. SUFFICES ASSUME NEW f \in Fans, Alone(f)
                  PROVE  IF PwmOf[f] < scanned'
                         THEN /\ f \in pwmMode' => control'[PwmOf[f]].zone \in {4, 7}
                              /\ f \notin pwmMode' =>
                                   \/ control'[PwmOf[f]] = original[PwmOf[f]] /\ original[PwmOf[f]].zone \notin {3, 7}
                                   \/ control'[PwmOf[f]] = Cruise /\ original[PwmOf[f]].zone \in {3, 4, 7}
                         ELSE f \notin pwmMode'
      BY <2>2 DEF ModeInv, Alone
    <3>1. PwmOf[f] \in Pwms /\ PwmOf[f] \in Nat
      BY PwmConstants DEF Alone
    <3>2. CASE PwmOf[f] = scanned
      <4>1. f \notin pwmMode
        BY <2>1, <2>2, <3>2 DEF ModesInv, ModeInv
      <4>2. f \in FansOf(scanned)
        BY <3>2 DEF FansOf
      <4>3. f \in pwmMode' <=> original[scanned].zone \in {3, 7}
        BY <2>1, <4>1, <4>2
      <4>4. control'[scanned] = Kept(original[scanned]) /\ original[scanned] \in Confs
        BY <2>1, <2>3
      <4>5. original[scanned].zone = 3 => control'[scanned].zone = 4
        BY <4>4, ConfTypes DEF Kept
      <4>6. original[scanned].zone # 3 => control'[scanned] = original[scanned]
        BY <4>4 DEF Kept
      <4>. QED BY <2>1, <2>2, <3>2, <4>3, <4>5, <4>6
    <3>3. CASE PwmOf[f] # scanned
      <4>1. f \in pwmMode' <=> f \in pwmMode
        BY <2>1, <3>3 DEF FansOf
      <4>2. control'[PwmOf[f]] = control[PwmOf[f]]
        BY <2>1, <2>3, <3>1, <3>3
      <4>3. PwmOf[f] < scanned' <=> PwmOf[f] < scanned
        BY <2>1, <2>2, <3>1, <3>3
      <4>. QED BY <2>1, <4>1, <4>2, <4>3 DEF ModesInv, ModeInv
    <3>. QED BY <3>2, <3>3
  <2>. QED BY <2>4, <2>5
<1>. QED BY <1>1, <1>2 DEF ModesInv

(* One fan: its PWM is written unless a fan before it has it as well. *)
LEMMA SetPwmModeModes == ASSUME TypeOK, ModesInv, NEW t \in Threads, SetPwmMode(t) PROVE ModesInv'
<1>. DEFINE f == fan[t]
            p == PwmOf[f]
<1>1. /\ f \in Fans /\ fan' = [fan EXCEPT ![t] = f + 1] /\ step[t] = "fans" /\ p \in Int
      /\ UNCHANGED <<value, scanned, step, val, original>>
  BY PwmConstants DEF SetPwmMode
<1>2. /\ control \in [Pwms -> Confs] /\ value \in [Pwms -> Confs] /\ original \in [Pwms -> Confs]
      /\ fan \in [Threads -> 0..NumFans] /\ init \in [Threads -> SUBSET Pwms]
  BY DEF TypeOK
<1>3. \A u \in Threads : fan[u] <= fan'[u] /\ fan[u] \in Nat /\ fan'[u] \in Nat /\ fan'[t] = f + 1
  BY <1>1, <1>2, PwmConstants
<1>4. CASE UNCHANGED <<pwmMode, control, init, disturbed>>
  <2>1. WrittenInv'
    <3>. SUFFICES ASSUME NEW u \in Threads, NEW q \in init[u]
                  PROVE  \E g \in Fans : g < fan'[u] /\ PwmOf[g] = q
      BY <1>4 DEF WrittenInv
    <3>1. PICK g \in Fans : g < fan[u] /\ PwmOf[g] = q
      BY DEF ModesInv, WrittenInv
    <3>2. g < fan'[u]
      BY <1>3, <3>1, PwmConstants
    <3>. QED BY <3>1, <3>2
  <2>2. ScanInv' /\ ModeInv'
    BY <1>1, <1>4 DEF ModesInv, ScanInv, ModeInv
  <2>. QED BY <2>1, <2>2 DEF ModesInv
<1>5. CASE p >= 0 /\ Switch(t, f, p)
  <2>1. p \in Pwms /\ pwmMode' = IF f \in val[t] THEN pwmMode \cup {f} ELSE pwmMode \ {f}
    BY <1>1, <1>5, PwmConstants DEF Switch
  <2>2. WrittenInv'
    <3>. SUFFICES ASSUME NEW u \in Threads, NEW q \in init'[u]
                  PROVE  \E g \in Fans : g < fan'[u] /\ PwmOf[g] = q
      BY DEF WrittenInv
    <3>1. CASE q \in init[u]
      <4>1. PICK g \in Fans : g < fan[u] /\ PwmOf[g] = q
        BY <3>1 DEF ModesInv, WrittenInv
      <4>2. g < fan'[u]
        BY <1>3, <4>1, PwmConstants
      <4>. QED BY <4>1, <4>2
    <3>2. CASE q \notin init[u]
      <4>1. u = t /\ q = p
        BY <1>2, <1>5, <3>2 DEF Switch
      <4>2. f < fan'[u]
        BY <1>1, <1>3, <4>1, PwmConstants
      <4>. QED BY <1>1, <4>1, <4>2
    <3>. QED BY <3>1, <3>2
  <2>3. ScanInv' /\ ModeInv'
    <3>. SUFFICES ASSUME ~disturbed' PROVE ScanInv' /\ ModeInv'
      BY DEF ScanInv, ModeInv
    <3>1. ~disturbed
      BY <1>5 DEF Switch
    <3>2. scanned = NumPwm
      BY <1>1, <3>1 DEF ModesInv, ScanInv, ModeSteps
    <3>3. \A q \in Pwms : q < scanned /\ value[q] = Kept(original[q])
      BY <3>1, <3>2, PwmConstants DEF ModesInv, ScanInv
    <3>4. ScanInv'
      BY <1>1, <3>2, <3>3 DEF ScanInv
    <3>5. ModeInv'
      <4>. SUFFICES ASSUME NEW h \in Fans, Alone(h)
                    PROVE  /\ h \in pwmMode' => control'[PwmOf[h]].zone \in {4, 7}
                           /\ h \notin pwmMode' =>
                                \/ control'[PwmOf[h]] = original[PwmOf[h]] /\ original[PwmOf[h]].zone \notin {3, 7}
                                \/ control'[PwmOf[h]] = Cruise /\ original[PwmOf[h]].zone \in {3, 4, 7}
        <5>1. \A h \in Fans : Alone(h) => PwmOf[h] < scanned
          BY <3>3, PwmConstants DEF Alone
        <5>. QED BY <1>1, <5>1 DEF ModeInv, Alone
      <4>1. PwmOf[h] \in Pwms
        BY PwmConstants DEF Alone
      <4>2. CASE h = f
        <5>1. p \notin init[t]
          <6>. SUFFICES ASSUME p \in init[t] PROVE FALSE
            OBVIOUS
          <6>1. PICK g \in Fans : g < f /\ PwmOf[g] = p
            BY DEF ModesInv, WrittenInv
          <6>2. g \in FansOf(p)
            BY <6>1 DEF FansOf
          <6>. QED BY <1>1, <4>2, <6>1, <6>2, PwmConstants DEF Alone
        <5>2. control' = [control EXCEPT ![p] = IF f \in val[t] THEN Manual ELSE Automatic(value[p])]
          BY <1>5, <5>1 DEF Switch, Write
        <5>3. CASE f \in val[t]
          <6>1. f \in pwmMode' /\ control'[p].zone = 7
            BY <1>2, <2>1, <5>2, <5>3, ConfTypes
          <6>. QED BY <4>2, <6>1
        <5>4. CASE f \notin val[t]
          <6>1. f \notin pwmMode' /\ control'[p] = Automatic(Kept(original[p])) /\ original[p] \in Confs
            BY <1>2, <2>1, <3>3, <5>2, <5>4
          <6>2. original[p].zone = 3 => Kept(original[p]).zone = 4
            BY <6>1, ConfTypes DEF Kept
          <6>3. original[p].zone \in {3, 4, 7} => control'[p] = Cruise
            BY <6>1, <6>2 DEF Automatic, Kept
          <6>4. original[p].zone \notin {3, 4, 7} => control'[p] = original[p]
            BY <6>1 DEF Automatic, Kept
          <6>. QED BY <4>2, <6>1, <6>3, <6>4
        <5>. QED BY <5>3, <5>4
      <4>3. CASE h # f
        <5>1. h \in pwmMode' <=> h \in pwmMode
          BY <2>1, <4>3
        <5>2. PwmOf[h] # p
          BY <1>1, <4>3 DEF Alone, FansOf
        <5>3. control'[PwmOf[h]] = control[PwmOf[h]]
          BY <1>2, <1>5, <4>1, <5>2 DEF Switch, Write
        <5>. QED BY <3>1, <3>3, <4>1, <5>1, <5>3 DEF ModesInv, ModeInv
      <4>. QED BY <4>2, <4>3
    <3>. QED BY <3>4, <3>5
  <2>. QED BY <2>2, <2>3 DEF ModesInv
<1>6. p < 0 \/ p >= 0
  BY <1>1
<1>. QED BY <1>4, <1>5, <1>6 DEF SetPwmMode

LEMMA BeginGetConfModes == ASSUME TypeOK, ModesInv, BeginGetConf PROVE ModesInv'
<1>1. scanned = -1 /\ scanned' = 0 /\ pwmMode' = {}
      /\ UNCHANGED <<control, value, step, fan, init, original, disturbed>>
  BY DEF BeginGetConf, chipVars, modeVars
<1>2. ScanInv'
  <2>1. \A p \in Pwms : ~(p < -1) /\ ~(p < 0)
    BY PwmConstants
  <2>2. -1 # NumPwm
    BY PwmConstants
  <2>. QED BY <1>1, <2>1, <2>2 DEF ModesInv, ScanInv
<1>3. ModeInv'
  <2>1. \A f \in Fans : Alone(f) => ~(PwmOf[f] < 0)
    BY PwmConstants DEF Alone
  <2>. QED BY <1>1, <2>1 DEF ModeInv, Alone
<1>4. WrittenInv'
  BY <1>1 DEF ModesInv, WrittenInv
<1>. QED BY <1>2, <1>3, <1>4 DEF ModesInv

LEMMA CallSetPwmModeModes ==
  ASSUME TypeOK, ModesInv, NEW t \in Threads, CallSetPwmMode(t) PROVE ModesInv'
<1>1. /\ UNCHANGED <<control, value, pwmMode, scanned, fan, init, original>>
      /\ disturbed' = (disturbed \/ scanned # NumPwm)
  BY DEF CallSetPwmMode, chipVars
<1>2. ScanInv' /\ ModeInv'
  BY <1>1 DEF ModesInv, ScanInv, ModeInv
<1>3. WrittenInv'
  BY <1>1 DEF ModesInv, WrittenInv
<1>. QED BY <1>2, <1>3 DEF ModesInv

LEMMA EndSetPwmModeModes ==
  ASSUME TypeOK, ModesInv, NEW t \in Threads, EndSetPwmMode(t) PROVE ModesInv'
<1>1. /\ UNCHANGED <<control, value, pwmMode, scanned, original, disturbed>>
      /\ step' = [step EXCEPT ![t] = "idle"] /\ init' = [init EXCEPT ![t] = {}] /\ fan' = [fan EXCEPT ![t] = 0]
  BY DEF EndSetPwmMode, chipVars, Goto
<1>2. step \in [Threads -> {"idle"} \cup ModeSteps \cup DutySteps] /\ init \in [Threads -> SUBSET Pwms]
      /\ fan \in [Threads -> 0..NumFans]
  BY DEF TypeOK
<1>3. \A u \in Threads : step'[u] \in ModeSteps => step[u] \in ModeSteps
  BY <1>1, <1>2 DEF ModeSteps
<1>4. ScanInv' /\ ModeInv'
  BY <1>1, <1>3 DEF ModesInv, ScanInv, ModeInv
<1>5. WrittenInv'
  BY <1>1, <1>2 DEF ModesInv, WrittenInv
<1>. QED BY <1>4, <1>5 DEF ModesInv

(* Steps that leave modes and configurations alone. *)
LEMMA OthersModes ==
  ASSUME ModesInv, UNCHANGED <<control, value, pwmMode, scanned, fan, init, original>>, disturbed => disturbed',
         \A u \in Threads : step'[u] \in ModeSteps => step[u] \in ModeSteps
  PROVE  ModesInv'
<1>1. ScanInv' /\ ModeInv'
  BY DEF ModesInv, ScanInv, ModeInv
<1>2. WrittenInv'
  BY DEF ModesInv, WrittenInv
<1>. QED BY <1>1, <1>2 DEF ModesInv

LEMMA LockI2CBusModes == ASSUME TypeOK, ModesInv, NEW t \in Threads, LockI2CBus(t) PROVE ModesInv'
<1>1. \A u \in Threads : step'[u] \in ModeSteps => step[u] \in ModeSteps
  BY DEF LockI2CBus, Goto, TypeOK, ModeSteps
<1>. QED BY <1>1, OthersModes DEF LockI2CBus, chipVars, modeVars

LEMMA SetPwmDutyModes == ASSUME TypeOK, ModesInv, NEW t \in Threads, SetPwmDuty(t) PROVE ModesInv'
<1>1. \A u \in Threads : step'[u] \in ModeSteps => step[u] \in ModeSteps
  BY DEF SetPwmDuty, CallSetPwmDuty, WriteDuty, UnlockI2CBus, RecordDuty, EndSetPwmDuty, Goto, TypeOK, ModeSteps
<1>2. disturbed => disturbed'
  BY DEF SetPwmDuty, CallSetPwmDuty, WriteDuty, UnlockI2CBus, RecordDuty, EndSetPwmDuty
<1>3. UNCHANGED <<control, value, pwmMode, scanned, fan, init, original>>
  BY DEF SetPwmDuty, CallSetPwmDuty, WriteDuty, UnlockI2CBus, RecordDuty, EndSetPwmDuty, chipVars, modeVars
<1>. QED BY <1>1, <1>2, <1>3, OthersModes

LEMMA NextModes == ASSUME TypeOK, ModesInv, [Next]_vars PROVE ModesInv'
<1>1. CASE BeginGetConf
  BY <1>1, BeginGetConfModes
<1>2. CASE GetConf
  BY <1>2, GetConfModes
<1>3. ASSUME NEW t \in Threads, CallSetPwmMode(t) PROVE ModesInv'
  BY <1>3, CallSetPwmModeModes
<1>4. ASSUME NEW t \in Threads, SetPwmMode(t) PROVE ModesInv'
  BY <1>4, SetPwmModeModes
<1>5. ASSUME NEW t \in Threads, EndSetPwmMode(t) PROVE ModesInv'
  BY <1>5, EndSetPwmModeModes
<1>6. ASSUME NEW t \in Threads, LockI2CBus(t) PROVE ModesInv'
  BY <1>6, LockI2CBusModes
<1>7. ASSUME NEW t \in Threads, SetPwmDuty(t) PROVE ModesInv'
  BY <1>7, SetPwmDutyModes
<1>8. CASE UNCHANGED vars
  BY <1>8, OthersModes DEF vars, chipVars, modeVars
<1>9. ASSUME NEW p \in Pwms, ChipDrives(p) PROVE ModesInv'
  BY <1>9, OthersModes DEF ChipDrives, modeVars
<1>. QED BY <1>1, <1>2, <1>3, <1>4, <1>5, <1>6, <1>7, <1>8, <1>9 DEF Next

LEMMA InitModes == Init => ModesInv
<1>. SUFFICES ASSUME Init PROVE ModesInv
  OBVIOUS
<1>1. /\ control = original /\ scanned = -1 /\ pwmMode = {} /\ init = [t \in Threads |-> {}]
      /\ step = [t \in Threads |-> "idle"]
  BY DEF Init
<1>2. ScanInv
  <2>1. \A p \in Pwms : ~(p < -1)
    BY PwmConstants
  <2>. QED BY <1>1, <2>1 DEF ScanInv, ModeSteps
<1>3. ModeInv
  <2>1. \A f \in Fans : Alone(f) => ~(PwmOf[f] < -1)
    BY PwmConstants DEF Alone
  <2>. QED BY <1>1, <2>1 DEF ModeInv
<1>. QED BY <1>1, <1>2, <1>3 DEF ModesInv, WrittenInv
--------------------------------------------------------------------------------
(* Calls for the duty cycle. *)
LEMMA CallSetPwmDutyDuty ==
  ASSUME TypeOK, DutyInv, NEW t \in Threads, CallSetPwmDuty(t) PROVE DutyInv'
<1>1. PICK f \in pwmMode, v \in Speeds :
        /\ PwmOf[f] >= 0
        /\ idx' = [idx EXCEPT ![t] = PwmOf[f]]
        /\ data' = [data EXCEPT ![t] = DutyData(v)]
        /\ Goto(t, IF duty[PwmOf[f]] = DutyData(v) THEN "applied" ELSE "lockDuty")
        /\ unsure' = unsure \cup {q \in {PwmOf[f]} : \E u \in Threads : InDutyOf(u, q)}
  BY DEF CallSetPwmDuty
<1>. DEFINE p == PwmOf[f]
<1>2. step[t] = "idle" /\ UNCHANGED <<dutyReg, duty>>
  BY DEF CallSetPwmDuty, chipVars
<1>3. p \in Pwms /\ DutyData(v) \in DutyLevels
  BY <1>1, PwmConstants, PwmAssumption, DutyDataType DEF TypeOK
<1>4. p \notin unsure' => \A u \in Threads : ~InDutyOf(u, p)
  BY <1>1
<1>5. /\ idx \in [Threads -> Pwms] /\ data \in [Threads -> DutyLevels]
      /\ step \in [Threads -> {"idle"} \cup ModeSteps \cup DutySteps]
  BY DEF TypeOK
<1>6. /\ idx'[t] = p /\ data'[t] = DutyData(v)
      /\ step'[t] = IF duty[p] = DutyData(v) THEN "applied" ELSE "lockDuty"
      /\ \A u \in Threads : u # t => idx'[u] = idx[u] /\ data'[u] = data[u] /\ step'[u] = step[u]
  BY <1>1, <1>5 DEF Goto
<1>. SUFFICES ASSUME NEW q \in Pwms, q \notin unsure' PROVE DutyOf(q)'
  BY DEF DutyInv, DutyOf
<1>7. q \notin unsure /\ DutyOf(q)
  BY <1>1 DEF DutyInv
<1>8. ASSUME NEW u \in Threads, NEW w \in Threads, InDutyOf(u, q)', InDutyOf(w, q)' PROVE u = w
  BY <1>4, <1>6, <1>7, <1>8 DEF DutyOf, InDutyOf
<1>9. ASSUME NEW u \in Threads, step'[u] \in {"unlock", "record", "applied"}, idx'[u] = q PROVE dutyReg'[q] = data'[u]
  <2>1. CASE u = t
    <3>1. duty[p] = DutyData(v) /\ duty[p] # NoDuty /\ p = q
      BY <1>3, <1>6, <1>9, <2>1 DEF NoDuty, DutyLevels
    <3>2. dutyReg[p] = duty[p]
      BY <1>4, <1>7, <3>1 DEF DutyOf, DutySteps, InDutyOf
    <3>. QED BY <1>2, <1>6, <2>1, <3>1, <3>2
  <2>2. CASE u # t
    BY <1>2, <1>6, <1>7, <1>9, <2>2 DEF DutyOf
  <2>. QED BY <2>1, <2>2
<1>10. ASSUME duty'[q] # NoDuty
       PROVE  dutyReg'[q] = duty'[q] \/ \E u \in Threads : step'[u] \in {"unlock", "record"} /\ idx'[u] = q
  <2>1. CASE dutyReg[q] = duty[q]
    BY <1>2, <2>1
  <2>2. ASSUME NEW u \in Threads, step[u] \in {"unlock", "record"}, idx[u] = q
        PROVE  step'[u] \in {"unlock", "record"} /\ idx'[u] = q
    BY <1>2, <1>6, <2>2
  <2>. QED BY <1>2, <1>7, <1>10, <2>1, <2>2 DEF DutyOf
<1>. QED BY <1>8, <1>9, <1>10 DEF DutyOf

LEMMA WriteDutyDuty == ASSUME TypeOK, DutyInv, NEW t \in Threads, WriteDuty(t) PROVE DutyInv'
<1>1. PICK done \in BOOLEAN :
        /\ Write(dutyReg, idx[t], data[t], done)
        /\ unsure' = IF ~done THEN unsure \cup {idx[t]}
                     ELSE unsure \ {q \in {idx[t]} : \A u \in Threads \ {t} : ~InDutyOf(u, q)}
  BY DEF WriteDuty
<1>2. step[t] = "write" /\ UNCHANGED <<duty, idx, data>> /\ step' = [step EXCEPT ![t] = "unlock"]
  BY DEF WriteDuty, dutyVars, Goto
<1>3. /\ idx[t] \in Pwms /\ dutyReg \in [Pwms -> DutyLevels \cup {Unknown}]
      /\ step \in [Threads -> {"idle"} \cup ModeSteps \cup DutySteps] /\ idx \in [Threads -> Pwms]
  BY DEF TypeOK
<1>4. step'[t] = "unlock" /\ \A u \in Threads : u # t => step'[u] = step[u]
  BY <1>2, <1>3
<1>. SUFFICES ASSUME NEW q \in Pwms, q \notin unsure' PROVE DutyOf(q)'
  BY DEF DutyInv, DutyOf
<1>5. DutyOf(q)
  BY DEF DutyInv
<1>6. CASE q = idx[t]
  <2>1. done /\ \A u \in Threads : u # t => ~InDutyOf(u, q)
    <3>1. done
      BY <1>1, <1>6
    <3>2. CASE q \in unsure
      BY <1>1, <1>6, <3>1, <3>2
    <3>3. CASE q \notin unsure
      BY <1>2, <1>5, <1>6, <3>1, <3>3 DEF DutyOf, InDutyOf, DutySteps
    <3>. QED BY <3>1, <3>2, <3>3
  <2>2. dutyReg'[q] = data[t]
    BY <1>1, <1>3, <1>6, <2>1 DEF Write
  <2>3. \A u \in Threads : u # t => ~(step'[u] \in DutySteps /\ idx'[u] = q)
    BY <1>2, <1>4, <2>1 DEF InDutyOf
  <2>. QED BY <1>2, <1>4, <1>6, <2>2, <2>3 DEF DutyOf, InDutyOf, DutySteps
<1>7. CASE q # idx[t]
  <2>1. q \notin unsure /\ dutyReg'[q] = dutyReg[q]
    BY <1>1, <1>3, <1>7 DEF Write
  <2>2. \A u \in Threads : idx'[u] = q => u # t /\ step'[u] = step[u]
    BY <1>2, <1>4, <1>7
  <2>3. \A u \in Threads : idx[u] = q => step'[u] = step[u]
    BY <1>2, <2>2
  <2>. QED BY <1>2, <1>5, <2>1, <2>2, <2>3 DEF DutyOf, InDutyOf
<1>. QED BY <1>6, <1>7

LEMMA RecordDutyDuty == ASSUME TypeOK, DutyInv, NEW t \in Threads, RecordDuty(t) PROVE DutyInv'
<1>1. duty' = [duty EXCEPT ![idx[t]] = data[t]] /\ unsure' = unsure
  BY DEF RecordDuty
<1>2. step[t] = "record" /\ UNCHANGED <<dutyReg, idx, data>> /\ step' = [step EXCEPT ![t] = "applied"]
  BY DEF RecordDuty, chipVars, dutyVars, Goto
<1>3. /\ idx[t] \in Pwms /\ duty \in [Pwms -> DutyLevels \cup {NoDuty}]
      /\ step \in [Threads -> {"idle"} \cup ModeSteps \cup DutySteps]
  BY DEF TypeOK
<1>4. step'[t] = "applied" /\ \A u \in Threads : u # t => step'[u] = step[u]
  BY <1>2, <1>3
<1>. SUFFICES ASSUME NEW q \in Pwms, q \notin unsure PROVE DutyOf(q)'
  BY <1>1 DEF DutyInv, DutyOf
<1>5. DutyOf(q)
  BY DEF DutyInv
<1>6. ASSUME NEW u \in Threads, NEW w \in Threads, InDutyOf(u, q)', InDutyOf(w, q)' PROVE u = w
  BY <1>2, <1>4, <1>5, <1>6 DEF DutyOf, InDutyOf, DutySteps
<1>7. ASSUME NEW u \in Threads, step'[u] \in {"unlock", "record", "applied"}, idx'[u] = q PROVE dutyReg'[q] = data'[u]
  BY <1>2, <1>4, <1>5, <1>7 DEF DutyOf
<1>8. ASSUME duty'[q] # NoDuty
      PROVE  dutyReg'[q] = duty'[q] \/ \E u \in Threads : step'[u] \in {"unlock", "record"} /\ idx'[u] = q
  <2>1. CASE q = idx[t]
    <3>1. dutyReg[q] = data[t]
      BY <1>2, <1>5, <2>1 DEF DutyOf
    <3>. QED BY <1>1, <1>2, <1>3, <2>1, <3>1
  <2>2. CASE q # idx[t]
    <3>1. duty'[q] = duty[q]
      BY <1>1, <1>3, <2>2
    <3>2. ASSUME NEW u \in Threads, step[u] \in {"unlock", "record"}, idx[u] = q
          PROVE  step'[u] \in {"unlock", "record"} /\ idx'[u] = q
      BY <1>2, <1>4, <2>2, <3>2
    <3>. QED BY <1>2, <1>5, <1>8, <3>1, <3>2 DEF DutyOf
  <2>. QED BY <2>1, <2>2
<1>. QED BY <1>1, <1>6, <1>7, <1>8 DEF DutyOf

(* A thread that moves on without a transfer or a record, and a chip that  *)
(* moves a duty cycle.                                                     *)
LEMMA OthersDuty ==
  ASSUME DutyInv, unsure \subseteq unsure', UNCHANGED duty,
         \A p \in Pwms \ unsure' : dutyReg'[p] = dutyReg[p],
         \A u \in Threads :
           /\ step'[u] \in DutySteps => step[u] \in DutySteps /\ idx'[u] = idx[u] /\ data'[u] = data[u]
           /\ step'[u] \in {"unlock", "record", "applied"} => step[u] \in {"unlock", "record", "applied"}
           /\ step[u] \in {"unlock", "record"} => step'[u] \in {"unlock", "record"} /\ idx'[u] = idx[u]
  PROVE  DutyInv'
<1>. SUFFICES ASSUME NEW q \in Pwms, q \notin unsure' PROVE DutyOf(q)'
  BY DEF DutyInv, DutyOf
<1>1. DutyOf(q) /\ q \notin unsure /\ dutyReg'[q] = dutyReg[q] /\ duty'[q] = duty[q]
  BY DEF DutyInv
<1>2. ASSUME NEW u \in Threads, NEW w \in Threads, InDutyOf(u, q)', InDutyOf(w, q)' PROVE u = w
  BY <1>1, <1>2 DEF DutyOf, InDutyOf
<1>3. ASSUME NEW u \in Threads, step'[u] \in {"unlock", "record", "applied"}, idx'[u] = q PROVE dutyReg'[q] = data'[u]
  BY <1>1, <1>3 DEF DutyOf, DutySteps
<1>4. ASSUME duty'[q] # NoDuty
      PROVE  dutyReg'[q] = duty'[q] \/ \E u \in Threads : step'[u] \in {"unlock", "record"} /\ idx'[u] = q
  BY <1>1, <1>4 DEF DutyOf
<1>. QED BY <1>2, <1>3, <1>4 DEF DutyOf

LEMMA NextDuty == ASSUME TypeOK, DutyInv, [Next]_vars PROVE DutyInv'
<1>0. step \in [Threads -> {"idle"} \cup ModeSteps \cup DutySteps] /\ idx \in [Threads -> Pwms]
      /\ data \in [Threads -> DutyLevels]
  BY DEF TypeOK
<1>1. CASE BeginGetConf \/ GetConf
  <2>1. UNCHANGED <<dutyReg, duty, step, idx, data, unsure>>
    BY <1>1 DEF BeginGetConf, GetConf, chipVars, dutyVars
  <2>. QED BY <2>1, OthersDuty
<1>2. ASSUME NEW t \in Threads, CallSetPwmMode(t) \/ SetPwmMode(t) \/ EndSetPwmMode(t) PROVE DutyInv'
  <2>1. UNCHANGED <<dutyReg, duty, idx, data, unsure>>
    BY <1>2 DEF CallSetPwmMode, SetPwmMode, EndSetPwmMode, chipVars, dutyVars
  <2>2. step' = step \/ (step[t] \notin DutySteps /\ \E s \in {"idle", "lockMode"} : step' = [step EXCEPT ![t] = s])
    BY <1>2 DEF CallSetPwmMode, SetPwmMode, EndSetPwmMode, Goto, DutySteps
  <2>. QED BY <1>0, <2>1, <2>2, OthersDuty DEF DutySteps
<1>3. ASSUME NEW t \in Threads, LockI2CBus(t) PROVE DutyInv'
  <2>1. UNCHANGED <<dutyReg, duty, idx, data, unsure>>
    BY <1>3 DEF LockI2CBus, chipVars, dutyVars
  <2>2. \/ step[t] = "lockMode" /\ step' = [step EXCEPT ![t] = "fans"]
        \/ step[t] = "lockDuty" /\ step' = [step EXCEPT ![t] = "write"]
    BY <1>3 DEF LockI2CBus, Goto
  <2>. QED BY <1>0, <2>1, <2>2, OthersDuty DEF DutySteps
<1>4. ASSUME NEW t \in Threads, UnlockI2CBus(t) PROVE DutyInv'
  <2>1. UNCHANGED <<dutyReg, duty, idx, data, unsure>> /\ step[t] = "unlock" /\ step' = [step EXCEPT ![t] = "record"]
    BY <1>4 DEF UnlockI2CBus, chipVars, dutyVars, Goto
  <2>. QED BY <1>0, <2>1, OthersDuty DEF DutySteps
<1>5. ASSUME NEW t \in Threads, EndSetPwmDuty(t) PROVE DutyInv'
  <2>1. /\ UNCHANGED <<dutyReg, duty, unsure>> /\ step[t] = "applied" /\ step' = [step EXCEPT ![t] = "idle"]
        /\ idx' = [idx EXCEPT ![t] = 0] /\ data' = [data EXCEPT ![t] = 0]
    BY <1>5 DEF EndSetPwmDuty, chipVars, Goto
  <2>. QED BY <1>0, <2>1, OthersDuty DEF DutySteps
<1>6. ASSUME NEW t \in Threads, CallSetPwmDuty(t) \/ WriteDuty(t) \/ RecordDuty(t) PROVE DutyInv'
  BY <1>6, CallSetPwmDutyDuty, WriteDutyDuty, RecordDutyDuty
<1>7. CASE UNCHANGED vars
  BY <1>7, OthersDuty DEF vars, chipVars, dutyVars
<1>8. ASSUME NEW p \in Pwms, ChipDrives(p) PROVE DutyInv'
  <2>1. UNCHANGED <<duty, step, idx, data>> /\ unsure' = unsure \cup {p} /\ dutyReg' = [dutyReg EXCEPT ![p] = Unknown]
    BY <1>8 DEF ChipDrives, dutyVars
  <2>2. \A q \in Pwms \ unsure' : dutyReg'[q] = dutyReg[q]
    BY <2>1 DEF TypeOK
  <2>. QED BY <2>1, <2>2, OthersDuty
<1>. QED BY <1>1, <1>2, <1>3, <1>4, <1>5, <1>6, <1>7, <1>8 DEF Next, SetPwmDuty

LEMMA PwmInvariant == Spec => []PwmInv
<1>1. Init => PwmInv
  <2>. SUFFICES ASSUME Init PROVE PwmInv
    OBVIOUS
  <2>1. DutyInv
    BY DEF Init, DutyInv, DutyOf, InDutyOf, DutySteps
  <2>. QED BY <2>1, PwmInitType, InitModes DEF PwmInv
<1>2. PwmInv /\ [Next]_vars => PwmInv'
  BY PwmNextType, NextModes, NextDuty DEF PwmInv
<1>. QED BY <1>1, <1>2, PTL DEF Spec

(* FansInv: "FS! " tells the real states of the fans that have a PWM for   *)
(* themselves, for any number of fans, PWMs and threads.                   *)
THEOREM FanModesReal == Spec => []FansInv
<1>1. PwmInv => FansInv
  <2>. SUFFICES ASSUME PwmInv, Settled, NEW f \in Fans, Alone(f)
                PROVE  /\ f \in pwmMode => control[PwmOf[f]].zone \in {4, 7}
                       /\ control[PwmOf[f]].zone = 7 => f \in pwmMode
    BY DEF PwmInv, FansInv, ModesReal
  <2>1. PwmOf[f] < scanned
    BY PwmConstants DEF Settled, Alone
  <2>2. f \notin pwmMode => control[PwmOf[f]].zone # 7
    BY <2>1, ConfTypes DEF PwmInv, ModesInv, ModeInv, Settled
  <2>. QED BY <2>1, <2>2 DEF PwmInv, ModesInv, ModeInv, Settled
<1>. QED BY <1>1, PwmInvariant, PTL

(* OriginalRestored: back under automatic control a fan has what the BIOS  *)
(* gave it, or thermal cruise, however often it is switched and by whom.   *)
THEOREM AutomaticControlReturns == Spec => []OriginalRestored
<1>1. PwmInv => OriginalRestored
  <2>. SUFFICES ASSUME PwmInv, Settled, NEW f \in Fans, Alone(f), f \notin pwmMode
                PROVE  \/ control[PwmOf[f]] = original[PwmOf[f]]
                       \/ control[PwmOf[f]] = Cruise /\ original[PwmOf[f]].zone \in {3, 4, 7}
    BY DEF OriginalRestored
  <2>1. PwmOf[f] < scanned
    BY PwmConstants DEF Settled, Alone
  <2>. QED BY <2>1 DEF PwmInv, ModesInv, ModeInv, Settled
<1>. QED BY <1>1, PwmInvariant, PTL

(* DutyApplied: when SetPwmDuty returns the chip has the duty cycle that   *)
(* was asked for, unless the chip has driven the PWM since the last write, *)
(* that write has failed or another call is about the same PWM; whatever   *)
(* the other threads do with the other PWMs and with the modes.            *)
THEOREM DutyIsApplied == Spec => []DutyApplied
<1>1. PwmInv => DutyApplied
  BY DEF PwmInv, TypeOK, DutyInv, DutyOf, DutyApplied
<1>. QED BY <1>1, PwmInvariant, PTL
================================================================================
