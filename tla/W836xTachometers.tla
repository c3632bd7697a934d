--------------------------- MODULE W836xTachometers ---------------------------
(***************************************************************************)
(* The tachometers of W836x.  The chip counts how many ticks a turn of the *)
(* fan takes, in one byte, after it has divided them by 2 ^ offset; the    *)
(* three bits of each fan's offset are spread over five registers.  When a *)
(* reading is used up, updateTachometers reads all counts and moves each   *)
(* offset by one towards counts that use the byte well.  A register is     *)
(* reached by four accesses to two ports: the bank register is selected,   *)
(* the bank written, the register selected, and its byte read or written.  *)
(*                                                                         *)
(* Nothing but device_lock keeps two threads apart, and startPlugin does   *)
(* not hold it; what happens when they do meet is `mixed'.  Callbacks from *)
(* the emulated ports, which do not hold it either, are left out.          *)
(* A byte is the set of its bits.  No fan is faster than 10,547 rpm.       *)
(***************************************************************************)
EXTENDS DeviceLock, Integers

CONSTANTS fanLimit,   \* the tachometers of the chip
          Periods,    \* how many ticks a turn of each fan may take
          MaxHasty,   \* bound: calls that come before the chip has measured
          StartBits,  \* what the BIOS may leave in the divisor registers
          NamedFans   \* the tachometers that the property list names

Fans == 0 .. fanLimit - 1

NoFan == -1

Starter == "startPlugin"

Byte == 0..7

ASSUME TachometerAssumption ==
  /\ fanLimit \in 1..5 /\ MaxHasty \in Nat
  /\ \A p \in Periods, f \in Fans : p[f] \in Nat /\ p[f] >= 128
  /\ StartBits \subseteq [0..4 -> SUBSET Byte] /\ NamedFans \subseteq Fans
  /\ Free \notin Clients \cup Fans \cup {NoFan} /\ Starter \notin Clients

BankSelect == 78

(* Banks and registers: 0, 0, ..., 5 and 0x47, 0x4B, 0x4C, 0x59, 0x5D. *)
Divisor == [i \in 0..4 |-> <<{}, <<71, 75, 76, 89, 93>>[i + 1]>>]

Tachometer == [f \in 0..4 |-> <<<<{}, {}, {}, {}, {0, 2}>>[f + 1], <<40, 41, 42, 63, 83>>[f + 1]>>]

Temperature == <<{0}, 80>>

(* Mutant of DivisorBits: the lower two are confused. *)
ConfusedBits(f) ==
  <<<<37, 39, 31, 9, 11>>[f + 1], <<36, 38, 30, 8, 10>>[f + 1], <<5, 6, 7, 23, 15>>[f + 1]>>

(* The bits of the offset of each fan among all 40, the lowest first ... *)
DivisorBits(f) ==
  <<<<36, 38, 30, 8, 10>>[f + 1], <<37, 39, 31, 9, 11>>[f + 1], <<5, 6, 7, 23, 15>>[f + 1]>>

(* ... and where the chip has them: registers and bits. *)
ChipBits(f) ==
  << << <<0, 4>>, <<0, 5>>, <<4, 5>> >>, << <<0, 6>>, <<0, 7>>, <<4, 6>> >>,
     << <<1, 6>>, <<1, 7>>, <<4, 7>> >>, << <<3, 0>>, <<3, 1>>, <<2, 7>> >>,
     << <<3, 2>>, <<3, 3>>, <<3, 7>> >> >>[f + 1]

OffsetBits == {ChipBits(f)[n] : f \in Fans, n \in 1..3}

Threads == Clients \cup {Starter}

VARIABLES
  chipBank, chipIndex,   \* what is selected in the chip
  divisorReg,            \* the five divisor registers
  period,                \* ticks that a turn of each fan takes
  measured,              \* the offset in force when the chip measured last
  fanValue, fanValueObsolete,
  job,                   \* what each thread does
  keyed,                 \* the fans with keys
  biosBits,              \* history: the divisor registers before the start
  calm,                  \* history: how many updates in a row have met counts
                         \* that had been measured with the present offsets
  hasty,                 \* how many calls came before the chip had measured
  mixed                  \* history: a client came while startPlugin was reading

chipVars == <<chipBank, chipIndex, divisorReg>>
valueVars == <<fanValue, fanValueObsolete, calm>>
tachometerVars == <<chipVars, period, measured, valueVars, job, keyed, biosBits, hasty, mixed>>
w836xVars == <<tachometerVars, deviceLock>>

Bit(b) == IF b THEN 1 ELSE 0

OffsetOf(f) ==
  LET At(n) == Bit(ChipBits(f)[n][2] \in divisorReg[ChipBits(f)[n][1]]) IN At(1) + 2 * At(2) + 4 * At(3)

(* What a job accesses next.  updateTachometers reads the five divisors,   *)
(* then the counts of all fans, and writes the divisors that change.       *)
Done == <<"none", 0>>

Accesses == {Done, <<"temperature", 0>>} \cup ({"divisor", "write"} \X (0..4)) \cup ({"count"} \X Fans)

Address(a) == IF a[1] = "count" THEN Tachometer[a[2]]
              ELSE IF a[1] = "temperature" THEN Temperature ELSE Divisor[a[2]]

Jobs == [wants : Fans \cup {NoFan, Free}, phase : 0..3, access : Accesses,
         bits : SUBSET (0..39), newBits : SUBSET (0..39)]

Idle == [wants |-> Free, phase |-> 0, access |-> Done, bits |-> {}, newBits |-> {}]

Wanting(w, first) == [Idle EXCEPT !.wants = w, !.access = first]
--------------------------------------------------------------------------------
TachometerInit ==
  /\ chipBank = {} /\ chipIndex = 0
  /\ biosBits \in StartBits /\ divisorReg = biosBits
  /\ period \in Periods
  /\ measured = [f \in Fans |-> OffsetOf(f)]
  /\ fanValue = [f \in Fans |-> 0] /\ fanValueObsolete = [f \in Fans |-> TRUE]
  /\ job = [t \in Threads |-> IF t = Starter THEN Wanting(NoFan, <<"divisor", 0>>) ELSE Idle]
  /\ keyed = {} /\ calm = 0
  /\ hasty = 0 /\ mixed = FALSE /\ deviceLock = Free

(* The chip has measured its fans with the present offsets. *)
Measured == measured = [f \in Fans |-> OffsetOf(f)]

ChipMeasures ==
  /\ ~Measured
  /\ measured' = [f \in Fans |-> OffsetOf(f)]
  /\ UNCHANGED <<chipVars, period, valueVars, job, keyed, biosBits, hasty, mixed, deviceLock>>

(* 1 << offset *)
DivisorAt(offset) == <<1, 2, 4, 8, 16, 32, 64, 128>>[offset + 1]

Count(f) == LET c == period[f] \div DivisorAt(measured[f]) IN IF c > 255 THEN 255 ELSE c

(* The callbacks for the key of a fan and for that of a temperature. *)
CallForKey(c) ==
  /\ job[c].wants = Free /\ LockDevice(c)
  /\ \/ \E f \in keyed :
          job' = [job EXCEPT ![c] = Wanting(f, IF fanValueObsolete[f] THEN <<"divisor", 0>> ELSE Done)]
     \/ job' = [job EXCEPT ![c] = Wanting(NoFan, <<"temperature", 0>>)]
  /\ hasty' = IF Measured THEN hasty ELSE hasty + 1
  /\ hasty' <= MaxHasty
  /\ mixed' = (mixed \/ job[Starter].wants # Free)
  /\ UNCHANGED <<chipVars, period, measured, valueVars, keyed, biosBits>>

Accessing(t, phase) ==
  /\ job[t].access # Done /\ job[t].phase = phase
  /\ UNCHANGED <<period, measured, keyed, biosBits, hasty, mixed, deviceLock>>

(* The first and the third access. *)
SelectRegister(t) ==
  /\ \/ Accessing(t, 0) /\ chipIndex' = BankSelect
     \/ Accessing(t, 2) /\ chipIndex' = Address(job[t].access)[2]
  /\ job' = [job EXCEPT ![t].phase = @ + 1]
  /\ UNCHANGED <<chipBank, divisorReg, valueVars>>

(* A byte goes to what is selected. *)
PutByte(v) ==
  /\ chipBank' = IF chipIndex = BankSelect THEN v ELSE chipBank
  /\ divisorReg' = [i \in 0..4 |-> IF Divisor[i] = <<chipBank, chipIndex>> THEN v ELSE divisorReg[i]]
  /\ UNCHANGED chipIndex

WriteBank(t) ==
  /\ Accessing(t, 1)
  /\ PutByte(Address(job[t].access)[1])
  /\ job' = [job EXCEPT ![t].phase = 2]
  /\ UNCHANGED valueVars

(* Any byte if the divisor register is no longer selected. *)
BytesRead ==
  LET selected == {i \in 0..4 : Divisor[i] = <<chipBank, chipIndex>>}
  IN IF selected = {} THEN {{}, Byte} ELSE {divisorReg[i] : i \in selected}

ReadDivisor(t) ==
  /\ Accessing(t, 3) /\ job[t].access[1] = "divisor"
  /\ \E v \in BytesRead :
       LET i == job[t].access[2]
           bits == {b + 8 : b \in job[t].bits} \cup v
       IN job' = [job EXCEPT ![t] = [@ EXCEPT !.phase = 0, !.bits = bits, !.newBits = bits,
                    !.access = IF i < 4 THEN <<"divisor", i + 1>> ELSE <<"count", 0>>]]
  /\ UNCHANGED <<chipVars, valueVars>>

(* Mutant of Moved: 96 counts as too small. *)
MovedAt97(c, offset) ==
  IF c > 192 /\ offset < 7 THEN offset + 1 ELSE IF c < 97 /\ offset > 0 THEN offset - 1 ELSE offset

Moved(c, offset) ==
  IF c > 192 /\ offset < 7 THEN offset + 1 ELSE IF c < 96 /\ offset > 0 THEN offset - 1 ELSE offset

(* setBit, for the three bits of a fan. *)
WithOffset(bits, f, offset) ==
  LET mine == DivisorBits(f)
  IN (bits \ {mine[n] : n \in 1..3})
       \cup {mine[n] : n \in {m \in 1..3 : (offset \div <<1, 2, 4>>[m]) % 2 = 1}}

OffsetIn(bits, f) ==
  LET At(n) == Bit(DivisorBits(f)[n] \in bits) IN At(1) + 2 * At(2) + 4 * At(3)

(* Mutant of ByteOf: the higher bytes are not masked. *)
Shifted(bits, i) == {b - 8 * (4 - i) : b \in {x \in bits : x >= 8 * (4 - i)}}

ByteOf(bits, i) == {b \in Byte : b + 8 * (4 - i) \in bits}

(* The registers that change, the last one first. *)
WriteBelow(i, bits, newBits) ==
  LET changed == {j \in 0..4 : j < i /\ ByteOf(bits, j) # ByteOf(newBits, j)}
  IN IF changed = {} THEN Done
     ELSE <<"write", CHOOSE j \in changed : \A k \in changed : k <= j>>

(* In 16 bits. *)
FanValues == {v \in Nat : v < 65536}

Speed(ticks) == (1350000 \div ticks) % 65536

(* 0 when the count is at its end. *)
ReadCount(t) ==
  /\ Accessing(t, 3) /\ job[t].access[1] = "count"
  /\ LET f == job[t].access[2]
         bits == job[t].bits
         offset == OffsetIn(bits, f)
     IN \E c \in IF Tachometer[f] = <<chipBank, chipIndex>> THEN {Count(f)} ELSE {128, 255} :
          LET newBits == WithOffset(job[t].newBits, f, Moved(c, offset))
          IN /\ fanValue' = [fanValue EXCEPT ![f] = IF c < 255 THEN Speed(c * DivisorAt(offset)) ELSE 0]
             /\ fanValueObsolete' = [fanValueObsolete EXCEPT ![f] = FALSE]
             /\ calm' = IF measured[f] # OffsetOf(f) THEN -1 ELSE IF f = fanLimit - 1 /\ calm < 8 THEN calm + 1 ELSE calm
             /\ job' = [job EXCEPT ![t] =
                  [@ EXCEPT !.phase = 0, !.newBits = newBits,
                            !.access = IF f < fanLimit - 1 THEN <<"count", f + 1>>
                                       ELSE WriteBelow(5, bits, newBits)]]
  /\ UNCHANGED chipVars

WriteDivisor(t) ==
  /\ Accessing(t, 3) /\ job[t].access[1] = "write"
  /\ PutByte(ByteOf(job[t].newBits, job[t].access[2]))
  /\ job' = [job EXCEPT ![t] = [@ EXCEPT !.phase = 0,
               !.access = WriteBelow(job[t].access[2], job[t].bits, job[t].newBits)]]
  /\ UNCHANGED valueVars

ReadTemperature(t) ==
  /\ Accessing(t, 3) /\ job[t].access[1] = "temperature"
  /\ job' = [job EXCEPT ![t] = [@ EXCEPT !.phase = 0, !.access = Done]]
  /\ UNCHANGED <<chipVars, valueVars>>

(* A reading serves one call. *)
ReturnReading(c) ==
  /\ job[c].wants # Free /\ job[c].access = Done
  /\ fanValueObsolete' = [f \in Fans |-> fanValueObsolete[f] \/ job[c].wants = f]
  /\ job' = [job EXCEPT ![c] = Idle]
  /\ UnlockDevice
  /\ UNCHANGED <<chipVars, period, measured, fanValue, calm, keyed, biosBits, hasty, mixed>>

(* startPlugin reads every fan, which are not obsolete, so that no port is *)
(* accessed; those that turn or have a name get a key.                     *)
AddTachometers ==
  /\ job[Starter].wants # Free /\ job[Starter].access = Done
  /\ keyed' = {f \in Fans : fanValue[f] > 10 \/ f \in NamedFans}
  /\ fanValueObsolete' = [f \in Fans |-> TRUE]
  /\ job' = [job EXCEPT ![Starter] = Idle]
  /\ UNCHANGED <<chipVars, period, measured, fanValue, calm, biosBits, hasty, mixed, deviceLock>>
--------------------------------------------------------------------------------
Access(t) ==
  \/ SelectRegister(t) \/ WriteBank(t) \/ ReadDivisor(t) \/ ReadCount(t)
  \/ WriteDivisor(t) \/ ReadTemperature(t)

(* Constraint of the runs: what comes after a mixed access is not followed. *)
Unmixed == ~mixed

TachometerNext ==
  \/ ChipMeasures
  \/ \E c \in Clients : CallForKey(c) \/ ReturnReading(c)
  \/ \E t \in Threads : Access(t)
  \/ AddTachometers

TachometerSpec == TachometerInit /\ [][TachometerNext]_w836xVars
--------------------------------------------------------------------------------
TachometerTypeOK ==
  /\ chipBank \in SUBSET Byte /\ chipIndex \in 0..255
  /\ {divisorReg, biosBits} \subseteq [0..4 -> SUBSET Byte]
  /\ measured \in [Fans -> 0..7]
  /\ fanValue \in [Fans -> FanValues] /\ fanValueObsolete \in [Fans -> BOOLEAN]
  /\ keyed \subseteq Fans /\ calm \in -1 .. 8 /\ hasty \in 0..MaxHasty /\ mixed \in BOOLEAN
  /\ job \in [Threads -> Jobs]

(* The five registers hold settings of the BIOS besides the offsets: the   *)
(* updates put those bits back as they were.                               *)
OtherBitsKept ==
  ~mixed => \A i \in 0..4, b \in Byte :
    <<i, b>> \notin OffsetBits => (b \in divisorReg[i] <=> b \in biosBits[i])

(* After eight calm updates an offset is where it belongs: the next ones   *)
(* leave it there, as 96 and 192 are far enough apart.                     *)
OffsetsSettle ==
  [][\A f \in Fans : ~mixed /\ calm = 8 /\ calm' = 8 => OffsetOf(f)' = OffsetOf(f)]_w836xVars

(* Then a reading is right to one part in 96, and it is 0 only for a fan   *)
(* that the chip cannot follow.                                            *)
SettledReading ==
  \A c \in Clients, f \in Fans :
    ~mixed /\ job[c].wants = f /\ job[c].access = Done /\ calm = 8 =>
      IF fanValue[f] = 0 THEN period[f] >= 255 * 128
      ELSE LET speed == Speed(period[f])
           IN speed <= fanValue[f] /\ 96 * (fanValue[f] - speed - 1) <= speed + 1
================================================================================
