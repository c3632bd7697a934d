-------------------------- MODULE SuperIOFans_proofs ---------------------------
(***************************************************************************)
(* Proofs about the fans of Super I/O chips: W836xTachometers measures     *)
(* them, for every number of fans and of ticks that a turn of them takes,  *)
(* whatever the BIOS has left in the registers; SmartGuardian controls     *)
(* them, for any number of fans and controllers and any wiring, and        *)
(* FanSettings is about the registers of one controller.                   *)
(***************************************************************************)
EXTENDS W836xTachometers, SmartGuardian, FanSettings, FiniteSetTheorems, TLAPS

(* The constants, as the proofs below need them.                           *)
LEMMA FanRange ==
  /\ fanLimit \in 1..5 /\ MaxHasty \in Nat
  /\ Fans = 0 .. fanLimit - 1 /\ Fans \subseteq 0..4 /\ 0 \in Fans /\ fanLimit - 1 \in Fans
<1>1. fanLimit \in 1..5 /\ MaxHasty \in Nat
  BY TachometerAssumption
<1>. QED BY <1>1 DEF Fans

(* Five registers of bank 0, all different, none of them the bank's own.   *)
LEMMA DivisorTable ==
  /\ \A i \in 0..4 : /\ Divisor[i] = <<{}, Divisor[i][2]>>
                     /\ Divisor[i][1] = {} /\ Divisor[i][2] \in 0..255 \ {BankSelect}
  /\ \A i, j \in 0..4 : Divisor[i][2] = Divisor[j][2] => i = j
<1>1. \A i \in 0..4 : Divisor[i] = <<{}, <<71, 75, 76, 89, 93>>[i + 1]>>
  BY DEF Divisor
<1>2. /\ Divisor[0] = <<{}, 71>> /\ Divisor[1] = <<{}, 75>> /\ Divisor[2] = <<{}, 76>>
      /\ Divisor[3] = <<{}, 89>> /\ Divisor[4] = <<{}, 93>>
  BY <1>1
<1>3. \A i \in 0..4 : i = 0 \/ i = 1 \/ i = 2 \/ i = 3 \/ i = 4
  OBVIOUS
<1>. QED BY <1>2, <1>3 DEF BankSelect

LEMMA TachometerTable ==
  \A f \in 0..4 : /\ Tachometer[f] = <<Tachometer[f][1], Tachometer[f][2]>>
                  /\ Tachometer[f][1] \in SUBSET Byte
                  /\ Tachometer[f][2] \in 0..255 \ {BankSelect}
<1>1. /\ Tachometer[0] = <<{}, 40>> /\ Tachometer[1] = <<{}, 41>> /\ Tachometer[2] = <<{}, 42>>
      /\ Tachometer[3] = <<{}, 63>> /\ Tachometer[4] = <<{0, 2}, 83>>
  BY DEF Tachometer
<1>2. \A f \in 0..4 : f = 0 \/ f = 1 \/ f = 2 \/ f = 3 \/ f = 4
  OBVIOUS
<1>. QED BY <1>1, <1>2 DEF BankSelect, Byte

LEMMA BitTable ==
  /\ DivisorBits(0) = <<36, 37, 5>> /\ DivisorBits(1) = <<38, 39, 6>>
  /\ DivisorBits(2) = <<30, 31, 7>> /\ DivisorBits(3) = <<8, 9, 23>>
  /\ DivisorBits(4) = <<10, 11, 15>>
BY DEF DivisorBits

(* The driver's table says the same as the chip's.                         *)
LEMMA BitsAgree ==
  \A f \in 0..4, n \in 1..3 :
    /\ DivisorBits(f)[n] \in 0..39
    /\ ChipBits(f)[n][1] \in 0..4 /\ ChipBits(f)[n][2] \in Byte
    /\ ChipBits(f)[n] = <<ChipBits(f)[n][1], ChipBits(f)[n][2]>>
    /\ DivisorBits(f)[n] = ChipBits(f)[n][2] + 8 * (4 - ChipBits(f)[n][1])
<1>1. /\ ChipBits(0) = <<<<0, 4>>, <<0, 5>>, <<4, 5>>>> /\ ChipBits(1) = <<<<0, 6>>, <<0, 7>>, <<4, 6>>>>
      /\ ChipBits(2) = <<<<1, 6>>, <<1, 7>>, <<4, 7>>>> /\ ChipBits(3) = <<<<3, 0>>, <<3, 1>>, <<2, 7>>>>
      /\ ChipBits(4) = <<<<3, 2>>, <<3, 3>>, <<3, 7>>>>
  BY DEF ChipBits
<1>2. ASSUME NEW f \in 0..4, NEW n \in 1..3
      PROVE  /\ DivisorBits(f)[n] \in 0..39
             /\ ChipBits(f)[n][1] \in 0..4 /\ ChipBits(f)[n][2] \in Byte
             /\ ChipBits(f)[n] = <<ChipBits(f)[n][1], ChipBits(f)[n][2]>>
             /\ DivisorBits(f)[n] = ChipBits(f)[n][2] + 8 * (4 - ChipBits(f)[n][1])
  <2>1. CASE f = 0 BY <1>1, <2>1, BitTable DEF Byte
  <2>2. CASE f = 1 BY <1>1, <2>2, BitTable DEF Byte
  <2>3. CASE f = 2 BY <1>1, <2>3, BitTable DEF Byte
  <2>4. CASE f = 3 BY <1>1, <2>4, BitTable DEF Byte
  <2>5. CASE f = 4 BY <1>1, <2>5, BitTable DEF Byte
  <2>. QED BY <2>1, <2>2, <2>3, <2>4, <2>5
<1>. QED BY <1>2

(* No bit belongs to two offsets, and none twice to one.                   *)
LEMMA BitsApart ==
  \A f, g \in 0..4, m, n \in 1..3 : DivisorBits(f)[n] = DivisorBits(g)[m] => f = g /\ n = m
<1>1. ASSUME NEW f \in 0..4, NEW g \in 0..4, NEW m \in 1..3, NEW n \in 1..3,
             DivisorBits(f)[n] = DivisorBits(g)[m]
      PROVE  f = g /\ n = m
  <2>1. CASE f = 0 BY <1>1, <2>1, BitTable
  <2>2. CASE f = 1 BY <1>1, <2>2, BitTable
  <2>3. CASE f = 2 BY <1>1, <2>3, BitTable
  <2>4. CASE f = 3 BY <1>1, <2>4, BitTable
  <2>5. CASE f = 4 BY <1>1, <2>5, BitTable
  <2>. QED BY <2>1, <2>2, <2>3, <2>4, <2>5
<1>. QED BY <1>1

Offsets == 0..7

LEMMA OffsetTypes ==
  /\ \A f \in Fans : OffsetOf(f) \in Offsets
  /\ \A f \in Fans : \A bits : OffsetIn(bits, f) \in Offsets
BY DEF OffsetOf, OffsetIn, Bit, Offsets

(* The bits of an offset.                                                  *)
LEMMA OffsetFromBits ==
  \A o \in Offsets : Bit(o % 2 = 1) + 2 * Bit((o \div 2) % 2 = 1) + 4 * Bit((o \div 4) % 2 = 1) = o
<1>1. ASSUME NEW o \in Offsets
      PROVE Bit(o % 2 = 1) + 2 * Bit((o \div 2) % 2 = 1) + 4 * Bit((o \div 4) % 2 = 1) = o
  <2>1. o = 0 \/ o = 1 \/ o = 2 \/ o = 3 \/ o = 4 \/ o = 5 \/ o = 6 \/ o = 7
    BY DEF Offsets
  <2>. QED BY <2>1 DEF Bit
<1>. QED BY <1>1

LEMMA BitsFromOffset ==
  \A a, b, c \in BOOLEAN :
    LET o == Bit(a) + 2 * Bit(b) + 4 * Bit(c)
    IN (o % 2 = 1 <=> a) /\ ((o \div 2) % 2 = 1 <=> b) /\ ((o \div 4) % 2 = 1 <=> c)
<1>1. ASSUME NEW a \in BOOLEAN, NEW b \in BOOLEAN, NEW c \in BOOLEAN
      PROVE LET o == Bit(a) + 2 * Bit(b) + 4 * Bit(c)
            IN (o % 2 = 1 <=> a) /\ ((o \div 2) % 2 = 1 <=> b) /\ ((o \div 4) % 2 = 1 <=> c)
  <2>1. CASE a /\ b /\ c BY <2>1 DEF Bit
  <2>2. CASE a /\ b /\ ~c BY <2>2 DEF Bit
  <2>3. CASE a /\ ~b /\ c BY <2>3 DEF Bit
  <2>4. CASE a /\ ~b /\ ~c BY <2>4 DEF Bit
  <2>5. CASE ~a /\ b /\ c BY <2>5 DEF Bit
  <2>6. CASE ~a /\ b /\ ~c BY <2>6 DEF Bit
  <2>7. CASE ~a /\ ~b /\ c BY <2>7 DEF Bit
  <2>8. CASE ~a /\ ~b /\ ~c BY <2>8 DEF Bit
  <2>. QED BY <2>1, <2>2, <2>3, <2>4, <2>5, <2>6, <2>7, <2>8
<1>. QED BY <1>1

Mine(f) == {DivisorBits(f)[n] : n \in 1..3}

(* setBit sets the three bits of a fan and leaves the others.              *)
LEMMA WithOffsetBits ==
  \A f \in Fans, o \in Offsets : \A bits :
    /\ \A n \in 1..3 : DivisorBits(f)[n] \in WithOffset(bits, f, o) <=> (o \div <<1, 2, 4>>[n]) % 2 = 1
    /\ \A b : b \notin Mine(f) => (b \in WithOffset(bits, f, o) <=> b \in bits)
<1>. SUFFICES ASSUME NEW f \in Fans, NEW o \in Offsets, NEW bits
     PROVE  /\ \A n \in 1..3 : DivisorBits(f)[n] \in WithOffset(bits, f, o) <=> (o \div <<1, 2, 4>>[n]) % 2 = 1
            /\ \A b : b \notin Mine(f) => (b \in WithOffset(bits, f, o) <=> b \in bits)
  OBVIOUS
<1>1. \A b : b \in WithOffset(bits, f, o) <=>
              \/ b \in bits /\ b \notin Mine(f)
              \/ \E m \in 1..3 : (o \div <<1, 2, 4>>[m]) % 2 = 1 /\ b = DivisorBits(f)[m]
  BY DEF WithOffset, Mine
<1>2. \A n, m \in 1..3 : DivisorBits(f)[n] = DivisorBits(f)[m] => n = m
  BY FanRange, BitsApart
<1>3. \A n \in 1..3 : DivisorBits(f)[n] \in Mine(f)
  BY DEF Mine
<1>4. ASSUME NEW n \in 1..3
      PROVE  DivisorBits(f)[n] \in WithOffset(bits, f, o) <=> (o \div <<1, 2, 4>>[n]) % 2 = 1
  BY <1>1, <1>2, <1>3, <1>4
<1>5. \A b : b \notin Mine(f) => (b \in WithOffset(bits, f, o) <=> b \in bits)
  BY <1>1, <1>3
<1>. QED BY <1>4, <1>5

(* An offset that is written is read back, ...                             *)
LEMMA OffsetWritten ==
  \A f \in Fans, o \in Offsets : \A bits : OffsetIn(WithOffset(bits, f, o), f) = o
<1>. SUFFICES ASSUME NEW f \in Fans, NEW o \in Offsets, NEW bits
     PROVE  OffsetIn(WithOffset(bits, f, o), f) = o
  OBVIOUS
<1>. DEFINE new == WithOffset(bits, f, o)
<1>1. /\ DivisorBits(f)[1] \in new <=> (o \div 1) % 2 = 1
      /\ DivisorBits(f)[2] \in new <=> (o \div 2) % 2 = 1
      /\ DivisorBits(f)[3] \in new <=> (o \div 4) % 2 = 1
  BY WithOffsetBits
<1>2. o \div 1 = o
  BY DEF Offsets
<1>3. OffsetIn(new, f) = Bit(o % 2 = 1) + 2 * Bit((o \div 2) % 2 = 1) + 4 * Bit((o \div 4) % 2 = 1)
  BY <1>1, <1>2 DEF OffsetIn, Bit
<1>. QED BY <1>3, OffsetFromBits

(* ... those of the other fans are as before, ...                          *)
LEMMA OthersUntouched ==
  \A f, g \in Fans, o \in Offsets : \A bits : f # g => OffsetIn(WithOffset(bits, f, o), g) = OffsetIn(bits, g)
<1>. SUFFICES ASSUME NEW f \in Fans, NEW g \in Fans, NEW o \in Offsets, NEW bits, f # g
     PROVE  OffsetIn(WithOffset(bits, f, o), g) = OffsetIn(bits, g)
  OBVIOUS
<1>1. \A n \in 1..3 : DivisorBits(g)[n] \notin Mine(f)
  BY FanRange, BitsApart DEF Mine
<1>2. \A n \in 1..3 : DivisorBits(g)[n] \in WithOffset(bits, f, o) <=> DivisorBits(g)[n] \in bits
  BY <1>1, WithOffsetBits
<1>. QED BY <1>2 DEF OffsetIn, Bit

(* ... and writing the offset that is there changes nothing.               *)
LEMMA SameOffset ==
  \A f \in Fans : \A bits : WithOffset(bits, f, OffsetIn(bits, f)) = bits
<1>. SUFFICES ASSUME NEW f \in Fans, NEW bits
     PROVE  WithOffset(bits, f, OffsetIn(bits, f)) = bits
  OBVIOUS
<1>. DEFINE o == OffsetIn(bits, f)
            new == WithOffset(bits, f, o)
            B(n) == DivisorBits(f)[n] \in bits
<1>1. o \in Offsets
  BY OffsetTypes
<1>2. /\ DivisorBits(f)[1] \in new <=> (o \div 1) % 2 = 1
      /\ DivisorBits(f)[2] \in new <=> (o \div 2) % 2 = 1
      /\ DivisorBits(f)[3] \in new <=> (o \div 4) % 2 = 1
      /\ \A b : b \notin Mine(f) => (b \in new <=> b \in bits)
  BY <1>1, WithOffsetBits
<1>3. o \div 1 = o
  BY <1>1 DEF Offsets
<1>4. o = Bit(B(1)) + 2 * Bit(B(2)) + 4 * Bit(B(3))
  BY DEF OffsetIn
<1>5. (o % 2 = 1 <=> B(1)) /\ ((o \div 2) % 2 = 1 <=> B(2)) /\ ((o \div 4) % 2 = 1 <=> B(3))
  <2>1. B(1) \in BOOLEAN /\ B(2) \in BOOLEAN /\ B(3) \in BOOLEAN
    OBVIOUS
  <2>. HIDE DEF o, B
  <2>. QED BY <1>4, <2>1, BitsFromOffset
<1>6. \A b : b \in Mine(f) => (b \in new <=> b \in bits)
  <2>1. \A b : b \in Mine(f) <=> b = DivisorBits(f)[1] \/ b = DivisorBits(f)[2] \/ b = DivisorBits(f)[3]
    BY DEF Mine
  <2>. HIDE DEF o, new
  <2>. QED BY <1>2, <1>3, <1>5, <2>1
<1>. HIDE DEF o, new, B
<1>7. \A b : b \in new <=> b \in bits
  BY <1>2, <1>6
<1>8. new = bits
  BY <1>7
<1>. QED BY <1>8 DEF new, o

LEMMA WithOffsetType ==
  \A f \in Fans, o \in Offsets, bits \in SUBSET (0..39) : WithOffset(bits, f, o) \in SUBSET (0..39)
<1>1. \A f \in Fans, n \in 1..3 : DivisorBits(f)[n] \in 0..39
  BY FanRange, BitsAgree
<1>. QED BY <1>1 DEF WithOffset

(* What has been read of the registers, the first k of them.               *)
ReadSoFar(bits, k) ==
  /\ bits \in SUBSET (0 .. 8 * k - 1)
  /\ \A i \in 0..4, b \in Byte : i < k => (b + 8 * (k - 1 - i) \in bits <=> b \in divisorReg[i])

(* After five reads the bits are those in the registers.                   *)
LEMMA AllRead ==
  ASSUME NEW bits, divisorReg \in [0..4 -> SUBSET Byte], ReadSoFar(bits, 5)
  PROVE  \A i \in 0..4 : ByteOf(bits, i) = divisorReg[i]
<1>. SUFFICES ASSUME NEW i \in 0..4 PROVE ByteOf(bits, i) = divisorReg[i]
  OBVIOUS
<1>1. \A b \in Byte : b + 8 * (4 - i) \in bits <=> b \in divisorReg[i]
  BY DEF ReadSoFar
<1>2. divisorReg[i] \subseteq Byte
  OBVIOUS
<1>. QED BY <1>1, <1>2 DEF ByteOf

Turning == {p \in Nat : p >= 128}

CountAt(p, o) == LET c == p \div DivisorAt(o) IN IF c > 255 THEN 255 ELSE c

ValueAt(p, o) == IF CountAt(p, o) < 255 THEN Speed(CountAt(p, o) * DivisorAt(o)) ELSE 0

(* An offset that still has to rise, or to fall, has done k steps of it.   *)
OnItsWay(p, o, k) ==
  /\ CountAt(p, o) > 192 /\ o < 7 => o >= k
  /\ CountAt(p, o) < 96 /\ o > 0 => 7 - o >= k

LEMMA DivisorTableAt ==
  /\ DivisorAt(0) = 1 /\ DivisorAt(1) = 2 /\ DivisorAt(2) = 4 /\ DivisorAt(3) = 8
  /\ DivisorAt(4) = 16 /\ DivisorAt(5) = 32 /\ DivisorAt(6) = 64 /\ DivisorAt(7) = 128
BY DEF DivisorAt

LEMMA EachOffset ==
  \A o \in Offsets : o = 0 \/ o = 1 \/ o = 2 \/ o = 3 \/ o = 4 \/ o = 5 \/ o = 6 \/ o = 7
BY DEF Offsets

LEMMA CountType ==
  \A p \in Turning, o \in Offsets : CountAt(p, o) \in 1..255 /\ DivisorAt(o) \in 1..128
<1>1. ASSUME NEW p \in Turning, NEW o \in Offsets
      PROVE  CountAt(p, o) \in 1..255 /\ DivisorAt(o) \in 1..128
  BY EachOffset, DivisorTableAt DEF CountAt, Turning
<1>. QED BY <1>1

LEMMA MovedType ==
  \A c \in 0..255, o \in Offsets : Moved(c, o) \in Offsets
BY DEF Moved, Offsets

(* The next offset halves the count, the one before doubles it.            *)
LEMMA NextCount ==
  ASSUME NEW p \in Turning, NEW o \in 0..6
  PROVE  LET c == CountAt(p, o) d == CountAt(p, o + 1)
         IN /\ c > 192 => d >= 96
            /\ d < 96 => c <= 191 /\ c # 255
<1>0. p \in Nat
  BY DEF Turning
<1>1. CASE o = 0 BY <1>0, <1>1, DivisorTableAt DEF CountAt
<1>2. CASE o = 1 BY <1>0, <1>2, DivisorTableAt DEF CountAt
<1>3. CASE o = 2 BY <1>0, <1>3, DivisorTableAt DEF CountAt
<1>4. CASE o = 3 BY <1>0, <1>4, DivisorTableAt DEF CountAt
<1>5. CASE o = 4 BY <1>0, <1>5, DivisorTableAt DEF CountAt
<1>6. CASE o = 5 BY <1>0, <1>6, DivisorTableAt DEF CountAt
<1>7. CASE o = 6 BY <1>0, <1>7, DivisorTableAt DEF CountAt
<1>. QED BY <1>1, <1>2, <1>3, <1>4, <1>5, <1>6, <1>7

(* What updateTachometers does to an offset brings it one step closer, ... *)
LEMMA OneCloser ==
  ASSUME NEW p \in Turning, NEW o \in Offsets, NEW k \in Int, OnItsWay(p, o, k)
  PROVE  OnItsWay(p, Moved(CountAt(p, o), o), k + 1)
<1>. DEFINE c == CountAt(p, o)
<1>0. c \in 1..255 /\ o \in 0..7
  BY CountType DEF Offsets
<1>1. CASE c > 192 /\ o < 7
  <2>1. Moved(c, o) = o + 1
    BY <1>1 DEF Moved
  <2>2. CountAt(p, o + 1) >= 96
    BY <1>0, <1>1, NextCount
  <2>3. o >= k
    BY <1>1 DEF OnItsWay
  <2>4. CountAt(p, o + 1) \in Int
    BY <1>0, <1>1, CountType DEF Offsets
  <2>. HIDE DEF c
  <2>. QED BY <1>0, <1>1, <2>1, <2>2, <2>3, <2>4 DEF OnItsWay, c
<1>2. CASE c < 96 /\ o > 0
  <2>1. Moved(c, o) = o - 1
    BY <1>0, <1>2 DEF Moved
  <2>2. CountAt(p, o - 1) <= 191
    <3>1. o - 1 \in 0..6 /\ (o - 1) + 1 = o
      BY <1>0, <1>2
    <3>. QED BY <1>2, <3>1, NextCount
  <2>3. 7 - o >= k
    BY <1>2 DEF OnItsWay
  <2>4. CountAt(p, o - 1) \in Int
    BY <1>0, <1>2, CountType DEF Offsets
  <2>. HIDE DEF c
  <2>. QED BY <1>0, <1>2, <2>1, <2>2, <2>3, <2>4 DEF OnItsWay, c
<1>3. CASE ~(c > 192 /\ o < 7) /\ ~(c < 96 /\ o > 0)
  BY <1>3 DEF Moved, OnItsWay
<1>. QED BY <1>1, <1>2, <1>3

(* ... and after seven steps it is there.                                  *)
LEMMA Arrived ==
  ASSUME NEW p \in Turning, NEW o \in Offsets, NEW k \in Int, k >= 7, OnItsWay(p, o, k)
  PROVE  Moved(CountAt(p, o), o) = o
BY DEF OnItsWay, Moved, Offsets

LEMMA Quotient ==
  ASSUME NEW n \in Nat, NEW d \in Nat, d > 0
  PROVE  n \div d \in Nat /\ d * (n \div d) <= n /\ n < d * (n \div d + 1)
OBVIOUS

(* How far a quotient can be off when the divisor has been rounded.        *)
LEMMA ReadingsClose ==
  ASSUME NEW n \in Nat, NEW c \in Nat, NEW q \in Nat, NEW p \in Nat, c >= 96, q > 0,
         q * c <= p, p < q * (c + 1)
  PROVE  n \div p <= n \div (c * q) /\ 96 * (n \div (c * q) - n \div p - 1) <= n \div p + 1
<1>. DEFINE v == n \div (c * q)
            s == n \div p
<1>1. c * q \in Nat /\ c * q > 0 /\ c * q = q * c
  OBVIOUS
<1>2. p > 0 /\ c * q <= p
  BY <1>1
<1>3. v \in Nat /\ c * q * v <= n /\ n < c * q * (v + 1)
  BY <1>1, Quotient
<1>4. s \in Nat /\ p * s <= n /\ n < p * (s + 1)
  BY <1>2, Quotient
<1>. HIDE DEF v, s
<1>5. s <= v
  <2>1. c * q * s <= p * s
    BY <1>1, <1>2, <1>4
  <2>2. c * q * s < c * q * (v + 1)
    BY <1>1, <1>3, <1>4, <2>1
  <2>3. s < v + 1
    BY <1>1, <1>3, <1>4, <2>2
  <2>. QED BY <1>3, <1>4, <2>3
<1>6. 96 * (v - s - 1) <= s + 1
  <2>1. p * (s + 1) <= q * (c + 1) * (s + 1)
    BY <1>4
  <2>2. c * q * v < q * (c + 1) * (s + 1)
    BY <1>1, <1>3, <1>4, <2>1
  <2>3. c * v < (c + 1) * (s + 1)
    <3>1. c * q * v = q * (c * v) /\ q * (c + 1) * (s + 1) = q * ((c + 1) * (s + 1))
      BY <1>3, <1>4
    <3>2. c * v \in Nat /\ (c + 1) * (s + 1) \in Nat
      BY <1>3, <1>4
    <3>. QED BY <2>2, <3>1, <3>2
  <2>4. c * (v - s - 1) < s + 1
    BY <1>3, <1>4, <2>3
  <2>5. CASE v - s - 1 >= 0
    <3>1. 96 * (v - s - 1) <= c * (v - s - 1)
      BY <1>3, <1>4, <2>5
    <3>. QED BY <1>3, <1>4, <2>4, <3>1
  <2>6. CASE v - s - 1 < 0
    BY <1>3, <1>4, <2>6
  <2>. QED BY <1>3, <1>4, <2>5, <2>6
<1>. QED BY <1>5, <1>6 DEF v, s

(* No fan is so fast that its speed does not fit into 16 bits.             *)
LEMMA NoWrap ==
  ASSUME NEW ticks \in Nat, ticks >= 64
  PROVE  Speed(ticks) = 1350000 \div ticks /\ (ticks <= 1350000 => Speed(ticks) > 0)
<1>. DEFINE v == 1350000 \div ticks
<1>1. v \in Nat /\ ticks * v <= 1350000 /\ 1350000 < ticks * (v + 1)
  BY Quotient
<1>. HIDE DEF v
<1>2. 64 * v <= ticks * v
  BY <1>1
<1>3. v < 65536
  BY <1>1, <1>2
<1>4. v % 65536 = v
  BY <1>1, <1>3
<1>5. ticks <= 1350000 => v > 0
  BY <1>1
<1>. QED BY <1>4, <1>5 DEF Speed, v

(* At an offset that stays a reading is right to one part in 96.           *)
LEMMA ReadingRight ==
  ASSUME NEW p \in Turning, NEW o \in Offsets, Moved(CountAt(p, o), o) = o
  PROVE  IF ValueAt(p, o) = 0 THEN p >= 255 * 128
         ELSE Speed(p) <= ValueAt(p, o) /\ 96 * (ValueAt(p, o) - Speed(p) - 1) <= Speed(p) + 1
<1>. DEFINE c == CountAt(p, o)
            q == DivisorAt(o)
<1>0. c \in 1..255 /\ q \in 1..128 /\ o \in 0..7 /\ p \in Nat /\ p >= 128
  BY CountType DEF Offsets, Turning
<1>1. CASE c >= 255
  <2>1. o = 7
    BY <1>0, <1>1 DEF Moved
  <2>2. p \div 128 >= 255
    BY <1>0, <1>1, <2>1, DivisorTableAt DEF CountAt
  <2>3. p >= 255 * 128
    BY <1>0, <2>2
  <2>4. ValueAt(p, o) = 0
    BY <1>0, <1>1 DEF ValueAt
  <2>. QED BY <2>3, <2>4
<1>2. CASE c < 255
  <2>1. c = p \div q
    BY <1>0, <1>2 DEF CountAt
  <2>. HIDE DEF c, q
  <2>2. q * c <= p /\ p < q * (c + 1)
    BY <1>0, <2>1, Quotient
  <2>3. q * c \in Nat /\ c * q = q * c /\ q * c >= 64 /\ q * c <= 1350000
    <3>1. q * c \in Nat /\ c * q = q * c
      BY <1>0
    <3>2. q * (c + 1) = q * c + q /\ q <= q * c
      BY <1>0
    <3>3. q * c <= 128 * 255
      BY <1>0
    <3>. QED BY <1>0, <2>2, <3>1, <3>2, <3>3
  <2>4. /\ ValueAt(p, o) = Speed(c * q) /\ Speed(c * q) = 1350000 \div (c * q)
        /\ Speed(c * q) > 0 /\ Speed(p) = 1350000 \div p
    <3>1. ValueAt(p, o) = Speed(c * q)
      BY <1>2 DEF ValueAt, c, q
    <3>. QED BY <1>0, <2>3, <3>1, NoWrap
  <2>5. CASE c >= 96
    BY <1>0, <2>2, <2>4, <2>5, ReadingsClose
  <2>6. CASE c < 96
    <3>1. o = 0 /\ q = 1
      BY <1>0, <2>6, DivisorTableAt DEF Moved, c, q
    <3>2. c * q = p
      BY <1>0, <2>1, <3>1
    <3>3. Speed(p) \in Nat
      BY <1>0, <2>4, <3>2, Quotient
    <3>. QED BY <2>4, <3>2, <3>3
  <2>. QED BY <1>0, <2>5, <2>6
<1>. QED BY <1>0, <1>1, <1>2

Busy(t) == job[t].wants # Free

Stage(t) == job[t].access[1]

BitsSoFar ==
  \A t \in Threads : Stage(t) = "divisor" => job[t].bits \subseteq 0 .. 8 * job[t].access[2] - 1

(* What is typed, with or without mixed accesses.                          *)
TachometerTypes ==
  /\ chipBank \in SUBSET Byte /\ chipIndex \in 0..255
  /\ divisorReg \in [0..4 -> SUBSET Byte] /\ biosBits \in [0..4 -> SUBSET Byte]
  /\ measured \in [Fans -> Offsets] /\ period \in Periods
  /\ fanValue \in [Fans -> FanValues] /\ fanValueObsolete \in [Fans -> BOOLEAN]
  /\ job \in [Threads -> Jobs]
  /\ keyed \in SUBSET Fans /\ calm \in -1 .. 8 /\ hasty \in 0..MaxHasty /\ mixed \in BOOLEAN
  /\ deviceLock \in Clients \cup {Free}
  /\ BitsSoFar

(* Whoever has a job holds the lock, or is startPlugin and alone.          *)
JobInv ==
  /\ \A c \in Clients : Busy(c) <=> deviceLock = c
  /\ \A t \in Threads : ~Busy(t) => job[t] = Idle
  /\ ~mixed /\ Busy(Starter) => deviceLock = Free

Alone(t) == \A u \in Threads \ {t} : job[u] = Idle

(* What is selected in the chip before each access.                        *)
SelectedFor(j) ==
  j.access # Done =>
    /\ j.phase = 1 => chipIndex = BankSelect
    /\ j.phase \in {2, 3} => chipBank = Address(j.access)[1]
    /\ j.phase = 3 => chipIndex = Address(j.access)[2]

(* The bits read are those in the registers, the new ones differ from them *)
(* in the offsets of the fans done, and are in the registers written.      *)
SameBut(bits, newBits, fans) ==
  \A b \in 0..39 : (\A g \in fans : b \notin Mine(g)) => (b \in newBits <=> b \in bits)

RegistersFor(j) ==
  /\ j.access[1] = "divisor" => ReadSoFar(j.bits, j.access[2]) /\ j.newBits = j.bits
  /\ j.access[1] = "count" =>
       /\ \A i \in 0..4 : ByteOf(j.bits, i) = divisorReg[i]
       /\ SameBut(j.bits, j.newBits, {g \in Fans : g < j.access[2]})
  /\ j.access[1] = "write" =>
       /\ \A i \in 0..4 : divisorReg[i] = ByteOf(IF i <= j.access[2] THEN j.bits ELSE j.newBits, i)
       /\ SameBut(j.bits, j.newBits, Fans)

(* The offsets have done as many steps as there were calm updates.         *)
OffsetsFor(j) ==
  /\ j.access[1] \notin {"count", "write"} =>
       \A f \in Fans : OnItsWay(period[f], OffsetOf(f), calm)
  /\ j.access[1] = "count" =>
       /\ \A f \in Fans : IF f < j.access[2] THEN OnItsWay(period[f], OffsetIn(j.newBits, f), calm + 1)
                          ELSE OnItsWay(period[f], OffsetOf(f), calm)
       /\ calm >= 7 => j.newBits = j.bits
  /\ j.access[1] = "write" =>
       calm < 8 /\ \A f \in Fans : OnItsWay(period[f], OffsetIn(j.newBits, f), calm)

(* And the values are those that the chip has measured with them.          *)
ValuesFor(j) ==
  /\ calm = 8 => \A f \in Fans : fanValue[f] = ValueAt(period[f], OffsetOf(f))
  /\ j.access[1] = "count" /\ calm >= 7 =>
       \A f \in Fans : f < j.access[2] => fanValue[f] = ValueAt(period[f], OffsetOf(f))

JobFor(j) == SelectedFor(j) /\ RegistersFor(j) /\ OffsetsFor(j) /\ ValuesFor(j)

WorkInv == \A t \in Threads, j \in Jobs : ~mixed /\ Alone(t) /\ job[t] = j => JobFor(j)

TachometerInv == TachometerTypes /\ JobInv /\ OtherBitsKept /\ WorkInv

LEMMA TypesAreOK == TachometerTypes => TachometerTypeOK
<1>. SUFFICES ASSUME TachometerTypes PROVE TachometerTypeOK
  OBVIOUS
<1>1. /\ chipBank \in SUBSET Byte /\ chipIndex \in 0..255
      /\ fanValue \in [Fans -> FanValues] /\ fanValueObsolete \in [Fans -> BOOLEAN]
      /\ job \in [Threads -> Jobs] /\ measured \in [Fans -> 0..7]
  BY DEF TachometerTypes, Offsets
<1>2. {divisorReg, biosBits} \subseteq [0..4 -> SUBSET Byte]
  BY DEF TachometerTypes
<1>3. keyed \subseteq Fans /\ calm \in -1 .. 8 /\ hasty \in 0..MaxHasty /\ mixed \in BOOLEAN
  BY DEF TachometerTypes
<1>. QED BY <1>1, <1>2, <1>3 DEF TachometerTypeOK

LEMMA AccessKinds ==
  \A a \in Accesses :
    /\ a[1] = "divisor" \/ a[1] = "write" => a[2] \in 0..4 /\ a = <<a[1], a[2]>>
    /\ a[1] = "count" => a[2] \in Fans /\ a = <<a[1], a[2]>>
    /\ a[1] = "temperature" => a = <<"temperature", 0>>
    /\ a[1] = "none" => a = Done
    /\ a[1] \in {"none", "divisor", "count", "write", "temperature"}
BY DEF Accesses, Done

LEMMA AddressType ==
  \A a \in Accesses : a # Done =>
    /\ Address(a)[1] \in SUBSET Byte /\ Address(a)[2] \in 0..255 \ {BankSelect}
    /\ Address(a) = <<Address(a)[1], Address(a)[2]>>
<1>. SUFFICES ASSUME NEW a \in Accesses, a # Done
     PROVE  /\ Address(a)[1] \in SUBSET Byte /\ Address(a)[2] \in 0..255 \ {BankSelect}
            /\ Address(a) = <<Address(a)[1], Address(a)[2]>>
  OBVIOUS
<1>1. CASE a[1] = "count"
  BY <1>1, AccessKinds, TachometerTable, FanRange DEF Address
<1>2. CASE a[1] = "divisor" \/ a[1] = "write"
  <2>1. Address(a) = Divisor[a[2]] /\ a[2] \in 0..4
    BY <1>2, AccessKinds DEF Address
  <2>. QED BY <2>1, DivisorTable
<1>3. CASE a[1] = "temperature"
  BY <1>3 DEF Address, Temperature, BankSelect, Byte
<1>. QED BY <1>1, <1>2, <1>3, AccessKinds

(* What is written next, if anything, is the last register that changes.   *)
LEMMA BelowIsAccess ==
  \A i \in 0..5 : \A bits, newBits :
    LET a == WriteBelow(i, bits, newBits) IN
    /\ a \in Accesses
    /\ a[1] = "none" \/ a[1] = "write"
    /\ a = Done => \A j \in 0..4 : j < i => ByteOf(bits, j) = ByteOf(newBits, j)
    /\ a[1] = "write" =>
         /\ a[2] < i /\ ByteOf(bits, a[2]) # ByteOf(newBits, a[2])
         /\ \A j \in 0..4 : a[2] < j /\ j < i => ByteOf(bits, j) = ByteOf(newBits, j)
<1>. SUFFICES ASSUME NEW i \in 0..5, NEW bits, NEW newBits
     PROVE  LET a == WriteBelow(i, bits, newBits) IN
            /\ a \in Accesses
            /\ a[1] = "none" \/ a[1] = "write"
            /\ a = Done => \A j \in 0..4 : j < i => ByteOf(bits, j) = ByteOf(newBits, j)
            /\ a[1] = "write" =>
                 /\ a[2] < i /\ ByteOf(bits, a[2]) # ByteOf(newBits, a[2])
                 /\ \A j \in 0..4 : a[2] < j /\ j < i => ByteOf(bits, j) = ByteOf(newBits, j)
  OBVIOUS
<1>. DEFINE changed == {j \in 0..4 : j < i /\ ByteOf(bits, j) # ByteOf(newBits, j)}
            last == CHOOSE j \in changed : \A k \in changed : k <= j
<1>1. CASE changed = {}
  <2>1. WriteBelow(i, bits, newBits) = Done
    BY <1>1 DEF WriteBelow
  <2>2. \A j \in 0..4 : j < i => ByteOf(bits, j) = ByteOf(newBits, j)
    BY <1>1
  <2>. QED BY <2>1, <2>2 DEF Done, Accesses
<1>2. CASE changed # {}
  <2>1. WriteBelow(i, bits, newBits) = <<"write", last>>
    BY <1>2 DEF WriteBelow
  <2>2. \E j \in changed : \A k \in changed : k <= j
    <3>1. changed \subseteq 0..4
      OBVIOUS
    <3>. HIDE DEF changed
    <3>2. CASE 4 \in changed BY <3>1, <3>2
    <3>3. CASE 3 \in changed /\ 4 \notin changed BY <3>1, <3>3
    <3>4. CASE 2 \in changed /\ 3 \notin changed /\ 4 \notin changed BY <3>1, <3>4
    <3>5. CASE 1 \in changed /\ 2 \notin changed /\ 3 \notin changed /\ 4 \notin changed BY <3>1, <3>5
    <3>6. CASE 1 \notin changed /\ 2 \notin changed /\ 3 \notin changed /\ 4 \notin changed
      <4>1. \A k \in changed : k = 0
        BY <3>1, <3>6
      <4>. QED BY <1>2, <4>1
    <3>. QED BY <3>2, <3>3, <3>4, <3>5, <3>6
  <2>3. last \in changed /\ \A k \in changed : k <= last
    <3>. HIDE DEF changed
    <3>. QED BY <2>2
  <2>4. last \in 0..4 /\ last < i /\ ByteOf(bits, last) # ByteOf(newBits, last)
    BY <2>3
  <2>5. \A j \in 0..4 : last < j /\ j < i => ByteOf(bits, j) = ByteOf(newBits, j)
    <3>1. \A j \in 0..4 : j < i /\ ByteOf(bits, j) # ByteOf(newBits, j) => j \in changed
      OBVIOUS
    <3>. HIDE DEF changed, last
    <3>. QED BY <2>3, <2>4, <3>1
  <2>. HIDE DEF last, changed
  <2>6. <<"write", last>> \in Accesses
    BY <2>4 DEF Accesses
  <2>. QED BY <2>1, <2>4, <2>5, <2>6 DEF Done
<1>. QED BY <1>1, <1>2

LEMMA IdleIsJob == Idle \in Jobs
BY DEF Idle, Jobs, Accesses

(* Jobs with some of their fields changed.                                 *)
InPhase(j, p) == [j EXCEPT !.phase = p]

GoingOn(j, a) == [j EXCEPT !.phase = 0, !.access = a]

GoingOnWith(j, n, a) == [j EXCEPT !.phase = 0, !.newBits = n, !.access = a]

GoingOnRead(j, b, a) == [j EXCEPT !.phase = 0, !.bits = b, !.newBits = b, !.access = a]

LEMMA JobInPhase ==
  ASSUME NEW j \in Jobs, NEW p \in 0..3
  PROVE  LET k == InPhase(j, p) IN
         /\ k \in Jobs /\ k.phase = p
         /\ k.wants = j.wants /\ k.access = j.access /\ k.bits = j.bits /\ k.newBits = j.newBits
BY DEF InPhase, Jobs

LEMMA JobGoesOn ==
  ASSUME NEW j \in Jobs, NEW a \in Accesses
  PROVE  LET k == GoingOn(j, a) IN
         /\ k \in Jobs /\ k.phase = 0 /\ k.access = a
         /\ k.wants = j.wants /\ k.bits = j.bits /\ k.newBits = j.newBits
<1>0. PICK p \in 0..3 : p = 0
  OBVIOUS
<1>1. PICK k : k = [j EXCEPT !.phase = p, !.access = a]
  OBVIOUS
<1>2. /\ k \in Jobs /\ k.phase = p /\ k.access = a
      /\ k.wants = j.wants /\ k.bits = j.bits /\ k.newBits = j.newBits
  BY <1>1 DEF Jobs
<1>. QED BY <1>0, <1>1, <1>2 DEF GoingOn

LEMMA JobGoesOnWith ==
  ASSUME NEW j \in Jobs, NEW n \in SUBSET (0..39), NEW a \in Accesses
  PROVE  LET k == GoingOnWith(j, n, a) IN
         /\ k \in Jobs /\ k.phase = 0 /\ k.newBits = n /\ k.access = a
         /\ k.wants = j.wants /\ k.bits = j.bits
<1>0. PICK p \in 0..3 : p = 0
  OBVIOUS
<1>1. PICK k : k = [j EXCEPT !.phase = p, !.newBits = n, !.access = a]
  OBVIOUS
<1>2. /\ k \in Jobs /\ k.phase = p /\ k.newBits = n /\ k.access = a
      /\ k.wants = j.wants /\ k.bits = j.bits
  BY <1>1 DEF Jobs
<1>. QED BY <1>0, <1>1, <1>2 DEF GoingOnWith

LEMMA JobGoesOnRead ==
  ASSUME NEW j \in Jobs, NEW b \in SUBSET (0..39), NEW a \in Accesses
  PROVE  LET k == GoingOnRead(j, b, a) IN
         /\ k \in Jobs /\ k.phase = 0 /\ k.bits = b /\ k.newBits = b /\ k.access = a
         /\ k.wants = j.wants
<1>0. PICK p \in 0..3 : p = 0
  OBVIOUS
<1>1. PICK k : k = [j EXCEPT !.phase = p, !.bits = b, !.newBits = b, !.access = a]
  OBVIOUS
<1>2. /\ k \in Jobs /\ k.phase = p /\ k.bits = b /\ k.newBits = b /\ k.access = a
      /\ k.wants = j.wants
  BY <1>1 DEF Jobs
<1>. QED BY <1>0, <1>1, <1>2 DEF GoingOnRead

LEMMA NewJobs ==
  ASSUME NEW w \in Fans \cup {NoFan, Free}, NEW a \in Accesses
  PROVE  LET k == Wanting(w, a) IN
         k \in Jobs /\ k.wants = w /\ k.phase = 0 /\ k.access = a /\ k.bits = {} /\ k.newBits = {}
<1>1. PICK j \in Jobs : j = Idle
  BY IdleIsJob
<1>2. j.phase = 0 /\ j.bits = {} /\ j.newBits = {}
  BY <1>1 DEF Idle
<1>3. PICK k : k = [j EXCEPT !.wants = w, !.access = a]
  OBVIOUS
<1>4. /\ k \in Jobs /\ k.wants = w /\ k.access = a
      /\ k.phase = j.phase /\ k.bits = j.bits /\ k.newBits = j.newBits
  BY <1>3 DEF Jobs
<1>5. Wanting(w, a) = k
  BY <1>1, <1>3 DEF Wanting
<1>. QED BY <1>2, <1>4, <1>5

LEMMA FirstAccesses ==
  <<"divisor", 0>> \in Accesses /\ <<"temperature", 0>> \in Accesses /\ Done \in Accesses
BY DEF Accesses

(* The types of the jobs, for each action below the types of all the rest. *)
LEMMA BitsAfter ==
  ASSUME job \in [Threads -> Jobs], BitsSoFar, NEW t \in Threads, NEW j \in Jobs,
         job' = [job EXCEPT ![t] = j],
         j.access[1] = "divisor" => j.bits \subseteq 0 .. 8 * j.access[2] - 1
  PROVE  job' \in [Threads -> Jobs] /\ BitsSoFar'
<1>1. job' \in [Threads -> Jobs] /\ job'[t] = j /\ \A u \in Threads \ {t} : job'[u] = job[u]
  OBVIOUS
<1>2. ASSUME NEW u \in Threads, Stage(u)' = "divisor"
      PROVE  job'[u].bits \subseteq 0 .. 8 * job'[u].access[2] - 1
  <2>1. CASE u = t
    BY <1>1, <1>2, <2>1 DEF Stage
  <2>2. CASE u # t
    BY <1>1, <1>2, <2>2 DEF Stage, BitsSoFar
  <2>. QED BY <2>1, <2>2
<1>. QED BY <1>1, <1>2 DEF BitsSoFar

LEMMA MeasuresTyped == TachometerTypes /\ ChipMeasures => TachometerTypes'
<1>. SUFFICES ASSUME TachometerTypes, ChipMeasures PROVE TachometerTypes'
  OBVIOUS
<1>1. measured' \in [Fans -> Offsets]
  BY OffsetTypes DEF ChipMeasures
<1>2. BitsSoFar'
  BY DEF TachometerTypes, ChipMeasures, BitsSoFar, Stage
<1>. QED BY <1>1, <1>2 DEF TachometerTypes, ChipMeasures, chipVars, valueVars

LEMMA CallTyped ==
  ASSUME TachometerTypes, NEW c \in Clients, CallForKey(c)
  PROVE  /\ TachometerTypes'
         /\ \E w \in Fans \cup {NoFan}, a \in {<<"divisor", 0>>, Done, <<"temperature", 0>>} :
              job' = [job EXCEPT ![c] = Wanting(w, a)]
<1>1. PICK w \in Fans \cup {NoFan}, a \in {<<"divisor", 0>>, Done, <<"temperature", 0>>} :
        job' = [job EXCEPT ![c] = Wanting(w, a)]
  <2>1. CASE \E f \in keyed :
               job' = [job EXCEPT ![c] = Wanting(f, IF fanValueObsolete[f] THEN <<"divisor", 0>> ELSE Done)]
    BY <2>1 DEF TachometerTypes
  <2>2. CASE job' = [job EXCEPT ![c] = Wanting(NoFan, <<"temperature", 0>>)]
    BY <2>2
  <2>. QED BY <2>1, <2>2 DEF CallForKey
<1>2. a \in Accesses /\ c \in Threads
  BY FirstAccesses DEF Threads
<1>3. Wanting(w, a) \in Jobs /\ Wanting(w, a).access = a /\ Wanting(w, a).bits = {}
  BY <1>2, NewJobs
<1>4. job \in [Threads -> Jobs] /\ BitsSoFar
  BY DEF TachometerTypes
<1>5. job' \in [Threads -> Jobs] /\ BitsSoFar'
  <2>. DEFINE j == Wanting(w, a)
  <2>1. j \in Jobs /\ j.bits = {} /\ job' = [job EXCEPT ![c] = j]
    BY <1>1, <1>3
  <2>. HIDE DEF j
  <2>. QED BY <1>2, <1>4, <2>1, BitsAfter
<1>6. hasty' \in 0..MaxHasty /\ mixed' \in BOOLEAN /\ deviceLock' \in Clients \cup {Free}
  <2>1. hasty' \in Nat /\ hasty' <= MaxHasty
    BY FanRange DEF CallForKey, TachometerTypes
  <2>2. mixed' \in BOOLEAN
    BY DEF CallForKey, TachometerTypes
  <2>3. deviceLock' = c
    BY DEF CallForKey, LockDevice
  <2>. QED BY <2>1, <2>2, <2>3, FanRange
<1>7. TachometerTypes'
  BY <1>5, <1>6 DEF TachometerTypes, CallForKey, chipVars, valueVars
<1>. QED BY <1>1, <1>7

LEMMA ReturnTyped ==
  ASSUME TachometerTypes, NEW c \in Clients, ReturnReading(c)
  PROVE  TachometerTypes'
<1>1. c \in Threads /\ job \in [Threads -> Jobs] /\ BitsSoFar /\ job' = [job EXCEPT ![c] = Idle]
  BY DEF TachometerTypes, ReturnReading, Threads
<1>2. Idle.access[1] # "divisor"
  BY DEF Idle, Done
<1>3. job' \in [Threads -> Jobs] /\ BitsSoFar'
  BY <1>1, <1>2, IdleIsJob, BitsAfter
<1>4. fanValueObsolete' \in [Fans -> BOOLEAN]
  BY DEF ReturnReading, TachometerTypes
<1>5. deviceLock' = Free
  BY DEF ReturnReading, UnlockDevice
<1>. QED BY <1>3, <1>4, <1>5 DEF TachometerTypes, ReturnReading, chipVars

LEMMA AddTyped ==
  ASSUME TachometerTypes, AddTachometers
  PROVE  TachometerTypes'
<1>1. Starter \in Threads /\ job \in [Threads -> Jobs] /\ BitsSoFar /\ job' = [job EXCEPT ![Starter] = Idle]
  BY DEF TachometerTypes, AddTachometers, Threads
<1>2. Idle.access[1] # "divisor"
  BY DEF Idle, Done
<1>3. job' \in [Threads -> Jobs] /\ BitsSoFar'
  BY <1>1, <1>2, IdleIsJob, BitsAfter
<1>4. fanValueObsolete' \in [Fans -> BOOLEAN] /\ keyed' \in SUBSET Fans
  BY DEF AddTachometers
<1>. QED BY <1>3, <1>4 DEF TachometerTypes, AddTachometers, chipVars

(* What every access to a port leaves alone.                               *)
LEMMA AccessTyped ==
  ASSUME TachometerTypes, NEW t \in Threads, NEW p, Accessing(t, p), NEW j \in Jobs,
         job' = [job EXCEPT ![t] = j],
         j.access[1] = "divisor" => j.bits \subseteq 0 .. 8 * j.access[2] - 1,
         chipBank' \in SUBSET Byte, chipIndex' \in 0..255, divisorReg' \in [0..4 -> SUBSET Byte],
         fanValue' \in [Fans -> FanValues], fanValueObsolete' \in [Fans -> BOOLEAN], calm' \in -1 .. 8
  PROVE  TachometerTypes'
<1>1. job \in [Threads -> Jobs] /\ BitsSoFar
  BY DEF TachometerTypes
<1>2. job' \in [Threads -> Jobs] /\ BitsSoFar'
  BY <1>1, BitsAfter
<1>. QED BY <1>2 DEF TachometerTypes, Accessing

LEMMA PutTyped ==
  ASSUME TachometerTypes, NEW v \in SUBSET Byte, PutByte(v)
  PROVE  chipBank' \in SUBSET Byte /\ chipIndex' \in 0..255 /\ divisorReg' \in [0..4 -> SUBSET Byte]
BY DEF TachometerTypes, PutByte

LEMMA SelectTyped ==
  ASSUME TachometerTypes, NEW t \in Threads, SelectRegister(t)
  PROVE  /\ TachometerTypes'
         /\ \E p \in {0, 2} : /\ Accessing(t, p) /\ job' = [job EXCEPT ![t] = InPhase(job[t], p + 1)]
                             /\ InPhase(job[t], p + 1) \in Jobs
                             /\ chipIndex' = IF p = 0 THEN BankSelect ELSE Address(job[t].access)[2]
<1>1. PICK p \in {0, 2} : Accessing(t, p) /\ chipIndex' = IF p = 0 THEN BankSelect ELSE Address(job[t].access)[2]
  BY DEF SelectRegister
<1>2. job[t] \in Jobs /\ job[t].access # Done /\ job[t].phase = p /\ job[t].access \in Accesses
  BY <1>1 DEF Accessing, TachometerTypes, Jobs
<1>3. chipIndex' \in 0..255
  BY <1>1, <1>2, AddressType DEF BankSelect
<1>4. job' = [job EXCEPT ![t] = InPhase(job[t], p + 1)]
  BY <1>2 DEF SelectRegister, InPhase
<1>5. /\ InPhase(job[t], p + 1) \in Jobs
      /\ InPhase(job[t], p + 1).access = job[t].access /\ InPhase(job[t], p + 1).bits = job[t].bits
  <2>1. p + 1 \in 0..3
    OBVIOUS
  <2>. QED BY <1>2, <2>1, JobInPhase
<1>6. InPhase(job[t], p + 1).access[1] = "divisor" =>
        InPhase(job[t], p + 1).bits \subseteq 0 .. 8 * InPhase(job[t], p + 1).access[2] - 1
  BY <1>5 DEF TachometerTypes, BitsSoFar, Stage
<1>7. /\ chipBank' \in SUBSET Byte /\ divisorReg' \in [0..4 -> SUBSET Byte]
      /\ fanValue' \in [Fans -> FanValues] /\ fanValueObsolete' \in [Fans -> BOOLEAN] /\ calm' \in -1 .. 8
  BY DEF TachometerTypes, SelectRegister, valueVars
<1>8. TachometerTypes'
  BY Zenon, <1>1, <1>3, <1>4, <1>5, <1>6, <1>7, AccessTyped
<1>. QED BY <1>1, <1>4, <1>5, <1>8

LEMMA BankTyped ==
  ASSUME TachometerTypes, NEW t \in Threads, WriteBank(t)
  PROVE  /\ TachometerTypes'
         /\ InPhase(job[t], 2) \in Jobs /\ job' = [job EXCEPT ![t] = InPhase(job[t], 2)]
<1>1. job[t] \in Jobs /\ Accessing(t, 1) /\ job[t].access # Done /\ job[t].access \in Accesses
  BY DEF WriteBank, Accessing, TachometerTypes, Jobs
<1>2. Address(job[t].access)[1] \in SUBSET Byte
  BY <1>1, AddressType
<1>3. chipBank' \in SUBSET Byte /\ chipIndex' \in 0..255 /\ divisorReg' \in [0..4 -> SUBSET Byte]
  BY <1>2, PutTyped DEF WriteBank
<1>4. job' = [job EXCEPT ![t] = InPhase(job[t], 2)]
  BY DEF WriteBank, InPhase
<1>5. /\ InPhase(job[t], 2) \in Jobs
      /\ InPhase(job[t], 2).access = job[t].access /\ InPhase(job[t], 2).bits = job[t].bits
  BY <1>1, JobInPhase
<1>6. InPhase(job[t], 2).access[1] = "divisor" =>
        InPhase(job[t], 2).bits \subseteq 0 .. 8 * InPhase(job[t], 2).access[2] - 1
  BY <1>5 DEF TachometerTypes, BitsSoFar, Stage
<1>7. fanValue' \in [Fans -> FanValues] /\ fanValueObsolete' \in [Fans -> BOOLEAN] /\ calm' \in -1 .. 8
  BY DEF TachometerTypes, WriteBank, valueVars
<1>8. TachometerTypes'
  BY <1>1, <1>3, <1>4, <1>5, <1>6, <1>7, AccessTyped
<1>. QED BY <1>4, <1>5, <1>8

LEMMA ShiftedIn ==
  ASSUME NEW i \in 0..4, NEW bits \in SUBSET (0 .. 8 * i - 1), NEW v \in SUBSET Byte
  PROVE  {b + 8 : b \in bits} \cup v \in SUBSET (0 .. 8 * (i + 1) - 1)
<1>1. \A b \in bits : b + 8 \in 0 .. 8 * (i + 1) - 1
  OBVIOUS
<1>2. Byte \subseteq 0 .. 8 * (i + 1) - 1
  BY DEF Byte
<1>. QED BY <1>1, <1>2

ShiftedIn8(bits, v) == {b + 8 : b \in bits} \cup v

AfterDivisor(i) == IF i < 4 THEN <<"divisor", i + 1>> ELSE <<"count", 0>>

DivisorRead(t, v) == GoingOnRead(job[t], ShiftedIn8(job[t].bits, v), AfterDivisor(job[t].access[2]))

LEMMA DivisorTyped ==
  ASSUME TachometerTypes, NEW t \in Threads, ReadDivisor(t)
  PROVE  /\ TachometerTypes'
         /\ \E v \in BytesRead :
              /\ v \in SUBSET Byte /\ job' = [job EXCEPT ![t] = DivisorRead(t, v)]
              /\ DivisorRead(t, v) \in Jobs /\ DivisorRead(t, v).wants = job[t].wants
              /\ DivisorRead(t, v).phase = 0 /\ DivisorRead(t, v).access = AfterDivisor(job[t].access[2])
              /\ DivisorRead(t, v).bits = ShiftedIn8(job[t].bits, v)
              /\ DivisorRead(t, v).newBits = ShiftedIn8(job[t].bits, v)
<1>1. /\ job[t] \in Jobs /\ Accessing(t, 3) /\ job[t].access \in Accesses
      /\ job[t].access[1] = "divisor" /\ job[t].access[2] \in 0..4
  <2>1. job[t] \in Jobs /\ Accessing(t, 3) /\ job[t].access \in Accesses /\ job[t].access[1] = "divisor"
    BY DEF ReadDivisor, TachometerTypes, Jobs
  <2>. QED BY <2>1, AccessKinds
<1>2. PICK v \in BytesRead : job' = [job EXCEPT ![t] = DivisorRead(t, v)]
  BY Zenon DEF ReadDivisor, DivisorRead, GoingOnRead, ShiftedIn8, AfterDivisor
<1>3. v \in SUBSET Byte
  BY DEF BytesRead, TachometerTypes
<1>. DEFINE i == job[t].access[2]
            read == ShiftedIn8(job[t].bits, v)
<1>4. job[t].bits \in SUBSET (0 .. 8 * i - 1)
  BY <1>1 DEF TachometerTypes, BitsSoFar, Stage
<1>5. read \in SUBSET (0 .. 8 * (i + 1) - 1)
  BY <1>1, <1>3, <1>4, ShiftedIn DEF ShiftedIn8
<1>6. 0 .. 8 * (i + 1) - 1 \subseteq 0..39
  BY <1>1
<1>7. AfterDivisor(i) \in Accesses /\ (AfterDivisor(i)[1] = "divisor" => AfterDivisor(i)[2] = i + 1)
  BY <1>1, FanRange DEF Accesses, AfterDivisor
<1>8. DivisorRead(t, v) = GoingOnRead(job[t], read, AfterDivisor(i))
  BY DEF DivisorRead
<1>. HIDE DEF i, read
<1>9. /\ DivisorRead(t, v) \in Jobs /\ DivisorRead(t, v).wants = job[t].wants /\ DivisorRead(t, v).phase = 0
      /\ DivisorRead(t, v).access = AfterDivisor(i)
      /\ DivisorRead(t, v).bits = read /\ DivisorRead(t, v).newBits = read
  <2>1. read \in SUBSET (0..39)
    BY <1>5, <1>6
  <2>. DEFINE k == GoingOnRead(job[t], read, AfterDivisor(i))
  <2>2. /\ k \in Jobs /\ k.wants = job[t].wants /\ k.phase = 0 /\ k.access = AfterDivisor(i)
        /\ k.bits = read /\ k.newBits = read
    BY <1>1, <1>7, <2>1, JobGoesOnRead
  <2>3. DivisorRead(t, v) = k
    BY <1>8
  <2>. HIDE DEF k
  <2>. QED BY <2>2, <2>3
<1>10. DivisorRead(t, v).access[1] = "divisor" =>
         DivisorRead(t, v).bits \subseteq 0 .. 8 * DivisorRead(t, v).access[2] - 1
  BY <1>5, <1>7, <1>9
<1>11. /\ chipBank' \in SUBSET Byte /\ chipIndex' \in 0..255 /\ divisorReg' \in [0..4 -> SUBSET Byte]
       /\ fanValue' \in [Fans -> FanValues] /\ fanValueObsolete' \in [Fans -> BOOLEAN] /\ calm' \in -1 .. 8
  BY DEF TachometerTypes, ReadDivisor, chipVars, valueVars
<1>12. TachometerTypes'
  BY <1>1, <1>2, <1>9, <1>10, <1>11, AccessTyped
<1>. QED BY <1>2, <1>3, <1>9, <1>12 DEF i, read

LEMMA TemperatureTyped ==
  ASSUME TachometerTypes, NEW t \in Threads, ReadTemperature(t)
  PROVE  /\ TachometerTypes'
         /\ GoingOn(job[t], Done) \in Jobs /\ job' = [job EXCEPT ![t] = GoingOn(job[t], Done)]
<1>1. job[t] \in Jobs /\ Accessing(t, 3) /\ Done \in Accesses
  BY FirstAccesses DEF ReadTemperature, TachometerTypes
<1>2. job' = [job EXCEPT ![t] = GoingOn(job[t], Done)]
  BY DEF ReadTemperature, GoingOn
<1>3. GoingOn(job[t], Done) \in Jobs /\ GoingOn(job[t], Done).access = Done
  BY <1>1, JobGoesOn
<1>4. GoingOn(job[t], Done).access[1] # "divisor"
  BY <1>3 DEF Done
<1>5. /\ chipBank' \in SUBSET Byte /\ chipIndex' \in 0..255 /\ divisorReg' \in [0..4 -> SUBSET Byte]
      /\ fanValue' \in [Fans -> FanValues] /\ fanValueObsolete' \in [Fans -> BOOLEAN] /\ calm' \in -1 .. 8
  BY DEF TachometerTypes, ReadTemperature, chipVars, valueVars
<1>6. TachometerTypes'
  BY <1>1, <1>2, <1>3, <1>4, <1>5, AccessTyped
<1>. QED BY <1>2, <1>3, <1>6

AfterWrite(t) == WriteBelow(job[t].access[2], job[t].bits, job[t].newBits)

LEMMA WriteTyped ==
  ASSUME TachometerTypes, NEW t \in Threads, WriteDivisor(t)
  PROVE  /\ TachometerTypes'
         /\ GoingOn(job[t], AfterWrite(t)) \in Jobs /\ AfterWrite(t) \in Accesses
         /\ job' = [job EXCEPT ![t] = GoingOn(job[t], AfterWrite(t))]
<1>1. /\ job[t] \in Jobs /\ Accessing(t, 3) /\ job[t].access \in Accesses
      /\ job[t].access[1] = "write" /\ job[t].access[2] \in 0..4
  <2>1. job[t] \in Jobs /\ Accessing(t, 3) /\ job[t].access \in Accesses /\ job[t].access[1] = "write"
    BY DEF WriteDivisor, TachometerTypes, Jobs
  <2>. QED BY <2>1, AccessKinds
<1>2. job' = [job EXCEPT ![t] = GoingOn(job[t], AfterWrite(t))]
  BY DEF WriteDivisor, GoingOn, AfterWrite
<1>3. AfterWrite(t) \in Accesses /\ AfterWrite(t)[1] # "divisor"
  BY <1>1, BelowIsAccess DEF AfterWrite
<1>4. GoingOn(job[t], AfterWrite(t)) \in Jobs /\ GoingOn(job[t], AfterWrite(t)).access = AfterWrite(t)
  BY <1>1, <1>3, JobGoesOn
<1>5. ByteOf(job[t].newBits, job[t].access[2]) \in SUBSET Byte
  BY DEF ByteOf
<1>6. chipBank' \in SUBSET Byte /\ chipIndex' \in 0..255 /\ divisorReg' \in [0..4 -> SUBSET Byte]
  BY <1>5, PutTyped DEF WriteDivisor
<1>7. fanValue' \in [Fans -> FanValues] /\ fanValueObsolete' \in [Fans -> BOOLEAN] /\ calm' \in -1 .. 8
  BY DEF TachometerTypes, WriteDivisor, valueVars
<1>8. TachometerTypes'
  BY <1>1, <1>2, <1>3, <1>4, <1>6, <1>7, AccessTyped
<1>. QED BY <1>2, <1>3, <1>4, <1>8

LEMMA Remainder == \A n, d \in Nat : d > 0 => n % d \in Nat /\ n % d < d
OBVIOUS

LEMMA SpeedType == \A ticks \in Nat : ticks > 0 => Speed(ticks) \in FanValues
<1>1. ASSUME NEW ticks \in Nat, ticks > 0 PROVE Speed(ticks) \in FanValues
  <2>. DEFINE v == 1350000 \div ticks
  <2>1. v \in Nat
    BY <1>1, Quotient
  <2>. HIDE DEF v
  <2>3. v % 65536 \in Nat /\ v % 65536 < 65536
    BY <2>1, Remainder
  <2>. QED BY <2>3 DEF Speed, FanValues, v
<1>. QED BY <1>1

AfterCount(f, bits, newBits) ==
  IF f < fanLimit - 1 THEN <<"count", f + 1>> ELSE WriteBelow(5, bits, newBits)

CountedBits(j, c) ==
  WithOffset(j.newBits, j.access[2], Moved(c, OffsetIn(j.bits, j.access[2])))

CountRead(j, c) ==
  GoingOnWith(j, CountedBits(j, c), AfterCount(j.access[2], j.bits, CountedBits(j, c)))

(* A job after it has read a count.                                        *)
LEMMA CountReadFields ==
  ASSUME NEW j \in Jobs, j.access[1] = "count", NEW c \in 1..255
  PROVE  /\ CountRead(j, c) \in Jobs /\ CountRead(j, c).wants = j.wants /\ CountRead(j, c).phase = 0
         /\ CountRead(j, c).bits = j.bits /\ CountRead(j, c).newBits = CountedBits(j, c)
         /\ CountRead(j, c).access = AfterCount(j.access[2], j.bits, CountedBits(j, c))
         /\ CountRead(j, c).access[1] # "divisor"
<1>1. j.access \in Accesses /\ j.access[2] \in Fans /\ j.newBits \in SUBSET (0..39) /\ j.bits \in SUBSET (0..39)
  <2>1. j.access \in Accesses /\ j.newBits \in SUBSET (0..39) /\ j.bits \in SUBSET (0..39)
    BY DEF Jobs
  <2>. QED BY <2>1, AccessKinds
<1>2. CountedBits(j, c) \in SUBSET (0..39)
  <2>1. Moved(c, OffsetIn(j.bits, j.access[2])) \in Offsets
    <3>1. OffsetIn(j.bits, j.access[2]) \in Offsets /\ c \in 0..255
      BY <1>1, OffsetTypes
    <3>. QED BY <3>1, MovedType
  <2>. QED BY <1>1, <2>1, WithOffsetType DEF CountedBits
<1>. DEFINE a == AfterCount(j.access[2], j.bits, CountedBits(j, c))
<1>3. a \in Accesses /\ a[1] # "divisor"
  <2>1. CASE j.access[2] < fanLimit - 1
    <3>1. a = <<"count", j.access[2] + 1>> /\ j.access[2] + 1 \in Fans
      BY <1>1, <2>1, FanRange DEF AfterCount
    <3>. QED BY <3>1 DEF Accesses
  <2>2. CASE ~(j.access[2] < fanLimit - 1)
    <3>1. a = WriteBelow(5, j.bits, CountedBits(j, c))
      BY <2>2 DEF AfterCount
    <3>2. 5 \in 0..5
      OBVIOUS
    <3>. HIDE DEF a
    <3>. QED BY <3>1, <3>2, BelowIsAccess
  <2>. QED BY <2>1, <2>2
<1>. HIDE DEF a
<1>4. CountRead(j, c) = GoingOnWith(j, CountedBits(j, c), a)
  BY DEF CountRead, a
<1>5. /\ CountRead(j, c) \in Jobs /\ CountRead(j, c).wants = j.wants /\ CountRead(j, c).phase = 0
      /\ CountRead(j, c).bits = j.bits /\ CountRead(j, c).newBits = CountedBits(j, c)
      /\ CountRead(j, c).access = a
  BY <1>2, <1>3, <1>4, JobGoesOnWith
<1>. QED BY <1>3, <1>5 DEF a

(* What a count that has been read does to the state.                      *)
CountEffect(t, j, c) ==
  LET f == j.access[2] IN
  /\ Tachometer[f] = <<chipBank, chipIndex>> => c = CountAt(period[f], measured[f])
  /\ fanValue' = [fanValue EXCEPT ![f] = IF c < 255 THEN Speed(c * DivisorAt(OffsetIn(j.bits, f))) ELSE 0]
  /\ fanValueObsolete' = [fanValueObsolete EXCEPT ![f] = FALSE]
  /\ calm' = IF measured[f] # OffsetOf(f) THEN -1 ELSE IF f = fanLimit - 1 /\ calm < 8 THEN calm + 1 ELSE calm
  /\ job' = [job EXCEPT ![t] = CountRead(j, c)]

LEMMA FansTurn == \A p \in Periods, f \in Fans : p[f] \in Turning
BY TachometerAssumption DEF Turning

LEMMA CountTyped ==
  ASSUME TachometerTypes, NEW t \in Threads, ReadCount(t)
  PROVE  TachometerTypes' /\ \E c \in 1..255 : CountEffect(t, job[t], c)
<1>1. /\ job[t] \in Jobs /\ Accessing(t, 3) /\ job[t].access \in Accesses
      /\ job[t].access[1] = "count" /\ job[t].access[2] \in Fans
  <2>1. job[t] \in Jobs /\ Accessing(t, 3) /\ job[t].access \in Accesses /\ job[t].access[1] = "count"
    BY DEF ReadCount, TachometerTypes, Jobs
  <2>. QED BY <2>1, AccessKinds
<1>. DEFINE f == job[t].access[2]
<1>2. PICK c : c \in (IF Tachometer[f] = <<chipBank, chipIndex>> THEN {Count(f)} ELSE {128, 255})
               /\ CountEffect(t, job[t], c)
  BY Zenon DEF ReadCount, CountEffect, CountRead, CountedBits, AfterCount, GoingOnWith, Count, CountAt
<1>3. c \in 1..255
  <2>1. period[f] \in Turning /\ measured[f] \in Offsets
    BY <1>1, FansTurn DEF TachometerTypes
  <2>2. Count(f) = CountAt(period[f], measured[f])
    BY DEF Count, CountAt
  <2>. HIDE DEF f
  <2>. QED BY <1>2, <2>1, <2>2, CountType
<1>4. /\ CountRead(job[t], c) \in Jobs /\ CountRead(job[t], c).access[1] # "divisor"
  BY <1>1, <1>3, CountReadFields
<1>5. fanValue' \in [Fans -> FanValues]
  <2>. DEFINE q == DivisorAt(OffsetIn(job[t].bits, f))
              v == IF c < 255 THEN Speed(c * q) ELSE 0
  <2>1. q \in 1..128
    <3>1. OffsetIn(job[t].bits, f) \in Offsets
      BY <1>1, OffsetTypes
    <3>2. 128 \in Turning
      BY DEF Turning
    <3>. QED BY <3>1, <3>2, CountType
  <2>2. v \in FanValues
    <3>. HIDE DEF q
    <3>1. c * q \in Nat /\ c * q > 0
      BY <1>3, <2>1
    <3>2. 0 \in FanValues
      BY DEF FanValues
    <3>. QED BY <3>1, <3>2, SpeedType
  <2>3. fanValue' = [fanValue EXCEPT ![f] = v]
    BY <1>2 DEF CountEffect
  <2>. HIDE DEF v, f
  <2>. QED BY <2>2, <2>3 DEF TachometerTypes
<1>6. fanValueObsolete' \in [Fans -> BOOLEAN]
  <2>1. fanValueObsolete' = [fanValueObsolete EXCEPT ![f] = FALSE]
    BY <1>2 DEF CountEffect
  <2>. HIDE DEF f
  <2>. QED BY <2>1 DEF TachometerTypes
<1>7. calm' \in -1 .. 8
  <2>1. calm' = IF measured[f] # OffsetOf(f) THEN -1 ELSE IF f = fanLimit - 1 /\ calm < 8 THEN calm + 1 ELSE calm
    BY <1>2 DEF CountEffect
  <2>2. calm \in -1 .. 8
    BY DEF TachometerTypes
  <2>. HIDE DEF f
  <2>. QED BY <2>1, <2>2
<1>8. chipBank' \in SUBSET Byte /\ chipIndex' \in 0..255 /\ divisorReg' \in [0..4 -> SUBSET Byte]
  BY DEF TachometerTypes, ReadCount, chipVars
<1>9. job' = [job EXCEPT ![t] = CountRead(job[t], c)]
  BY <1>2 DEF CountEffect
<1>10. TachometerTypes'
  BY <1>1, <1>4, <1>5, <1>6, <1>7, <1>8, <1>9, AccessTyped
<1>. QED BY <1>2, <1>3, <1>10

(* Every access goes on with the job it is part of.                        *)
LEMMA AccessKeepsJob ==
  ASSUME TachometerTypes, NEW t \in Threads, Access(t)
  PROVE  /\ TachometerTypes' /\ job[t].access # Done /\ UNCHANGED <<deviceLock, mixed, biosBits, period>>
         /\ \E j \in Jobs : j.wants = job[t].wants /\ job' = [job EXCEPT ![t] = j]
<1>0. job[t] \in Jobs /\ job[t].access \in Accesses
  BY DEF TachometerTypes, Jobs
<1>1. CASE SelectRegister(t)
  <2>1. PICK p \in {0, 2} : Accessing(t, p) /\ job' = [job EXCEPT ![t] = InPhase(job[t], p + 1)]
    BY <1>1, SelectTyped
  <2>2. p + 1 \in 0..3
    OBVIOUS
  <2>3. InPhase(job[t], p + 1) \in Jobs /\ InPhase(job[t], p + 1).wants = job[t].wants
    BY <1>0, <2>2, JobInPhase
  <2>. QED BY <1>1, <2>1, <2>3, SelectTyped DEF Accessing
<1>2. CASE WriteBank(t)
  <2>1. InPhase(job[t], 2) \in Jobs /\ InPhase(job[t], 2).wants = job[t].wants
    BY <1>0, JobInPhase
  <2>. QED BY Zenon, <1>2, <2>1, BankTyped DEF WriteBank, Accessing
<1>3. CASE ReadDivisor(t)
  BY Zenon, <1>3, DivisorTyped DEF ReadDivisor, Accessing
<1>4. CASE ReadCount(t)
  <2>1. PICK c \in 1..255 : CountEffect(t, job[t], c)
    BY <1>4, CountTyped
  <2>2. job[t].access[1] = "count"
    BY <1>4 DEF ReadCount
  <2>3. CountRead(job[t], c) \in Jobs /\ CountRead(job[t], c).wants = job[t].wants
    BY Zenon, <1>0, <2>2, CountReadFields
  <2>. QED BY Zenon, <1>4, <2>1, <2>3, CountTyped DEF ReadCount, Accessing, CountEffect
<1>5. CASE WriteDivisor(t)
  <2>1. AfterWrite(t) \in Accesses /\ job' = [job EXCEPT ![t] = GoingOn(job[t], AfterWrite(t))]
    BY <1>5, WriteTyped
  <2>2. GoingOn(job[t], AfterWrite(t)) \in Jobs /\ GoingOn(job[t], AfterWrite(t)).wants = job[t].wants
    BY <1>0, <2>1, JobGoesOn
  <2>. QED BY <1>5, <2>1, <2>2, WriteTyped DEF WriteDivisor, Accessing
<1>6. CASE ReadTemperature(t)
  <2>1. GoingOn(job[t], Done) \in Jobs /\ GoingOn(job[t], Done).wants = job[t].wants
    BY <1>0, FirstAccesses, JobGoesOn
  <2>. QED BY <1>6, <2>1, TemperatureTyped DEF ReadTemperature, Accessing
<1>. QED BY <1>1, <1>2, <1>3, <1>4, <1>5, <1>6 DEF Access

LEMMA NamesApart ==
  /\ Free \notin Clients /\ Free \notin Fans /\ Free # NoFan /\ Starter \notin Clients
  /\ \A w \in Fans \cup {NoFan} : w # Free
BY TachometerAssumption

LEMMA IdleFields == Idle.wants = Free /\ Idle.access = Done /\ Idle.access[1] = "none" /\ Idle.phase = 0
BY DEF Idle, Done

(* Only one thread at a time has a job.                                    *)
LEMMA OneBusy ==
  ASSUME JobInv, ~mixed, NEW t \in Threads, Busy(t)
  PROVE  Alone(t)
<1>. SUFFICES ASSUME NEW u \in Threads, u # t, Busy(u) PROVE FALSE
  BY DEF Alone, JobInv
<1>1. CASE t = Starter
  BY <1>1, NamesApart DEF JobInv, Threads
<1>2. CASE t \in Clients
  BY <1>2, NamesApart DEF JobInv, Threads
<1>. QED BY <1>1, <1>2 DEF Threads

(* When the lock is free and startPlugin is done nobody has a job.         *)
LEMMA NoneBusy ==
  ASSUME JobInv, deviceLock = Free, ~Busy(Starter)
  PROVE  \A t \in Threads : job[t] = Idle
BY NamesApart DEF JobInv, Threads

LEMMA WorkersBusy == ASSUME JobInv, NEW t \in Threads, job[t].access # Done PROVE Busy(t)
BY IdleFields DEF JobInv
LEMMA InitialInv == TachometerInit => TachometerInv
<1>. SUFFICES ASSUME TachometerInit PROVE TachometerInv
  OBVIOUS
<1>. DEFINE first == Wanting(NoFan, <<"divisor", 0>>)
<1>1. /\ first \in Jobs /\ first.wants = NoFan /\ first.phase = 0 /\ first.access = <<"divisor", 0>>
      /\ first.bits = {} /\ first.newBits = {}
  BY FirstAccesses, NewJobs
<1>. HIDE DEF first
<1>2. /\ job \in [Threads -> Jobs] /\ job[Starter] = first /\ Starter \in Threads
      /\ \A t \in Threads : t # Starter => job[t] = Idle
  BY <1>1, IdleIsJob DEF TachometerInit, first, Threads
<1>3. BitsSoFar
  <2>1. \A t \in Threads : job[t].bits \subseteq {}
    BY <1>1, <1>2 DEF Idle
  <2>. QED BY <2>1 DEF BitsSoFar
<1>4. TachometerTypes
  <2>1. divisorReg \in [0..4 -> SUBSET Byte] /\ biosBits \in [0..4 -> SUBSET Byte]
    BY TachometerAssumption DEF TachometerInit
  <2>2. measured \in [Fans -> Offsets]
    BY OffsetTypes DEF TachometerInit
  <2>3. fanValue \in [Fans -> FanValues] /\ fanValueObsolete \in [Fans -> BOOLEAN]
    <3>1. 0 \in FanValues
      BY DEF FanValues
    <3>. QED BY <3>1 DEF TachometerInit
  <2>4. hasty \in 0..MaxHasty
    BY FanRange DEF TachometerInit
  <2>5. /\ chipBank = {} /\ chipIndex = 0 /\ period \in Periods /\ keyed = {} /\ calm = 0
        /\ mixed = FALSE /\ deviceLock = Free
    BY DEF TachometerInit
  <2>6. chipBank \in SUBSET Byte /\ keyed \in SUBSET Fans /\ deviceLock \in Clients \cup {Free}
    BY <2>5
  <2>7. chipIndex \in 0..255 /\ calm \in -1 .. 8
    BY <2>5
  <2>8. mixed \in BOOLEAN
    BY <2>5
  <2>. QED BY <1>2, <1>3, <2>1, <2>2, <2>3, <2>4, <2>5, <2>6, <2>7, <2>8 DEF TachometerTypes
<1>5. JobInv
  <2>1. \A t \in Threads : Busy(t) <=> t = Starter
    BY <1>1, <1>2, IdleFields, NamesApart DEF Busy
  <2>2. deviceLock = Free
    BY DEF TachometerInit
  <2>3. \A c \in Clients : c \in Threads /\ c # Starter /\ c # Free
    BY NamesApart DEF Threads
  <2>. QED BY <1>2, <2>1, <2>2, <2>3 DEF JobInv
<1>6. OtherBitsKept
  BY DEF OtherBitsKept, TachometerInit
<1>7. ASSUME NEW t \in Threads, NEW j \in Jobs, Alone(t), job[t] = j
      PROVE  JobFor(j)
  <2>1. j = first
    <3>1. first # Idle
      BY <1>1, IdleFields, NamesApart
    <3>. QED BY <1>2, <1>7, <3>1 DEF Alone
  <2>2. SelectedFor(j)
    BY <1>1, <2>1 DEF SelectedFor
  <2>3. RegistersFor(j)
    <3>1. ReadSoFar({}, 0)
      <4>1. \A i \in 0..4 : ~(i < 0)
        OBVIOUS
      <4>. QED BY <4>1 DEF ReadSoFar
    <3>2. j.access[1] = "divisor" /\ j.access[2] = 0
      BY <1>1, <2>1
    <3>. QED BY <1>1, <2>1, <3>1, <3>2 DEF RegistersFor
  <2>4. OffsetsFor(j)
    <3>1. \A f \in Fans : OnItsWay(period[f], OffsetOf(f), 0)
      BY OffsetTypes DEF OnItsWay, Offsets
    <3>. QED BY <1>1, <2>1, <3>1 DEF OffsetsFor, TachometerInit
  <2>5. ValuesFor(j)
    BY <1>1, <2>1 DEF ValuesFor, TachometerInit
  <2>. QED BY <2>2, <2>3, <2>4, <2>5 DEF JobFor
<1>. QED BY <1>4, <1>5, <1>6, <1>7 DEF TachometerInv, WorkInv

(* Whoever has a job keeps the others out, as long as startPlugin is alone. *)
LEMMA JobsKept ==
  ASSUME TachometerTypes, JobInv, [TachometerNext]_w836xVars
  PROVE  JobInv'
<1>1. CASE UNCHANGED w836xVars
  BY <1>1 DEF JobInv, Busy, w836xVars, tachometerVars
<1>2. CASE ChipMeasures
  BY <1>2 DEF JobInv, Busy, ChipMeasures
<1>3. ASSUME NEW c \in Clients, CallForKey(c) PROVE JobInv'
  <2>1. PICK w \in Fans \cup {NoFan}, a \in {<<"divisor", 0>>, Done, <<"temperature", 0>>} :
          job' = [job EXCEPT ![c] = Wanting(w, a)]
    BY <1>3, CallTyped
  <2>2. Wanting(w, a).wants = w /\ w # Free /\ c \in Threads /\ c # Starter
    BY FirstAccesses, NewJobs, NamesApart DEF Threads
  <2>3. job'[c].wants # Free /\ \A u \in Threads \ {c} : job'[u] = job[u]
    BY <2>1, <2>2 DEF TachometerTypes
  <2>4. deviceLock = Free /\ deviceLock' = c /\ mixed' = (mixed \/ Busy(Starter))
    BY <1>3 DEF CallForKey, LockDevice, Busy
  <2>. QED BY <2>2, <2>3, <2>4, NamesApart DEF JobInv, Busy, Threads
<1>4. ASSUME NEW c \in Clients, ReturnReading(c) PROVE JobInv'
  <2>1. c \in Threads /\ c # Starter /\ Busy(c) /\ deviceLock' = Free /\ mixed' = mixed
    BY <1>4, NamesApart DEF ReturnReading, UnlockDevice, Busy, Threads
  <2>2. job'[c] = Idle /\ \A u \in Threads \ {c} : job'[u] = job[u]
    BY <1>4, <2>1 DEF ReturnReading, TachometerTypes
  <2>. QED BY <2>1, <2>2, NamesApart, IdleFields DEF JobInv, Busy, Threads
<1>5. ASSUME NEW t \in Threads, Access(t) PROVE JobInv'
  <2>1. PICK j \in Jobs : j.wants = job[t].wants /\ job' = [job EXCEPT ![t] = j]
    BY <1>5, AccessKeepsJob
  <2>2. UNCHANGED <<deviceLock, mixed>> /\ Busy(t)
    BY <1>5, AccessKeepsJob, WorkersBusy
  <2>3. job'[t].wants = job[t].wants /\ \A u \in Threads \ {t} : job'[u] = job[u]
    BY <2>1 DEF TachometerTypes
  <2>4. Starter \in Threads /\ Clients \subseteq Threads
    BY DEF Threads
  <2>. QED BY <2>2, <2>3, <2>4 DEF JobInv, Busy
<1>6. CASE AddTachometers
  <2>1. Starter \in Threads /\ Starter \notin Clients /\ deviceLock' = deviceLock
    BY <1>6, NamesApart DEF AddTachometers, Threads
  <2>2. job'[Starter] = Idle /\ \A u \in Threads \ {Starter} : job'[u] = job[u]
    BY <1>6, <2>1 DEF AddTachometers, TachometerTypes
  <2>. QED BY <2>1, <2>2, IdleFields DEF JobInv, Busy, Threads
<1>. QED BY <1>1, <1>2, <1>3, <1>4, <1>5, <1>6 DEF TachometerNext

(* What the thread with the job does concerns nobody else.                 *)
LEMMA WorkAfter ==
  ASSUME job \in [Threads -> Jobs], NEW t \in Threads, Alone(t), NEW j \in Jobs,
         job' = [job EXCEPT ![t] = j], JobFor(j)'
  PROVE  WorkInv'
<1>1. job'[t] = j /\ \A u \in Threads \ {t} : job'[u] = Idle
  BY DEF Alone
<1>2. ASSUME NEW u \in Threads, NEW k \in Jobs, Alone(u)', job'[u] = k
      PROVE  k = j
  <2>1. CASE u = t
    BY <1>1, <1>2, <2>1
  <2>2. CASE u # t
    BY <1>1, <1>2, <2>2 DEF Alone
  <2>. QED BY <2>1, <2>2
<1>3. ASSUME NEW u \in Threads, NEW k \in Jobs, Alone(u)', job'[u] = k
      PROVE  JobFor(k)'
  <2>1. k = j
    BY <1>2, <1>3
  <2>. QED BY <2>1
<1>. QED BY <1>3 DEF WorkInv

OffsetAt(reg, f) ==
  LET Value(n) == Bit(ChipBits(f)[n][2] \in reg[ChipBits(f)[n][1]]) IN Value(1) + 2 * Value(2) + 4 * Value(3)

LEMMA OffsetsAt ==
  \A f \in Fans : OffsetOf(f) = OffsetAt(divisorReg, f) /\ OffsetOf(f)' = OffsetAt(divisorReg', f)
BY DEF OffsetOf, OffsetAt

(* Bits that agree with the registers have the same offsets.               *)
LEMMA OffsetsInRegisters ==
  ASSUME NEW reg, NEW bits, \A i \in 0..4 : ByteOf(bits, i) = reg[i]
  PROVE  \A f \in Fans : OffsetIn(bits, f) = OffsetAt(reg, f)
<1>. SUFFICES ASSUME NEW f \in Fans PROVE OffsetIn(bits, f) = OffsetAt(reg, f)
  OBVIOUS
<1>1. ASSUME NEW n \in 1..3
      PROVE  DivisorBits(f)[n] \in bits <=> ChipBits(f)[n][2] \in reg[ChipBits(f)[n][1]]
  <2>. DEFINE i == ChipBits(f)[n][1]
              b == ChipBits(f)[n][2]
  <2>1. i \in 0..4 /\ b \in Byte /\ DivisorBits(f)[n] = b + 8 * (4 - i)
    BY FanRange, BitsAgree
  <2>2. b \in ByteOf(bits, i) <=> b + 8 * (4 - i) \in bits
    BY <2>1 DEF ByteOf
  <2>. QED BY <2>1, <2>2
<1>2. /\ DivisorBits(f)[1] \in bits <=> ChipBits(f)[1][2] \in reg[ChipBits(f)[1][1]]
      /\ DivisorBits(f)[2] \in bits <=> ChipBits(f)[2][2] \in reg[ChipBits(f)[2][1]]
      /\ DivisorBits(f)[3] \in bits <=> ChipBits(f)[3][2] \in reg[ChipBits(f)[3][1]]
  BY <1>1
<1>. QED BY <1>2 DEF OffsetIn, OffsetAt, Bit

LEMMA OffsetsUnchanged ==
  ASSUME divisorReg' = divisorReg
  PROVE  \A f \in Fans : OffsetOf(f)' = OffsetOf(f)
BY OffsetsAt

(* A step that changes only what is selected, and the phase of the job.    *)
LEMMA RestKept ==
  ASSUME divisorReg' = divisorReg, fanValue' = fanValue, calm' = calm, period' = period,
         NEW i, NEW j, j.access = i.access, j.bits = i.bits, j.newBits = i.newBits, JobFor(i)
  PROVE  RegistersFor(j)' /\ OffsetsFor(j)' /\ ValuesFor(j)'
<1>1. RegistersFor(j)'
  BY DEF JobFor, RegistersFor, ReadSoFar
<1>2. OffsetsFor(j)'
  BY OffsetsUnchanged DEF JobFor, OffsetsFor
<1>3. ValuesFor(j)'
  BY OffsetsUnchanged DEF JobFor, ValuesFor
<1>. QED BY <1>1, <1>2, <1>3

(* What an access leads to.                                                *)
Leads(t) == \E j \in Jobs : job' = [job EXCEPT ![t] = j] /\ JobFor(j)'

(* From here on: each access of the one thread at work keeps JobFor.       *)
LEMMA SelectLeads ==
  ASSUME TachometerTypes, NEW t \in Threads, NEW i \in Jobs, job[t] = i, JobFor(i), SelectRegister(t)
  PROVE  Leads(t)
<1>1. PICK p \in {0, 2} :
        /\ Accessing(t, p) /\ job' = [job EXCEPT ![t] = InPhase(job[t], p + 1)]
        /\ chipIndex' = IF p = 0 THEN BankSelect ELSE Address(job[t].access)[2]
  BY SelectTyped
<1>2. p + 1 \in 0..3 /\ (p = 0 => p + 1 = 1) /\ (p = 2 => p + 1 = 3)
  OBVIOUS
<1>3. PICK j : j = InPhase(i, p + 1)
  OBVIOUS
<1>4. /\ j \in Jobs /\ j.phase = p + 1 /\ j.access = i.access /\ j.bits = i.bits /\ j.newBits = i.newBits
      /\ job' = [job EXCEPT ![t] = j]
  BY <1>1, <1>2, <1>3, JobInPhase
<1>5. i.phase = p /\ i.access # Done /\ chipBank' = chipBank
  BY <1>1 DEF Accessing, SelectRegister
<1>6. SelectedFor(j)'
  BY <1>1, <1>2, <1>4, <1>5 DEF SelectedFor, JobFor
<1>7. divisorReg' = divisorReg /\ fanValue' = fanValue /\ calm' = calm /\ period' = period
  BY <1>1 DEF SelectRegister, Accessing, valueVars
<1>8. RegistersFor(j)' /\ OffsetsFor(j)' /\ ValuesFor(j)'
  BY <1>4, <1>7, RestKept
<1>9. JobFor(j)'
  BY <1>6, <1>8 DEF JobFor
<1>. QED BY <1>4, <1>9 DEF Leads

(* A byte for the bank register changes no divisor.                        *)
LEMMA PutBank ==
  ASSUME TachometerTypes, chipIndex = BankSelect, NEW v, PutByte(v)
  PROVE  chipBank' = v /\ divisorReg' = divisorReg
<1>1. \A k \in 0..4 : Divisor[k] # <<chipBank, chipIndex>>
  BY DivisorTable
<1>2. divisorReg' = [k \in 0..4 |-> divisorReg[k]]
  BY <1>1 DEF PutByte
<1>. QED BY <1>2 DEF PutByte, TachometerTypes

LEMMA BankLeads ==
  ASSUME TachometerTypes, NEW t \in Threads, NEW i \in Jobs, job[t] = i, JobFor(i), WriteBank(t)
  PROVE  Leads(t)
<1>1. i.phase = 1 /\ i.access # Done /\ period' = period /\ PutByte(Address(i.access)[1])
  BY DEF WriteBank, Accessing
<1>2. chipIndex = BankSelect
  BY <1>1 DEF JobFor, SelectedFor
<1>3. chipBank' = Address(i.access)[1] /\ divisorReg' = divisorReg
  BY <1>1, <1>2, PutBank
<1>4. PICK j : j = InPhase(i, 2)
  OBVIOUS
<1>5. /\ j \in Jobs /\ j.phase = 2 /\ j.access = i.access /\ j.bits = i.bits /\ j.newBits = i.newBits
      /\ job' = [job EXCEPT ![t] = j]
  BY <1>4, BankTyped, JobInPhase
<1>6. SelectedFor(j)'
  BY <1>3, <1>5 DEF SelectedFor
<1>7. fanValue' = fanValue /\ calm' = calm
  BY DEF WriteBank, valueVars
<1>8. RegistersFor(j)' /\ OffsetsFor(j)' /\ ValuesFor(j)'
  BY <1>1, <1>3, <1>5, <1>7, RestKept
<1>9. JobFor(j)'
  BY <1>6, <1>8 DEF JobFor
<1>. QED BY <1>5, <1>9 DEF Leads

LEMMA TemperatureLeads ==
  ASSUME TachometerTypes, NEW t \in Threads, NEW i \in Jobs, job[t] = i, JobFor(i), ReadTemperature(t)
  PROVE  Leads(t)
<1>1. i.access[1] = "temperature"
  BY DEF ReadTemperature
<1>2. PICK j : j = GoingOn(i, Done)
  OBVIOUS
<1>3. j \in Jobs /\ j.access = Done /\ job' = [job EXCEPT ![t] = j] /\ j.access[1] = "none"
  <2>1. GoingOn(i, Done) \in Jobs /\ GoingOn(i, Done).access = Done
    BY FirstAccesses, JobGoesOn
  <2>2. job' = [job EXCEPT ![t] = GoingOn(i, Done)]
    BY TemperatureTyped
  <2>. QED BY <1>2, <2>1, <2>2 DEF Done
<1>4. divisorReg' = divisorReg /\ fanValue' = fanValue /\ calm' = calm /\ period' = period
  BY DEF ReadTemperature, Accessing, chipVars, valueVars
<1>5. SelectedFor(j)' /\ RegistersFor(j)'
  BY <1>3 DEF SelectedFor, RegistersFor
<1>6. OffsetsFor(j)'
  BY <1>1, <1>3, <1>4, OffsetsUnchanged DEF OffsetsFor, JobFor
<1>7. ValuesFor(j)'
  BY <1>1, <1>3, <1>4, OffsetsUnchanged DEF ValuesFor, JobFor
<1>8. JobFor(j)'
  BY <1>5, <1>6, <1>7 DEF JobFor
<1>. QED BY <1>3, <1>8 DEF Leads
LEMMA SelectedByte ==
  ASSUME NEW k \in 0..4, chipBank = {}, chipIndex = Divisor[k][2]
  PROVE  /\ BytesRead = {divisorReg[k]}
         /\ \A l \in 0..4 : Divisor[l] = <<chipBank, chipIndex>> <=> l = k
<1>1. \A l \in 0..4 : Divisor[l] = <<chipBank, chipIndex>> <=> l = k
  BY DivisorTable
<1>2. {l \in 0..4 : Divisor[l] = <<chipBank, chipIndex>>} = {k}
  BY <1>1
<1>. QED BY <1>1, <1>2 DEF BytesRead

(* One more register has been read, its bits below those read before.      *)
LEMMA OneMoreRead ==
  ASSUME NEW k \in 0..4, divisorReg \in [0..4 -> SUBSET Byte], NEW bits, ReadSoFar(bits, k)
  PROVE  ReadSoFar(ShiftedIn8(bits, divisorReg[k]), k + 1)
<1>. DEFINE new == ShiftedIn8(bits, divisorReg[k])
<1>1. bits \in SUBSET (0 .. 8 * k - 1) /\ divisorReg[k] \in SUBSET Byte
  BY DEF ReadSoFar
<1>2. new \in SUBSET (0 .. 8 * (k + 1) - 1)
  BY <1>1, ShiftedIn DEF ShiftedIn8
<1>3. \A y : y \in new <=> y \in divisorReg[k] \/ \E x \in bits : y = x + 8
  BY DEF ShiftedIn8
<1>. HIDE DEF new
<1>4. \A y \in Nat : y + 8 \in new <=> y \in bits
  <2>1. \A y \in Nat : y + 8 \notin Byte
    BY DEF Byte
  <2>2. \A y \in Nat, x \in bits : y + 8 = x + 8 <=> y = x
    BY <1>1
  <2>. QED BY <1>1, <1>3, <2>1, <2>2
<1>5. \A b \in Byte : b \in new <=> b \in divisorReg[k]
  <2>1. \A b \in Byte, x \in bits : b # x + 8
    BY <1>1 DEF Byte
  <2>. QED BY <1>3, <2>1
<1>6. ASSUME NEW l \in 0..4, NEW b \in Byte, l < k + 1
      PROVE  b + 8 * ((k + 1) - 1 - l) \in new <=> b \in divisorReg[l]
  <2>0. b \in Nat
    BY DEF Byte
  <2>1. CASE l = k
    <3>1. b + 8 * ((k + 1) - 1 - l) = b
      BY <2>0, <2>1
    <3>. QED BY <1>5, <2>1, <3>1
  <2>2. CASE l < k
    <3>1. b + 8 * ((k + 1) - 1 - l) = (b + 8 * (k - 1 - l)) + 8 /\ b + 8 * (k - 1 - l) \in Nat
      BY <2>0, <2>2
    <3>2. b + 8 * (k - 1 - l) \in bits <=> b \in divisorReg[l]
      BY <2>2 DEF ReadSoFar
    <3>. QED BY <1>4, <3>1, <3>2
  <2>. QED BY <1>6, <2>1, <2>2
<1>7. ReadSoFar(new, k + 1)
  BY <1>2, <1>6 DEF ReadSoFar
<1>. QED BY <1>7 DEF new

LEMMA DivisorLeads ==
  ASSUME TachometerTypes, NEW t \in Threads, NEW i \in Jobs, job[t] = i, JobFor(i), ReadDivisor(t)
  PROVE  Leads(t)
<1>1. i.phase = 3 /\ i.access # Done /\ period' = period /\ i.access[1] = "divisor"
  BY DEF ReadDivisor, Accessing
<1>2. PICK k \in 0..4 : i.access[2] = k /\ i.access = <<"divisor", k>>
  <2>1. i.access \in Accesses
    BY DEF Jobs
  <2>. QED BY <1>1, <2>1, AccessKinds
<1>3. chipBank = {} /\ chipIndex = Divisor[k][2]
  <2>1. Address(i.access) = Divisor[k]
    BY <1>2 DEF Address
  <2>. QED BY <1>1, <2>1, DivisorTable DEF JobFor, SelectedFor
<1>4. PICK v \in BytesRead : job' = [job EXCEPT ![t] = DivisorRead(t, v)]
        /\ DivisorRead(t, v) \in Jobs /\ DivisorRead(t, v).phase = 0
        /\ DivisorRead(t, v).access = AfterDivisor(k)
        /\ DivisorRead(t, v).bits = ShiftedIn8(i.bits, v) /\ DivisorRead(t, v).newBits = ShiftedIn8(i.bits, v)
  BY <1>2, DivisorTyped
<1>5. v = divisorReg[k]
  BY <1>3, SelectedByte
<1>6. PICK j \in Jobs : j = DivisorRead(t, v)
  BY <1>4
<1>7. /\ job' = [job EXCEPT ![t] = j] /\ j.phase = 0 /\ j.access = AfterDivisor(k)
      /\ j.bits = ShiftedIn8(i.bits, divisorReg[k]) /\ j.newBits = j.bits
  BY <1>4, <1>5, <1>6
<1>8. /\ divisorReg' = divisorReg /\ fanValue' = fanValue /\ calm' = calm
      /\ divisorReg \in [0..4 -> SUBSET Byte]
  BY DEF ReadDivisor, chipVars, valueVars, TachometerTypes
<1>9. ReadSoFar(j.bits, k + 1)
  <2>1. ReadSoFar(i.bits, k)
    BY <1>1, <1>2 DEF JobFor, RegistersFor
  <2>. QED BY <1>7, <1>8, <2>1, OneMoreRead
<1>10. SelectedFor(j)'
  BY <1>7 DEF SelectedFor
<1>11. /\ \A f \in Fans : OnItsWay(period[f], OffsetOf(f), calm)
       /\ calm = 8 => \A f \in Fans : fanValue[f] = ValueAt(period[f], OffsetOf(f))
  BY <1>1 DEF JobFor, OffsetsFor, ValuesFor
<1>12. /\ \A f \in Fans : OnItsWay(period[f], OffsetOf(f), calm)'
       /\ calm' = 8 => \A f \in Fans : (fanValue[f] = ValueAt(period[f], OffsetOf(f)))'
  BY <1>1, <1>8, <1>11, OffsetsUnchanged
<1>13. CASE k < 4
  <2>1. j.access[1] = "divisor" /\ j.access[2] = k + 1
    BY <1>7, <1>13 DEF AfterDivisor
  <2>2. RegistersFor(j)'
    BY <1>7, <1>8, <1>9, <2>1 DEF RegistersFor, ReadSoFar
  <2>3. OffsetsFor(j)' /\ ValuesFor(j)'
    BY <1>12, <2>1 DEF OffsetsFor, ValuesFor
  <2>. QED BY <1>7, <1>10, <2>2, <2>3 DEF JobFor, Leads
<1>14. CASE k = 4
  <2>1. j.access[1] = "count" /\ j.access[2] = 0
    BY <1>7, <1>14 DEF AfterDivisor
  <2>2. \A l \in 0..4 : ByteOf(j.bits, l) = divisorReg[l]
    <3>1. ReadSoFar(j.bits, 5)
      BY <1>9, <1>14
    <3>. QED BY <1>8, <3>1, AllRead
  <2>3. RegistersFor(j)'
    BY <1>7, <1>8, <2>1, <2>2 DEF RegistersFor, SameBut
  <2>4. \A f \in Fans : ~(f < 0)
    BY FanRange
  <2>5. OffsetsFor(j)' /\ ValuesFor(j)'
    BY <1>7, <1>12, <2>1, <2>4 DEF OffsetsFor, ValuesFor
  <2>. QED BY <1>7, <1>10, <2>3, <2>5 DEF JobFor, Leads
<1>. QED BY <1>13, <1>14

(* An offset counts as on its way when a count had been measured with      *)
(* another one, and after fewer steps than it has done.                    *)
LEMMA FewerSteps ==
  \A p : \A o \in Offsets, k, m \in Int :
    /\ k <= 0 => OnItsWay(p, o, k)
    /\ OnItsWay(p, o, m) /\ k <= m => OnItsWay(p, o, k)
BY DEF OnItsWay, Offsets

(* What the new bits say of the fan just counted, and of the others.       *)
LEMMA CountedOffsets ==
  ASSUME NEW i \in Jobs, i.access[1] = "count", NEW c \in 1..255
  PROVE  LET f == i.access[2] n == CountedBits(i, c) IN
         /\ OffsetIn(n, f) = Moved(c, OffsetIn(i.bits, f))
         /\ \A g \in Fans : g # f => OffsetIn(n, g) = OffsetIn(i.newBits, g)
         /\ \A b : b \notin Mine(f) => (b \in n <=> b \in i.newBits)
<1>1. i.access[2] \in Fans
  <2>1. i.access \in Accesses
    BY DEF Jobs
  <2>. QED BY <2>1, AccessKinds
<1>2. Moved(c, OffsetIn(i.bits, i.access[2])) \in Offsets
  <2>1. OffsetIn(i.bits, i.access[2]) \in Offsets /\ c \in 0..255
    BY <1>1, OffsetTypes
  <2>. QED BY <2>1, MovedType
<1>. QED BY <1>1, <1>2, OffsetWritten, OthersUntouched, WithOffsetBits DEF CountedBits

(* The step that matters: a count moves an offset, or leaves it.           *)
LEMMA CountLeads ==
  ASSUME TachometerTypes, NEW t \in Threads, NEW i \in Jobs, job[t] = i, JobFor(i), ReadCount(t)
  PROVE  Leads(t)
<1>1. i.phase = 3 /\ i.access # Done /\ period' = period /\ i.access[1] = "count" /\ divisorReg' = divisorReg
  BY DEF ReadCount, Accessing, chipVars
<1>2. PICK f \in Fans : i.access[2] = f
  <2>1. i.access \in Accesses
    BY DEF Jobs
  <2>. QED BY <1>1, <2>1, AccessKinds
<1>3. PICK c \in 1..255 : CountEffect(t, i, c)
  BY CountTyped
<1>4. Tachometer[f] = <<chipBank, chipIndex>>
  <2>1. Address(i.access) = Tachometer[f]
    BY <1>1, <1>2 DEF Address
  <2>2. f \in 0..4
    BY FanRange
  <2>. QED BY <1>1, <2>1, <2>2, TachometerTable DEF JobFor, SelectedFor
<1>5. PICK p \in Turning : p = period[f]
  BY FansTurn DEF TachometerTypes
<1>6. PICK o \in Offsets : o = OffsetOf(f)
  BY OffsetTypes
<1>7. PICK k \in -1 .. 8 : k = calm
  BY DEF TachometerTypes
<1>8. /\ \A l \in 0..4 : ByteOf(i.bits, l) = divisorReg[l]
      /\ SameBut(i.bits, i.newBits, {g \in Fans : g < f})
      /\ \A g \in Fans : IF g < f THEN OnItsWay(period[g], OffsetIn(i.newBits, g), calm + 1)
                         ELSE OnItsWay(period[g], OffsetOf(g), calm)
      /\ calm >= 7 => i.newBits = i.bits
      /\ calm = 8 => \A g \in Fans : fanValue[g] = ValueAt(period[g], OffsetOf(g))
      /\ calm >= 7 => \A g \in Fans : g < f => fanValue[g] = ValueAt(period[g], OffsetOf(g))
  BY <1>1, <1>2 DEF JobFor, RegistersFor, OffsetsFor, ValuesFor
<1>9. \A g \in Fans : OffsetIn(i.bits, g) = OffsetOf(g)
  BY <1>8, OffsetsInRegisters, OffsetsAt
<1>10. PICK n : n = CountedBits(i, c)
  OBVIOUS
<1>11. PICK j \in Jobs : j = CountRead(i, c)
  BY Zenon, <1>1, CountReadFields
<1>12. /\ job' = [job EXCEPT ![t] = j] /\ j.phase = 0 /\ j.bits = i.bits /\ j.newBits = n
       /\ j.access = AfterCount(f, i.bits, n)
  BY Zenon, <1>1, <1>2, <1>3, <1>10, <1>11, CountReadFields DEF CountEffect
<1>13. /\ OffsetIn(n, f) = Moved(c, o)
       /\ \A g \in Fans : g # f => OffsetIn(n, g) = OffsetIn(i.newBits, g)
       /\ \A b : b \notin Mine(f) => (b \in n <=> b \in i.newBits)
  BY Zenon, <1>1, <1>2, <1>6, <1>9, <1>10, CountedOffsets
<1>14. /\ fanValue' = [fanValue EXCEPT ![f] = IF c < 255 THEN Speed(c * DivisorAt(o)) ELSE 0]
       /\ calm' = IF measured[f] # o THEN -1 ELSE IF f = fanLimit - 1 /\ k < 8 THEN k + 1 ELSE k
       /\ c = CountAt(p, measured[f])
  BY <1>2, <1>3, <1>4, <1>5, <1>6, <1>7, <1>9 DEF CountEffect
<1>15. SameBut(i.bits, n, {g \in Fans : g < f + 1})
  <2>1. \A g \in Fans : g < f + 1 <=> g < f \/ g = f
    BY FanRange
  <2>2. ASSUME NEW b \in 0..39, \A g \in {g \in Fans : g < f + 1} : b \notin Mine(g)
        PROVE  b \in n <=> b \in i.bits
    <3>1. b \notin Mine(f) /\ \A g \in {g \in Fans : g < f} : b \notin Mine(g)
      BY <2>1, <2>2
    <3>. QED BY <1>8, <1>13, <3>1 DEF SameBut
  <2>. QED BY <2>2 DEF SameBut
(* The registers and what is selected do not depend on what was counted.   *)
<1>16. SelectedFor(j)'
  BY <1>12 DEF SelectedFor
<1>. DEFINE more == f < fanLimit - 1
<1>17. /\ more => j.access[1] = "count" /\ j.access[2] = f + 1
       /\ ~more => /\ f = fanLimit - 1 /\ j.access = WriteBelow(5, i.bits, n)
                   /\ {g \in Fans : g < f + 1} = Fans
  BY <1>12, FanRange DEF AfterCount
<1>18. ~more => /\ j.access[1] = "none" => \A l \in 0..4 : ByteOf(n, l) = divisorReg[l]
                /\ j.access[1] = "write" =>
                     /\ j.access[2] \in 0..4 /\ ByteOf(i.bits, j.access[2]) # ByteOf(n, j.access[2])
                     /\ \A l \in 0..4 : j.access[2] < l => ByteOf(n, l) = divisorReg[l]
                /\ j.access[1] \in {"none", "write"}
  <2>1. SUFFICES ASSUME ~more
        PROVE  /\ j.access[1] = "none" => \A l \in 0..4 : ByteOf(n, l) = divisorReg[l]
               /\ j.access[1] = "write" =>
                    /\ j.access[2] \in 0..4 /\ ByteOf(i.bits, j.access[2]) # ByteOf(n, j.access[2])
                    /\ \A l \in 0..4 : j.access[2] < l => ByteOf(n, l) = divisorReg[l]
               /\ j.access[1] \in {"none", "write"}
    OBVIOUS
  <2>2. j.access = WriteBelow(5, i.bits, n) /\ j.access \in Accesses /\ 5 \in 0..5 /\ \A l \in 0..4 : l < 5
    BY <1>17, <2>1 DEF Jobs
  <2>3. (j.access[1] = "none" => j.access = Done) /\ (j.access[1] = "write" => j.access[2] \in 0..4)
    BY <2>2, AccessKinds
  <2>. HIDE DEF more
  <2>. QED BY <1>8, <2>2, <2>3, BelowIsAccess
<1>19. RegistersFor(j)'
  <2>1. CASE more
    BY <1>1, <1>8, <1>12, <1>15, <1>17, <2>1 DEF RegistersFor
  <2>2. CASE ~more
    <3>1. SameBut(i.bits, n, Fans)
      BY <1>15, <1>17, <2>2
    <3>2. j.access[1] = "write" =>
            \A l \in 0..4 : divisorReg[l] = ByteOf(IF l <= j.access[2] THEN j.bits ELSE j.newBits, l)
      BY <1>8, <1>12, <1>18, <2>2
    <3>. HIDE DEF more
    <3>. QED BY <1>1, <1>12, <1>18, <2>2, <3>1, <3>2 DEF RegistersFor
  <2>. QED BY <2>1, <2>2
<1>. HIDE DEF more
<1>20. OffsetsFor(j)' /\ ValuesFor(j)'
  <2>0. \A g \in Fans : OffsetOf(g)' = OffsetOf(g)
    BY <1>1, OffsetsUnchanged
  <2>1. CASE measured[f] # o
    <3>1. calm' = -1
      BY <1>14, <2>1
    <3>2. \A g \in Fans : /\ OnItsWay(period[g], OffsetOf(g), -1)
                          /\ OnItsWay(period[g], OffsetIn(n, g), -1)
                          /\ OnItsWay(period[g], OffsetIn(n, g), -1 + 1)
      BY OffsetTypes, FewerSteps
    <3>3. OffsetsFor(j)'
      BY <1>1, <1>12, <2>0, <3>1, <3>2 DEF OffsetsFor
    <3>4. ValuesFor(j)'
      BY <3>1 DEF ValuesFor
    <3>. QED BY <3>3, <3>4
  <2>2. CASE measured[f] = o
    <3>1. c = CountAt(p, o)
      BY <1>14, <2>2
    <3>2. \A g \in Fans : g < f + 1 => OnItsWay(period[g], OffsetIn(n, g), k + 1)
      <4>1. OnItsWay(p, Moved(c, o), k + 1)
        <5>1. OnItsWay(p, o, k) /\ k \in Int
          BY <1>5, <1>6, <1>7, <1>8, FanRange
        <5>. QED BY <3>1, <5>1, OneCloser
      <4>2. ASSUME NEW g \in Fans, g < f + 1, g # f
            PROVE  OnItsWay(period[g], OffsetIn(n, g), k + 1)
        <5>1. g < f
          BY <4>2, FanRange
        <5>. QED BY <1>7, <1>8, <1>13, <4>2, <5>1
      <4>. QED BY <1>5, <1>13, <4>1, <4>2
    <3>3. k >= 7 => n = i.bits
      <4>1. SUFFICES ASSUME k >= 7 PROVE n = i.bits
        OBVIOUS
      <4>2. OnItsWay(p, o, k) /\ k \in Int
        BY <1>5, <1>6, <1>7, <1>8, FanRange
      <4>3. Moved(c, o) = o
        BY <3>1, <4>1, <4>2, Arrived
      <4>4. i.newBits = i.bits
        BY <1>7, <1>8, <4>1
      <4>. QED BY <1>2, <1>6, <1>9, <1>10, <4>3, <4>4, SameOffset DEF CountedBits
    <3>4. fanValue'[f] = ValueAt(p, o) /\ \A g \in Fans : g # f => fanValue'[g] = fanValue[g]
      BY <1>14, <3>1 DEF TachometerTypes, ValueAt
    <3>5. CASE more
      <4>1. calm' = k /\ j.access[1] = "count" /\ j.access[2] = f + 1
        BY <1>7, <1>14, <1>17, <2>2, <3>5, FanRange DEF more
      <4>2. \A g \in Fans : ~(g < f + 1) => OnItsWay(period[g], OffsetOf(g), k)
        <5>1. \A g \in Fans : ~(g < f + 1) => ~(g < f)
          BY FanRange
        <5>. QED BY <1>7, <1>8, <5>1
      <4>3. OffsetsFor(j)'
        BY <1>1, <1>12, <2>0, <3>2, <3>3, <4>1, <4>2 DEF OffsetsFor
      <4>4. \A g \in Fans : g < f + 1 /\ k >= 7 => fanValue'[g] = ValueAt(period[g], OffsetOf(g))
        <5>1. \A g \in Fans : g < f + 1 /\ g # f => g < f
          BY FanRange
        <5>. QED BY <1>5, <1>6, <1>7, <1>8, <3>4, <5>1
      <4>5. k = 8 => \A g \in Fans : fanValue'[g] = ValueAt(period[g], OffsetOf(g))
        BY <1>5, <1>6, <1>7, <1>8, <3>4
      <4>6. ValuesFor(j)'
        BY <1>1, <2>0, <4>1, <4>4, <4>5 DEF ValuesFor
      <4>. QED BY <4>3, <4>6
    <3>6. CASE ~more
      <4>0. f = fanLimit - 1 /\ \A g \in Fans : g < f + 1 /\ (g # f => g < f)
        BY <1>17, <3>6, FanRange
      <4>1. PICK m \in Int : calm' = m /\ m <= k + 1 /\ (k < 8 => m = k + 1) /\ (k = 8 => m = 8)
        BY <1>7, <1>14, <2>2, <4>0
      <4>2. \A g \in Fans : OnItsWay(period[g], OffsetIn(n, g), m)
        BY <1>7, <3>2, <4>0, <4>1, OffsetTypes, FewerSteps
      <4>3. j.access[1] = "none" => \A g \in Fans : OffsetIn(n, g) = OffsetOf(g)
        BY <1>18, <3>6, OffsetsInRegisters, OffsetsAt
      <4>4. j.access[1] = "write" => m < 8
        <5>1. j.access[1] = "write" => n # i.bits
          BY <1>18, <3>6
        <5>. QED BY <1>7, <3>3, <4>1, <5>1
      <4>5. OffsetsFor(j)'
        BY <1>1, <1>12, <1>18, <2>0, <3>6, <4>1, <4>2, <4>3, <4>4 DEF OffsetsFor
      <4>6. m = 8 => \A g \in Fans : fanValue'[g] = ValueAt(period[g], OffsetOf(g))
        <5>1. m = 8 => k >= 7
          BY <1>7, <4>1
        <5>2. k >= 7 => \A g \in Fans : fanValue'[g] = ValueAt(period[g], OffsetOf(g))
          BY <1>5, <1>6, <1>7, <1>8, <3>4, <4>0
        <5>. QED BY <5>1, <5>2
      <4>7. ValuesFor(j)'
        BY <1>1, <1>18, <2>0, <3>6, <4>1, <4>6 DEF ValuesFor
      <4>. QED BY <4>5, <4>7
    <3>. QED BY <3>5, <3>6
  <2>. QED BY <2>1, <2>2
<1>21. JobFor(j)'
  BY <1>16, <1>19, <1>20 DEF JobFor
<1>. QED BY <1>12, <1>21 DEF Leads

(* What a thread writes goes to the register that it means.                *)
LEMMA WritesOne ==
  ASSUME TachometerTypes, NEW t \in Threads, NEW i \in Jobs, job[t] = i, JobFor(i), WriteDivisor(t)
  PROVE  \E k \in 0..4 :
           /\ i.access[1] = "write" /\ i.access[2] = k
           /\ divisorReg' = [divisorReg EXCEPT ![k] = ByteOf(i.newBits, k)]
<1>1. i.phase = 3 /\ i.access # Done /\ i.access[1] = "write"
  BY DEF WriteDivisor, Accessing
<1>2. PICK k \in 0..4 : i.access[2] = k
  <2>1. i.access \in Accesses
    BY DEF Jobs
  <2>. QED BY <1>1, <2>1, AccessKinds
<1>3. chipBank = {} /\ chipIndex = Divisor[k][2]
  <2>1. Address(i.access) = Divisor[k]
    BY <1>1, <1>2 DEF Address
  <2>. QED BY <1>1, <2>1, DivisorTable DEF JobFor, SelectedFor
<1>4. \A l \in 0..4 : Divisor[l] = <<chipBank, chipIndex>> <=> l = k
  BY <1>3, SelectedByte
<1>5. divisorReg' = [l \in 0..4 |-> IF Divisor[l] = <<chipBank, chipIndex>> THEN ByteOf(i.newBits, k) ELSE divisorReg[l]]
  BY <1>2 DEF WriteDivisor, PutByte
<1>6. divisorReg' = [l \in 0..4 |-> IF l = k THEN ByteOf(i.newBits, k) ELSE divisorReg[l]]
  BY <1>4, <1>5
<1>7. divisorReg' = [divisorReg EXCEPT ![k] = ByteOf(i.newBits, k)]
  BY <1>6 DEF TachometerTypes
<1>. QED BY <1>1, <1>2, <1>7

(* A register that is written holds the new bits, those below the old      *)
(* ones.                                                                   *)
LEMMA WriteLeads ==
  ASSUME TachometerTypes, NEW t \in Threads, NEW i \in Jobs, job[t] = i, JobFor(i), WriteDivisor(t)
  PROVE  Leads(t)
<1>1. PICK k \in 0..4 : /\ i.access[1] = "write" /\ i.access[2] = k
                        /\ divisorReg' = [divisorReg EXCEPT ![k] = ByteOf(i.newBits, k)]
  BY WritesOne
<1>2. PICK a \in Accesses : a = WriteBelow(k, i.bits, i.newBits) /\ AfterWrite(t) = a
  BY <1>1, WriteTyped DEF AfterWrite
<1>3. PICK j : j = GoingOn(i, a)
  OBVIOUS
<1>4. /\ j \in Jobs /\ j.phase = 0 /\ j.access = a /\ j.bits = i.bits /\ j.newBits = i.newBits
      /\ job' = [job EXCEPT ![t] = j]
  BY <1>2, <1>3, JobGoesOn, WriteTyped
<1>5. fanValue' = fanValue /\ calm' = calm /\ period' = period
  BY DEF WriteDivisor, Accessing, valueVars
<1>6. /\ \A l \in 0..4 : divisorReg[l] = ByteOf(IF l <= k THEN i.bits ELSE i.newBits, l)
      /\ SameBut(i.bits, i.newBits, Fans)
      /\ calm < 8 /\ \A f \in Fans : OnItsWay(period[f], OffsetIn(i.newBits, f), calm)
  BY <1>1 DEF JobFor, RegistersFor, OffsetsFor
<1>7. /\ a[1] = "none" \/ a[1] = "write"
      /\ a[1] = "none" => a = Done
      /\ a = Done => \A l \in 0..4 : l < k => ByteOf(i.bits, l) = ByteOf(i.newBits, l)
      /\ a[1] = "write" =>
           /\ a[2] < k /\ a[2] \in 0..4
           /\ \A l \in 0..4 : a[2] < l /\ l < k => ByteOf(i.bits, l) = ByteOf(i.newBits, l)
  <2>1. k \in 0..5
    OBVIOUS
  <2>. QED BY <1>2, <2>1, AccessKinds, BelowIsAccess
<1>8. \A l \in 0..4 : divisorReg'[l] = IF l = k THEN ByteOf(i.newBits, l) ELSE divisorReg[l]
  BY <1>1 DEF TachometerTypes
<1>9. SelectedFor(j)'
  BY <1>4 DEF SelectedFor
<1>10. a[1] = "write" => \A l \in 0..4 : divisorReg'[l] = ByteOf(IF l <= a[2] THEN i.bits ELSE i.newBits, l)
  <2>1. ASSUME a[1] = "write", NEW l \in 0..4
        PROVE  divisorReg'[l] = ByteOf(IF l <= a[2] THEN i.bits ELSE i.newBits, l)
    <3>1. CASE l <= a[2]
      BY <1>6, <1>7, <1>8, <2>1, <3>1
    <3>2. CASE a[2] < l /\ l < k
      BY <1>6, <1>7, <1>8, <2>1, <3>2
    <3>3. CASE l >= k
      BY <1>6, <1>7, <1>8, <2>1, <3>3
    <3>. QED BY <1>7, <2>1, <3>1, <3>2, <3>3
  <2>. QED BY <2>1
<1>11. RegistersFor(j)'
  BY <1>4, <1>6, <1>7, <1>10 DEF RegistersFor
<1>12. a[1] = "none" => \A f \in Fans : OffsetOf(f)' = OffsetIn(i.newBits, f)
  <2>1. a[1] = "none" => \A l \in 0..4 : ByteOf(i.newBits, l) = divisorReg'[l]
    <3>1. ASSUME a[1] = "none", NEW l \in 0..4 PROVE ByteOf(i.newBits, l) = divisorReg'[l]
      <4>1. CASE l < k
        BY <1>6, <1>7, <1>8, <3>1, <4>1
      <4>2. CASE l >= k
        BY <1>6, <1>8, <3>1, <4>2
      <4>. QED BY <4>1, <4>2
    <3>. QED BY <3>1
  <2>. QED BY <2>1, OffsetsInRegisters, OffsetsAt
<1>13. OffsetsFor(j)'
  BY <1>4, <1>5, <1>6, <1>7, <1>12 DEF OffsetsFor
<1>14. ValuesFor(j)'
  <2>1. calm' # 8
    BY <1>5, <1>6
  <2>. QED BY <1>4, <1>7, <2>1 DEF ValuesFor
<1>15. JobFor(j)'
  BY <1>9, <1>11, <1>13, <1>14 DEF JobFor
<1>. QED BY <1>4, <1>15 DEF Leads

(* The bits that are not part of an offset.                                *)
LEMMA OtherBits ==
  \A k \in 0..4, b \in Byte : <<k, b>> \notin OffsetBits => \A g \in Fans : b + 8 * (4 - k) \notin Mine(g)
<1>1. ASSUME NEW k \in 0..4, NEW b \in Byte, NEW g \in Fans, NEW n \in 1..3,
             DivisorBits(g)[n] = b + 8 * (4 - k)
      PROVE  <<k, b>> \in OffsetBits
  <2>1. /\ ChipBits(g)[n][1] \in 0..4 /\ ChipBits(g)[n][2] \in Byte
        /\ ChipBits(g)[n] = <<ChipBits(g)[n][1], ChipBits(g)[n][2]>>
        /\ ChipBits(g)[n][2] + 8 * (4 - ChipBits(g)[n][1]) = b + 8 * (4 - k)
    BY <1>1, FanRange, BitsAgree
  <2>2. ASSUME NEW x \in 0..4, NEW y \in 0..7, NEW z \in 0..4, NEW w \in 0..7,
               y + 8 * (4 - x) = w + 8 * (4 - z)
        PROVE  x = z /\ y = w
    BY <2>2
  <2>3. ChipBits(g)[n][1] = k /\ ChipBits(g)[n][2] = b
    BY <2>1, <2>2 DEF Byte
  <2>. QED BY <2>1, <2>3 DEF OffsetBits
<1>. QED BY <1>1 DEF Mine

(* And its other bits are as the BIOS has left them.                       *)
LEMMA OthersWritten ==
  ASSUME TachometerTypes, OtherBitsKept, ~mixed, NEW t \in Threads, NEW i \in Jobs, job[t] = i, JobFor(i),
         WriteDivisor(t)
  PROVE  OtherBitsKept'
<1>1. PICK k \in 0..4 : /\ i.access[1] = "write" /\ i.access[2] = k
                        /\ divisorReg' = [divisorReg EXCEPT ![k] = ByteOf(i.newBits, k)]
  BY WritesOne
<1>2. divisorReg[k] = ByteOf(i.bits, k) /\ SameBut(i.bits, i.newBits, Fans)
  BY <1>1 DEF JobFor, RegistersFor
<1>3. ASSUME NEW b \in Byte, <<k, b>> \notin OffsetBits
      PROVE  b \in ByteOf(i.newBits, k) <=> b \in ByteOf(i.bits, k)
  <2>1. b + 8 * (4 - k) \in 0..39
    BY DEF Byte
  <2>2. \A g \in Fans : b + 8 * (4 - k) \notin Mine(g)
    BY <1>3, OtherBits
  <2>3. b + 8 * (4 - k) \in i.newBits <=> b + 8 * (4 - k) \in i.bits
    BY <1>2, <2>1, <2>2 DEF SameBut
  <2>. QED BY <2>3 DEF ByteOf
<1>4. \A l \in 0..4 : divisorReg'[l] = IF l = k THEN ByteOf(i.newBits, k) ELSE divisorReg[l]
  BY <1>1 DEF TachometerTypes
<1>5. biosBits' = biosBits /\ mixed' = mixed
  BY DEF WriteDivisor, Accessing
<1>6. ASSUME NEW l \in 0..4, NEW b \in Byte, <<l, b>> \notin OffsetBits
      PROVE  b \in divisorReg'[l] <=> b \in biosBits[l]
  <2>1. b \in divisorReg[l] <=> b \in biosBits[l]
    BY <1>6 DEF OtherBitsKept
  <2>2. CASE l = k
    BY <1>2, <1>3, <1>4, <1>6, <2>1, <2>2
  <2>3. CASE l # k
    BY <1>4, <2>1, <2>3
  <2>. QED BY <2>2, <2>3
<1>. QED BY <1>5, <1>6 DEF OtherBitsKept
(* The registers change only when a divisor is written to them.            *)
LEMMA OnlyWrites ==
  ASSUME TachometerTypes, NEW t \in Threads, NEW i \in Jobs, job[t] = i, JobFor(i), Access(t), ~WriteDivisor(t)
  PROVE  divisorReg' = divisorReg
<1>1. CASE WriteBank(t)
  <2>1. i.phase = 1 /\ i.access # Done /\ PutByte(Address(i.access)[1])
    BY <1>1 DEF WriteBank, Accessing
  <2>2. chipIndex = BankSelect
    BY <2>1 DEF JobFor, SelectedFor
  <2>. QED BY <2>1, <2>2, PutBank
<1>2. CASE SelectRegister(t) \/ ReadDivisor(t) \/ ReadCount(t) \/ ReadTemperature(t)
  BY Zenon, <1>2 DEF SelectRegister, ReadDivisor, ReadCount, ReadTemperature, chipVars
<1>. QED BY <1>1, <1>2 DEF Access

LEMMA AccessLeads ==
  ASSUME TachometerTypes, NEW t \in Threads, NEW i \in Jobs, job[t] = i, JobFor(i), Access(t)
  PROVE  Leads(t)
BY SelectLeads, BankLeads, DivisorLeads, CountLeads, WriteLeads, TemperatureLeads DEF Access

(* A job that begins or ends leaves the offsets where they are.            *)
LEMMA AtRest ==
  ASSUME UNCHANGED <<chipBank, chipIndex, divisorReg, period, fanValue, calm>>,
         NEW i, i.access[1] \notin {"count", "write"}, JobFor(i),
         NEW j, j.phase = 0, j.bits = {}, j.newBits = {},
         j.access \in {<<"divisor", 0>>, Done, <<"temperature", 0>>}
  PROVE  JobFor(j)'
<1>1. j.access[1] \in {"divisor", "none", "temperature"} /\ (j.access[1] = "divisor" => j.access[2] = 0)
  BY DEF Done
<1>2. SelectedFor(j)'
  BY DEF SelectedFor
<1>3. RegistersFor(j)'
  <2>1. ReadSoFar({}, 0)'
    <3>1. \A l \in 0..4 : ~(l < 0)
      OBVIOUS
    <3>. QED BY <3>1 DEF ReadSoFar
  <2>2. j.access[1] = "divisor" => ReadSoFar(j.bits, j.access[2])'
    BY <1>1, <2>1 DEF ReadSoFar
  <2>. QED BY <1>1, <2>2 DEF RegistersFor
<1>4. OffsetsFor(j)'
  BY <1>1, OffsetsUnchanged DEF OffsetsFor, JobFor
<1>5. ValuesFor(j)'
  BY <1>1, OffsetsUnchanged DEF ValuesFor, JobFor
<1>. QED BY <1>2, <1>3, <1>4, <1>5 DEF JobFor

LEMMA IdleAgain == Idle.phase = 0 /\ Idle.bits = {} /\ Idle.newBits = {} /\ Idle.access = Done
BY DEF Idle

(* A client that comes alone begins where the last one has ended.          *)
LEMMA CallLeads ==
  ASSUME TachometerInv, ~mixed', NEW c \in Clients, CallForKey(c)
  PROVE  WorkInv' /\ OtherBitsKept'
<1>1. ~mixed /\ ~Busy(Starter) /\ deviceLock = Free
  BY DEF CallForKey, LockDevice, Busy
<1>2. \A u \in Threads : job[u] = Idle
  BY <1>1, NoneBusy DEF TachometerInv
<1>3. c \in Threads /\ Alone(c) /\ JobFor(Idle)
  <2>1. c \in Threads /\ Alone(c)
    BY <1>2 DEF Alone, Threads
  <2>. QED BY <1>1, <1>2, <2>1, IdleIsJob DEF TachometerInv, WorkInv
<1>4. PICK w \in Fans \cup {NoFan}, a \in {<<"divisor", 0>>, Done, <<"temperature", 0>>} :
        job' = [job EXCEPT ![c] = Wanting(w, a)]
  BY CallTyped DEF TachometerInv
<1>5. PICK j \in Jobs : /\ job' = [job EXCEPT ![c] = j]
                        /\ j.phase = 0 /\ j.access = a /\ j.bits = {} /\ j.newBits = {}
  <2>1. a \in Accesses /\ w \in Fans \cup {NoFan, Free}
    BY FirstAccesses
  <2>. DEFINE new == Wanting(w, a)
  <2>2. new \in Jobs /\ new.phase = 0 /\ new.access = a /\ new.bits = {} /\ new.newBits = {}
    BY <2>1, NewJobs
  <2>3. job' = [job EXCEPT ![c] = new]
    BY <1>4
  <2>. HIDE DEF new
  <2>. QED BY <2>2, <2>3
<1>6. UNCHANGED <<chipBank, chipIndex, divisorReg, period, fanValue, calm, biosBits>>
  BY DEF CallForKey, chipVars, valueVars
<1>7. JobFor(j)'
  BY <1>3, <1>5, <1>6, IdleFields, AtRest
<1>8. WorkInv'
  BY <1>3, <1>5, <1>7, WorkAfter DEF TachometerInv, TachometerTypes
<1>. QED BY <1>1, <1>6, <1>8 DEF OtherBitsKept, TachometerInv

(* A job that ends leaves the state at rest.                               *)
LEMMA EndLeads ==
  ASSUME TachometerInv, ~mixed, NEW t \in Threads, Busy(t), job[t].access = Done, job' = [job EXCEPT ![t] = Idle],
         UNCHANGED <<chipBank, chipIndex, divisorReg, period, fanValue, calm, biosBits, mixed>>
  PROVE  WorkInv' /\ OtherBitsKept'
<1>1. Alone(t)
  BY OneBusy DEF TachometerInv
<1>2. PICK i \in Jobs : i = job[t]
  BY DEF TachometerInv, TachometerTypes
<1>3. JobFor(i) /\ i.access[1] \notin {"count", "write"}
  BY <1>1, <1>2 DEF TachometerInv, WorkInv, Done
<1>4. PICK j \in Jobs : j = Idle
  BY IdleIsJob
<1>5. JobFor(j)'
  BY <1>3, <1>4, IdleAgain, AtRest
<1>6. WorkInv'
  BY <1>1, <1>4, <1>5, WorkAfter DEF TachometerInv, TachometerTypes
<1>. QED BY <1>6 DEF OtherBitsKept, TachometerInv

(* Every step keeps the invariant.                                         *)
LEMMA InvKept ==
  ASSUME TachometerInv, [TachometerNext]_w836xVars
  PROVE  TachometerInv'
<1>1. TachometerTypes'
  <2>1. CASE UNCHANGED w836xVars
    BY <2>1 DEF TachometerInv, TachometerTypes, BitsSoFar, Stage, w836xVars, tachometerVars, chipVars, valueVars
  <2>2. CASE ChipMeasures
    BY <2>2, MeasuresTyped DEF TachometerInv
  <2>3. ASSUME NEW c \in Clients, CallForKey(c) \/ ReturnReading(c) PROVE TachometerTypes'
    BY <2>3, CallTyped, ReturnTyped DEF TachometerInv
  <2>4. ASSUME NEW t \in Threads, Access(t) PROVE TachometerTypes'
    BY <2>4, AccessKeepsJob DEF TachometerInv
  <2>5. CASE AddTachometers
    BY <2>5, AddTyped DEF TachometerInv
  <2>. QED BY <2>1, <2>2, <2>3, <2>4, <2>5 DEF TachometerNext
<1>2. JobInv'
  BY JobsKept DEF TachometerInv
<1>3. CASE mixed'
  BY <1>1, <1>2, <1>3 DEF TachometerInv, OtherBitsKept, WorkInv
<1>4. CASE ~mixed'
  <2>1. CASE UNCHANGED w836xVars \/ ChipMeasures
    <3>1. UNCHANGED <<chipBank, chipIndex, divisorReg, period, fanValue, calm, biosBits, mixed, job>>
      BY <2>1 DEF ChipMeasures, w836xVars, tachometerVars, chipVars, valueVars
    <3>2. OtherBitsKept'
      BY <3>1 DEF TachometerInv, OtherBitsKept
    <3>3. ASSUME NEW t \in Threads, NEW j \in Jobs, Alone(t)', job'[t] = j PROVE JobFor(j)'
      <4>1. JobFor(j)
        BY <1>4, <3>1, <3>3 DEF TachometerInv, WorkInv, Alone
      <4>2. SelectedFor(j)'
        BY <3>1, <4>1 DEF JobFor, SelectedFor
      <4>3. RegistersFor(j)' /\ OffsetsFor(j)' /\ ValuesFor(j)'
        BY <3>1, <4>1, RestKept
      <4>. QED BY <4>2, <4>3 DEF JobFor
    <3>. QED BY <1>1, <1>2, <3>2, <3>3 DEF TachometerInv, WorkInv
  <2>2. ASSUME NEW c \in Clients, CallForKey(c) PROVE TachometerInv'
    BY <1>1, <1>2, <1>4, <2>2, CallLeads DEF TachometerInv
  <2>3. ASSUME NEW c \in Clients, ReturnReading(c) PROVE TachometerInv'
    <3>1. /\ Busy(c) /\ job[c].access = Done /\ job' = [job EXCEPT ![c] = Idle] /\ c \in Threads
          /\ UNCHANGED <<chipBank, chipIndex, divisorReg, period, fanValue, calm, biosBits, mixed>>
      BY <2>3 DEF ReturnReading, Busy, chipVars, Threads
    <3>. QED BY <1>1, <1>2, <1>4, <3>1, EndLeads DEF TachometerInv
  <2>4. ASSUME NEW t \in Threads, Access(t) PROVE TachometerInv'
    <3>1. UNCHANGED <<mixed, biosBits>> /\ Busy(t)
      BY <2>4, AccessKeepsJob, WorkersBusy DEF TachometerInv
    <3>2. Alone(t)
      BY <1>4, <3>1, OneBusy DEF TachometerInv
    <3>3. PICK i \in Jobs : job[t] = i
      BY DEF TachometerInv, TachometerTypes
    <3>4. JobFor(i)
      BY <1>4, <3>1, <3>2, <3>3 DEF TachometerInv, WorkInv
    <3>5. PICK j \in Jobs : job' = [job EXCEPT ![t] = j] /\ JobFor(j)'
      BY <2>4, <3>3, <3>4, AccessLeads DEF TachometerInv, Leads
    <3>6. WorkInv'
      BY <3>2, <3>5, WorkAfter DEF TachometerInv, TachometerTypes
    <3>7. OtherBitsKept'
      <4>1. CASE WriteDivisor(t)
        BY <1>4, <3>1, <3>3, <3>4, <4>1, OthersWritten DEF TachometerInv
      <4>2. CASE ~WriteDivisor(t)
        BY <2>4, <3>1, <3>3, <3>4, <4>2, OnlyWrites DEF TachometerInv, OtherBitsKept
      <4>. QED BY <4>1, <4>2
    <3>. QED BY <1>1, <1>2, <3>6, <3>7 DEF TachometerInv
  <2>5. CASE AddTachometers
    <3>1. /\ Busy(Starter) /\ job[Starter].access = Done /\ job' = [job EXCEPT ![Starter] = Idle]
          /\ Starter \in Threads
          /\ UNCHANGED <<chipBank, chipIndex, divisorReg, period, fanValue, calm, biosBits, mixed>>
      BY <2>5 DEF AddTachometers, Busy, chipVars, Threads
    <3>. QED BY <1>1, <1>2, <1>4, <3>1, EndLeads DEF TachometerInv
  <2>. QED BY <2>1, <2>2, <2>3, <2>4, <2>5 DEF TachometerNext
<1>. QED BY <1>3, <1>4

(* TachometerInv is inductive.                                             *)
THEOREM TachometersSound == TachometerSpec => []TachometerInv
<1>1. TachometerInit => TachometerInv
  BY InitialInv
<1>2. TachometerInv /\ [TachometerNext]_w836xVars => TachometerInv'
  BY InvKept
<1>. QED BY <1>1, <1>2, PTL DEF TachometerSpec

(* The registers and the readings stay of their types, whatever the        *)
(* threads do to each other, and whatever they read.                       *)
THEOREM TachometersTyped == TachometerSpec => []TachometerTypeOK
<1>1. TachometerInv => TachometerTypeOK
  BY TypesAreOK DEF TachometerInv
<1>. QED BY <1>1, TachometersSound, PTL

(* The updates put back the other bits of the registers as they were.      *)
THEOREM OtherBitsStay == TachometerSpec => []OtherBitsKept
<1>1. TachometerInv => OtherBitsKept
  BY DEF TachometerInv
<1>. QED BY <1>1, TachometersSound, PTL

(* A reading of settled offsets is right to one part in 96.                *)
THEOREM ReadingsRight == TachometerSpec => []SettledReading
<1>1. ASSUME TachometerInv PROVE SettledReading
  <2>1. SUFFICES ASSUME NEW c \in Clients, NEW f \in Fans,
                        ~mixed, job[c].wants = f, job[c].access = Done, calm = 8
        PROVE  IF fanValue[f] = 0 THEN period[f] >= 255 * 128
               ELSE LET speed == Speed(period[f])
                    IN speed <= fanValue[f] /\ 96 * (fanValue[f] - speed - 1) <= speed + 1
    BY DEF SettledReading
  <2>2. c \in Threads /\ Alone(c)
    <3>1. c \in Threads /\ Busy(c)
      BY <2>1, NamesApart DEF Threads, Busy
    <3>. QED BY <1>1, <2>1, <3>1, OneBusy DEF TachometerInv
  <2>3. PICK i \in Jobs : i = job[c]
    BY <1>1, <2>2 DEF TachometerInv, TachometerTypes
  <2>4. JobFor(i) /\ i.access[1] = "none"
    BY <1>1, <2>1, <2>2, <2>3 DEF TachometerInv, WorkInv, Done
  <2>5. fanValue[f] = ValueAt(period[f], OffsetOf(f)) /\ OnItsWay(period[f], OffsetOf(f), 8)
    BY <2>1, <2>4 DEF JobFor, OffsetsFor, ValuesFor
  <2>6. PICK p \in Turning, o \in Offsets : p = period[f] /\ o = OffsetOf(f)
    BY <1>1, FansTurn, OffsetTypes DEF TachometerInv, TachometerTypes
  <2>7. Moved(CountAt(p, o), o) = o
    BY <2>5, <2>6, Arrived
  <2>8. IF ValueAt(p, o) = 0 THEN p >= 255 * 128
        ELSE Speed(p) <= ValueAt(p, o) /\ 96 * (ValueAt(p, o) - Speed(p) - 1) <= Speed(p) + 1
    BY <2>7, ReadingRight
  <2>. QED BY <2>5, <2>6, <2>8
<1>. QED BY <1>1, TachometersSound, PTL

(* An offset that has settled stays where it is.                           *)
THEOREM OffsetsStay == TachometerSpec => OffsetsSettle
<1>1. ASSUME TachometerInv, [TachometerNext]_w836xVars
      PROVE  [\A f \in Fans : ~mixed /\ calm = 8 /\ calm' = 8 => OffsetOf(f)' = OffsetOf(f)]_w836xVars
  <2>1. SUFFICES ASSUME TachometerNext, ~mixed, calm = 8
        PROVE  \A f \in Fans : OffsetOf(f)' = OffsetOf(f)
    BY <1>1
  <2>2. CASE divisorReg' = divisorReg
    BY <2>2, OffsetsUnchanged
  <2>3. ASSUME NEW t \in Threads, Access(t) PROVE divisorReg' = divisorReg
    <3>1. Busy(t)
      BY <1>1, <2>3, AccessKeepsJob, WorkersBusy DEF TachometerInv
    <3>2. Alone(t)
      BY <1>1, <2>1, <3>1, OneBusy DEF TachometerInv
    <3>3. PICK i \in Jobs : job[t] = i
      BY <1>1 DEF TachometerInv, TachometerTypes
    <3>4. JobFor(i)
      BY <1>1, <2>1, <3>2, <3>3 DEF TachometerInv, WorkInv
    <3>5. ~WriteDivisor(t)
      BY <2>1, <3>3, <3>4 DEF WriteDivisor, JobFor, OffsetsFor
    <3>. QED BY <1>1, <2>3, <3>3, <3>4, <3>5, OnlyWrites DEF TachometerInv
  <2>. QED BY <2>1, <2>2, <2>3 DEF TachometerNext, ChipMeasures, CallForKey, ReturnReading, AddTachometers, chipVars
<1>. QED BY <1>1, TachometersSound, PTL DEF TachometerSpec, OffsetsSettle
--------------------------------------------------------------------------------

Bytes == 0..255

(* Without the stack: a setter that finds nothing to push writes its own   *)
(* register only.                                                          *)
LEMMA RegisterValues ==
  /\ Temperatures \subseteq Nat
  /\ \A t \in Registers, w \in Which : t[w] \in Temperatures /\ t[w] \in Nat
<1>1. Temperatures \subseteq Nat
  BY SettingsAssumption
<1>. QED BY <1>1 DEF Registers

(* Each setter as a function is the one whose calls are one deeper. *)
LEMMA SettersApplied ==
  \A t \in Registers, w \in Which, v \in Temperatures :
    /\ Inner[<<t, w, v>>] = SetAfter(t, w, v, Innermost)
    /\ Called[<<t, w, v>>] = SetAfter(t, w, v, Inner)
BY DEF Inner, Called, Calls

LEMMA NoOverflow == ASSUME NEW t \in Registers PROVE t # Overflow
<1>1. t["Stop"] \in Nat
  BY RegisterValues DEF Which
<1>. QED BY <1>1 DEF Overflow

LEMMA StopAlone ==
  ASSUME NEW t \in Registers, NEW v \in Temperatures, v <= t.Start, v <= t.FullOn
  PROVE  /\ Called[<<t, "Stop", v>>] = [t EXCEPT !.Stop = v]
         /\ Inner[<<t, "Stop", v>>] = [t EXCEPT !.Stop = v]
<1>1. ~(t["Start"] < v) /\ ~(t["FullOn"] < v)
  BY RegisterValues DEF Which
<1>2. \A setter : SetAfter(t, "Stop", v, setter) = [t EXCEPT !.Stop = v]
  BY <1>1, NoOverflow DEF SetAfter, Push, CallsOf
<1>3. /\ Called[<<t, "Stop", v>>] = SetAfter(t, "Stop", v, Inner)
      /\ Inner[<<t, "Stop", v>>] = SetAfter(t, "Stop", v, Innermost)
  BY SettersApplied DEF Which
<1>. QED BY <1>2, <1>3

LEMMA FullOnAlone ==
  ASSUME NEW t \in Registers, NEW v \in Temperatures, t.Start <= v, t.Stop <= v
  PROVE  /\ Called[<<t, "FullOn", v>>] = [t EXCEPT !.FullOn = v]
         /\ Inner[<<t, "FullOn", v>>] = [t EXCEPT !.FullOn = v]
<1>1. ~(t["Start"] > v) /\ ~(t["Stop"] > v)
  BY RegisterValues DEF Which
<1>2. \A setter : SetAfter(t, "FullOn", v, setter) = [t EXCEPT !.FullOn = v]
  BY <1>1, NoOverflow DEF SetAfter, Push, CallsOf
<1>3. /\ Called[<<t, "FullOn", v>>] = SetAfter(t, "FullOn", v, Inner)
      /\ Inner[<<t, "FullOn", v>>] = SetAfter(t, "FullOn", v, Innermost)
  BY SettersApplied DEF Which
<1>. QED BY <1>2, <1>3

LEMMA ClampedType ==
  ASSUME NEW t \in Registers, NEW w \in Which, NEW v \in Temperatures
  PROVE  Clamped(t, w, v) \in Registers
  BY DEF Clamped, Registers

(* Two functions on the registers with the same three values. *)
LEMMA SameRegisters ==
  ASSUME NEW s \in Registers, NEW t \in Registers,
         s.Stop = t.Stop, s.Start = t.Start, s.FullOn = t.FullOn
  PROVE  s = t
  BY DEF Registers, Which

(* The setter of the middle temperature pushes one of the others at most.  *)
LEMMA MiddleSetter ==
  ASSUME NEW t \in Registers, Ordered(t), NEW v \in Temperatures
  PROVE  /\ Called[<<t, "Start", v>>] = Clamped(t, "Start", v)
         /\ SetThreshold(t, "Start", v) = Clamped(t, "Start", v)
<1>0. t.Stop \in Nat /\ t.Start \in Nat /\ t.FullOn \in Nat /\ v \in Nat
  BY RegisterValues DEF Registers, Which
<1>. DEFINE one == IF t.Stop > v THEN [t EXCEPT !.Stop = v] ELSE t
            two == IF one.FullOn < v THEN [one EXCEPT !.FullOn = v] ELSE one
<1>1. /\ one \in Registers
      /\ one.Stop = (IF t.Stop > v THEN v ELSE t.Stop) /\ one.Start = t.Start /\ one.FullOn = t.FullOn
  BY <1>0 DEF Registers, Which
<1>2. /\ two \in Registers
      /\ two.Stop = one.Stop /\ two.Start = one.Start
      /\ two.FullOn = (IF t.FullOn < v THEN v ELSE t.FullOn)
  <2>. HIDE DEF one
  <2>. QED BY <1>0, <1>1 DEF Registers, Which
<1>3. /\ t.Stop > v => Inner[<<t, "Stop", v>>] = one /\ Called[<<t, "Stop", v>>] = one
      /\ one.FullOn < v => Inner[<<one, "FullOn", v>>] = two /\ Called[<<one, "FullOn", v>>] = two
  <2>1. t.Stop > v => v <= t.Start /\ v <= t.FullOn
    BY <1>0 DEF Ordered
  <2>2. one.FullOn < v => one.Start <= v /\ one.Stop <= v
    BY <1>0, <1>1 DEF Ordered
  <2>3. t.Stop > v => Inner[<<t, "Stop", v>>] = one /\ Called[<<t, "Stop", v>>] = one
    BY <2>1, StopAlone
  <2>4. one.FullOn < v => Inner[<<one, "FullOn", v>>] = two /\ Called[<<one, "FullOn", v>>] = two
    <3>. HIDE DEF one
    <3>. QED BY <1>1, <2>2, FullOnAlone
  <2>. QED BY <2>3, <2>4
<1>4. t # Overflow /\ one # Overflow /\ two # Overflow
  <2>. HIDE DEF one, two
  <2>. QED BY <1>1, <1>2, NoOverflow
<1>5. /\ Called[<<t, "Start", v>>] = [two EXCEPT !.Start = v]
      /\ SetThreshold(t, "Start", v) = [two EXCEPT !.Start = v]
  <2>1. Called[<<t, "Start", v>>] = [two EXCEPT !.Start = v]
    <3>1. Push(t, <<"Stop", "above">>, v, Inner) = one
      BY <1>3, <1>4 DEF Push
    <3>2. Push(one, <<"FullOn", "below">>, v, Inner) = two
      <4>. HIDE DEF one
      <4>. QED BY <1>3, <1>4 DEF Push
    <3>. HIDE DEF one, two
    <3>3. SetAfter(t, "Start", v, Inner) = [two EXCEPT !.Start = v]
      BY <1>4, <3>1, <3>2 DEF SetAfter, CallsOf
    <3>4. Called[<<t, "Start", v>>] = SetAfter(t, "Start", v, Inner)
      BY SettersApplied DEF Which
    <3>. QED BY <3>3, <3>4
  <2>2. SetThreshold(t, "Start", v) = [two EXCEPT !.Start = v]
    <3>1. Push(t, <<"Stop", "above">>, v, Called) = one
      BY <1>3, <1>4 DEF Push
    <3>2. Push(one, <<"FullOn", "below">>, v, Called) = two
      <4>. HIDE DEF one
      <4>. QED BY <1>3, <1>4 DEF Push
    <3>. HIDE DEF one, two
    <3>. QED BY <1>4, <3>1, <3>2 DEF SetThreshold, SetAfter, CallsOf
  <2>. QED BY <2>1, <2>2
<1>. HIDE DEF one, two
<1>6. ASSUME NEW s, s = [two EXCEPT !.Start = v] PROVE s = Clamped(t, "Start", v)
  <2>1. s \in Registers /\ s.Stop = one.Stop /\ s.Start = v /\ s.FullOn = two.FullOn
    BY <1>2, <1>6 DEF Registers, Which
  <2>2. /\ Clamped(t, "Start", v).Stop = one.Stop /\ Clamped(t, "Start", v).Start = v
        /\ Clamped(t, "Start", v).FullOn = two.FullOn
    BY <1>1, <1>2 DEF Clamped, Which, Rank
  <2>. QED BY <2>1, <2>2, ClampedType, SameRegisters DEF Which
<1>. QED BY <1>5, <1>6

(* In registers that are in order the setters come to an end, and amount   *)
(* to this.                                                                *)
LEMMA SettersEnd ==
  ASSUME NEW t \in Registers, Ordered(t), NEW w \in Which, NEW v \in Temperatures
  PROVE  SetThreshold(t, w, v) = Clamped(t, w, v)
<1>0. t.Stop \in Nat /\ t.Start \in Nat /\ t.FullOn \in Nat /\ t # Overflow /\ v \in Nat
  BY NoOverflow, RegisterValues DEF Registers, Which
<1>1. CASE w = "Start"
  BY <1>1, MiddleSetter
<1>. DEFINE m == Clamped(t, "Start", v)
<1>2. /\ m \in Registers /\ m # Overflow
      /\ m.Stop = (IF t.Stop > v THEN v ELSE t.Stop) /\ m.Start = v
      /\ m.FullOn = (IF t.FullOn < v THEN v ELSE t.FullOn)
  <2>1. m \in Registers
    BY ClampedType DEF Which
  <2>. QED BY <2>1, NoOverflow DEF Clamped, Which, Rank
<1>3. CASE w = "Stop"
  <2>. DEFINE one == IF t.Start < v THEN m ELSE t
  <2>1. /\ one \in Registers /\ one # Overflow /\ one.Stop = t.Stop
        /\ one.Start = (IF t.Start < v THEN v ELSE t.Start)
        /\ one.FullOn = (IF t.FullOn < v THEN v ELSE t.FullOn)
    <3>. HIDE DEF m
    <3>. QED BY <1>0, <1>2 DEF Ordered
  <2>2. ~(one.FullOn < v)
    <3>. HIDE DEF one
    <3>. QED BY <1>0, <2>1
  <2>3. SetThreshold(t, "Stop", v) = [one EXCEPT !.Stop = v]
    <3>1. Push(t, <<"Start", "below">>, v, Called) = one
      BY <1>0, MiddleSetter DEF Push
    <3>2. Push(one, <<"FullOn", "below">>, v, Called) = one
      <4>. HIDE DEF one
      <4>. QED BY <2>2 DEF Push
    <3>. HIDE DEF one
    <3>. QED BY <2>1, <3>1, <3>2 DEF SetThreshold, SetAfter, CallsOf
  <2>. HIDE DEF one, m
  <2>4. /\ SetThreshold(t, "Stop", v) \in Registers
        /\ SetThreshold(t, "Stop", v).Stop = v
        /\ SetThreshold(t, "Stop", v).Start = one.Start
        /\ SetThreshold(t, "Stop", v).FullOn = one.FullOn
    BY <2>1, <2>3 DEF Registers, Which
  <2>5. /\ Clamped(t, "Stop", v).Stop = v /\ Clamped(t, "Stop", v).Start = one.Start
        /\ Clamped(t, "Stop", v).FullOn = one.FullOn
    BY <2>1 DEF Clamped, Which, Rank
  <2>. QED BY <1>3, <2>4, <2>5, ClampedType, SameRegisters
<1>4. CASE w = "FullOn"
  <2>. DEFINE one == IF t.Start > v THEN m ELSE t
  <2>1. /\ one \in Registers /\ one # Overflow /\ one.FullOn = t.FullOn
        /\ one.Start = (IF t.Start > v THEN v ELSE t.Start)
        /\ one.Stop = (IF t.Stop > v THEN v ELSE t.Stop)
    <3>. HIDE DEF m
    <3>. QED BY <1>0, <1>2 DEF Ordered
  <2>2. ~(one.Stop > v)
    <3>. HIDE DEF one
    <3>. QED BY <1>0, <2>1
  <2>3. SetThreshold(t, "FullOn", v) = [one EXCEPT !.FullOn = v]
    <3>1. Push(t, <<"Start", "above">>, v, Called) = one
      BY <1>0, MiddleSetter DEF Push
    <3>2. Push(one, <<"Stop", "above">>, v, Called) = one
      <4>. HIDE DEF one
      <4>. QED BY <2>2 DEF Push
    <3>. HIDE DEF one
    <3>. QED BY <2>1, <3>1, <3>2 DEF SetThreshold, SetAfter, CallsOf
  <2>. HIDE DEF one, m
  <2>4. /\ SetThreshold(t, "FullOn", v) \in Registers
        /\ SetThreshold(t, "FullOn", v).FullOn = v
        /\ SetThreshold(t, "FullOn", v).Start = one.Start
        /\ SetThreshold(t, "FullOn", v).Stop = one.Stop
    BY <2>1, <2>3 DEF Registers, Which
  <2>5. /\ Clamped(t, "FullOn", v).FullOn = v /\ Clamped(t, "FullOn", v).Start = one.Start
        /\ Clamped(t, "FullOn", v).Stop = one.Stop
    BY <2>1 DEF Clamped, Which, Rank
  <2>. QED BY <1>4, <2>4, <2>5, ClampedType, SameRegisters
<1>. QED BY <1>1, <1>3, <1>4 DEF Which

LEMMA ClampedOrdered ==
  ASSUME NEW t \in Registers, Ordered(t), NEW w \in Which, NEW v \in Temperatures
  PROVE  Ordered(Clamped(t, w, v))
<1>1. t.Stop \in Nat /\ t.Start \in Nat /\ t.FullOn \in Nat /\ v \in Nat
  BY RegisterValues DEF Which
<1>. QED BY <1>1 DEF Ordered, Clamped, Which, Rank
--------------------------------------------------------------------------------
SettingTypes ==
  /\ startPWM \in Bytes /\ deltaPWM \in Bytes /\ biosDelta \in Bytes
  /\ chosen \in [duty : 0..127, increase : 0..127]

LawInv == SettingTypes /\ LawKept

LEMMA SettingsInitLaw == SettingsInit => LawInv
<1>. SUFFICES ASSUME SettingsInit PROVE LawInv
  OBVIOUS
<1>1. startPWM \in Bytes /\ deltaPWM \in Bytes /\ biosDelta = deltaPWM
  BY SettingsAssumption DEF SettingsInit, Bytes
<1>2. startPWM % 128 \in 0..127 /\ startPWM \div 128 \in 0..1 /\ deltaPWM % 64 \in 0..63
  BY <1>1 DEF Bytes
<1>3. Increase \in 0..127
  BY <1>2 DEF Increase
<1>4. chosen = [duty |-> startPWM % 128, increase |-> Increase]
  BY DEF SettingsInit
<1>5. chosen.duty = startPWM % 128 /\ chosen.increase = Increase
  BY <1>4
<1>6. chosen \in [duty : 0..127, increase : 0..127]
  BY <1>2, <1>3, <1>4
<1>. QED BY <1>1, <1>5, <1>6 DEF LawInv, SettingTypes, LawKept

LEMMA SettingsNextLaw == LawInv /\ [SettingsNext]_settingsVars => LawInv'
<1>. SUFFICES ASSUME LawInv, [SettingsNext]_settingsVars PROVE LawInv'
  OBVIOUS
<1>0. /\ startPWM \in 0..255 /\ deltaPWM \in 0..255 /\ biosDelta \in 0..255
      /\ chosen \in [duty : 0..127, increase : 0..127]
      /\ chosen.duty \in 0..127 /\ chosen.increase \in 0..127
  BY DEF LawInv, SettingTypes, Bytes
<1>1. CASE UNCHANGED <<startPWM, deltaPWM, biosDelta, chosen>>
  BY <1>1 DEF LawInv, SettingTypes, LawKept, Increase
<1>2. CASE SetStartPWMValue
  <2>0. PICK v \in StartDuties : startPWM' = 128 * (startPWM \div 128) + v /\ chosen' = [chosen EXCEPT !.duty = v]
    BY <1>2 DEF SetStartPWMValue, WithDuty
  <2>1. v \in 0..127
    BY SettingsAssumption
  <2>2. deltaPWM' = deltaPWM /\ biosDelta' = biosDelta
    BY <1>2 DEF SetStartPWMValue
  <2>3. startPWM' \in 0..255 /\ startPWM' % 128 = v /\ startPWM' \div 128 = startPWM \div 128
    BY <1>0, <2>0, <2>1
  <2>4. /\ chosen' \in [duty : 0..127, increase : 0..127]
        /\ chosen'.duty = v /\ chosen'.increase = chosen.increase
    BY <1>0, <2>0, <2>1
  <2>. QED BY <1>0, <2>2, <2>3, <2>4 DEF LawInv, SettingTypes, LawKept, Increase, Bytes
<1>3. CASE SetDeltaPWM
  <2>0. PICK v \in Eighths : /\ startPWM' = (startPWM % 128) + 128 * (v \div 64)
                            /\ deltaPWM' = 128 * (deltaPWM \div 128) + (v % 64)
                            /\ chosen' = [chosen EXCEPT !.increase = v]
    BY <1>3 DEF SetDeltaPWM
  <2>1. v \in 0..127
    BY SettingsAssumption
  <2>2. biosDelta' = biosDelta
    BY <1>3 DEF SetDeltaPWM
  <2>3. v \div 64 \in 0..1 /\ v % 64 \in 0..63 /\ 64 * (v \div 64) + (v % 64) = v
    BY <2>1
  <2>4. /\ startPWM' \in 0..255 /\ startPWM' % 128 = startPWM % 128
        /\ startPWM' \div 128 = v \div 64
    BY <1>0, <2>0, <2>1, <2>3
  <2>5. /\ deltaPWM' \in 0..255 /\ deltaPWM' \div 128 = deltaPWM \div 128
        /\ deltaPWM' % 64 = v % 64
    BY <1>0, <2>0, <2>1, <2>3
  <2>6. /\ chosen' \in [duty : 0..127, increase : 0..127]
        /\ chosen'.duty = chosen.duty /\ chosen'.increase = v
    BY <1>0, <2>0, <2>1
  <2>7. Increase' = v
    BY <2>3, <2>4, <2>5 DEF Increase
  <2>. QED BY <1>0, <2>2, <2>4, <2>5, <2>6, <2>7 DEF LawInv, SettingTypes, LawKept, Bytes
<1>4. CASE \E w \in Which : SetTemperature(w)
  <2>1. UNCHANGED <<startPWM, deltaPWM, biosDelta, chosen>>
    BY <1>4 DEF SetTemperature
  <2>. QED BY <1>1, <2>1
<1>. QED BY <1>1, <1>2, <1>3, <1>4 DEF SettingsNext, settingsVars

(* However the user mixes the two settings, whose bits share registers,    *)
(* both stay what was chosen last, and the switch of the BIOS its own.     *)
THEOREM ChoicesKept == SettingsSpec => []LawKept
<1>1. LawInv => LawKept
  BY DEF LawInv
<1>. QED BY <1>1, SettingsInitLaw, SettingsNextLaw, PTL DEF SettingsSpec

(* The temperatures keep their order, if the BIOS has left them in order.  *)
OrderInv ==
  Ordered(biosThresholds) => thresholds \in [Which -> Temperatures] /\ Ordered(thresholds)

LEMMA InOrderStays ==
  ASSUME Ordered(biosThresholds), OrderInv, NEW w \in Which, SetTemperature(w)
  PROVE  /\ \E v \in Temperatures : thresholds' = Clamped(thresholds, w, v)
         /\ thresholds' \in [Which -> Temperatures] /\ Ordered(thresholds')
<1>1. Temperatures \subseteq Nat /\ thresholds \in Registers /\ Ordered(thresholds)
  <2>1. Temperatures \subseteq Nat
    BY SettingsAssumption
  <2>2. thresholds \in [Which -> Temperatures] /\ Ordered(thresholds)
    BY DEF OrderInv
  <2>. QED BY <2>1, <2>2 DEF Registers
<1>2. PICK v \in Temperatures : thresholds' = SetThreshold(thresholds, w, v)
  BY DEF SetTemperature
<1>3. thresholds' = Clamped(thresholds, w, v)
  BY <1>1, <1>2, SettersEnd
<1>4. thresholds' \in [Which -> Temperatures]
  BY <1>3 DEF Clamped, OrderInv
<1>5. Ordered(thresholds')
  BY <1>1, <1>3, ClampedOrdered
<1>. QED BY <1>3, <1>4, <1>5

LEMMA SettingsNextOrder == OrderInv /\ [SettingsNext]_settingsVars => OrderInv'
<1>. SUFFICES ASSUME OrderInv, [SettingsNext]_settingsVars PROVE OrderInv'
  OBVIOUS
<1>1. biosThresholds' = biosThresholds
  BY DEF SettingsNext, SetTemperature, SetStartPWMValue, SetDeltaPWM, settingsVars
<1>2. CASE thresholds' = thresholds
  BY <1>1, <1>2 DEF OrderInv, Ordered
<1>3. CASE \E w \in Which : SetTemperature(w)
  BY <1>1, <1>3, InOrderStays DEF OrderInv, Ordered
<1>. QED BY <1>2, <1>3 DEF SettingsNext, SetStartPWMValue, SetDeltaPWM, settingsVars

(* The setters of the three temperatures, which call each other, always    *)
(* come to an end and move no temperature further than they have to.       *)
THEOREM SettersAgree == SettingsSpec => SettersClamp
<1>1. SettingsInit => OrderInv
  BY DEF SettingsInit, OrderInv
<1>2. OrderInv /\ [SettingsNext]_settingsVars =>
        [Ordered(biosThresholds) /\ thresholds' # thresholds =>
           \E w \in Which, v \in Temperatures : thresholds' = Clamped(thresholds, w, v)]_settingsVars
  <2>. SUFFICES ASSUME OrderInv, SettingsNext, Ordered(biosThresholds), thresholds' # thresholds
                PROVE  \E w \in Which, v \in Temperatures : thresholds' = Clamped(thresholds, w, v)
    OBVIOUS
  <2>1. PICK w \in Which : SetTemperature(w)
    BY DEF SettingsNext, SetStartPWMValue, SetDeltaPWM
  <2>. QED BY <2>1, InOrderStays
<1>. QED BY <1>1, <1>2, SettingsNextOrder, PTL DEF SettingsSpec, SettersClamp

(* Whatever the BIOS has left, a setter ends with temperatures that can be *)
(* set, or does not end.                                                   *)
Setters == [Calls -> Registers \cup {Overflow}]

LEMMA PushType ==
  ASSUME NEW setter \in Setters, NEW t \in Registers \cup {Overflow}, NEW v \in Temperatures,
         NEW call, call[1] \in Which
  PROVE  Push(t, call, v, setter) \in Registers \cup {Overflow}
<1>1. t # Overflow => <<t, call[1], v>> \in Calls
  BY DEF Calls
<1>2. t # Overflow => setter[<<t, call[1], v>>] \in Registers \cup {Overflow}
  BY <1>1 DEF Setters
<1>. QED BY <1>2 DEF Push

LEMMA SetAfterType ==
  ASSUME NEW setter \in Setters, NEW t \in Registers, NEW w \in Which, NEW v \in Temperatures
  PROVE  SetAfter(t, w, v, setter) \in Registers \cup {Overflow}
<1>1. CallsOf(w)[1][1] \in Which /\ CallsOf(w)[2][1] \in Which
  BY DEF CallsOf, Which
<1>2. Push(t, CallsOf(w)[1], v, setter) \in Registers \cup {Overflow}
  BY <1>1, PushType
<1>3. Push(Push(t, CallsOf(w)[1], v, setter), CallsOf(w)[2], v, setter) \in Registers \cup {Overflow}
  BY <1>1, <1>2, PushType
<1>4. \A p \in Registers : [p EXCEPT ![w] = v] \in Registers
  BY DEF Registers
<1>. QED BY <1>3, <1>4 DEF SetAfter

LEMMA CalledType == Called \in Setters
<1>1. Exhausted \in Setters
  BY DEF Exhausted, Setters
<1>2. \A setter \in Setters : \A c \in Calls : SetAfter(c[1], c[2], c[3], setter) \in Registers \cup {Overflow}
  BY SetAfterType DEF Calls
<1>3. Innermost \in Setters
  BY <1>1, <1>2 DEF Innermost, Setters
<1>4. Inner \in Setters
  BY <1>2, <1>3 DEF Inner, Setters
<1>. QED BY <1>2, <1>4 DEF Called, Setters

LEMMA RegisterTypes == \A t \in Registers \cup {Overflow} : t \in [Which -> Temperatures \cup {-1}]
<1>1. Overflow \in [Which -> {-1}]
  BY DEF Overflow, Which
<1>. QED BY <1>1 DEF Registers

(* The registers hold bytes, and after each setter that ends temperatures. *)
THEOREM SettingsTyped == SettingsSpec => []SettingsTypeOK
<1>. DEFINE Inv == LawInv /\ thresholds \in Registers \cup {Overflow}
<1>1. SettingsInit => Inv
  BY SettingsInitLaw DEF SettingsInit, Registers
<1>2. Inv /\ [SettingsNext]_settingsVars => Inv'
  <2>. SUFFICES ASSUME Inv, [SettingsNext]_settingsVars PROVE thresholds' \in Registers \cup {Overflow}
    BY SettingsNextLaw
  <2>1. CASE \E w \in Which : SetTemperature(w)
    <3>1. PICK w \in Which : SetTemperature(w)
      BY <2>1
    <3>2. PICK v \in Temperatures : thresholds' = SetThreshold(thresholds, w, v) /\ thresholds # Overflow
      BY <3>1 DEF SetTemperature
    <3>. QED BY <3>2, CalledType, SetAfterType DEF SetThreshold
  <2>2. CASE thresholds' = thresholds
    BY <2>2
  <2>. QED BY <2>1, <2>2 DEF SettingsNext, SetStartPWMValue, SetDeltaPWM, settingsVars
<1>3. Inv => SettingsTypeOK
  BY RegisterTypes DEF LawInv, SettingTypes, Bytes, SettingsTypeOK
<1>. QED BY <1>1, <1>2, <1>3, PTL DEF SettingsSpec
--------------------------------------------------------------------------------
LEMMA GuardianConstants ==
  /\ NoController \notin Controllers /\ Names \subseteq Controllers /\ Controllers \subseteq Nat
  /\ 0 \in Controllers /\ IsFiniteSet(Names)
  /\ \A c \in Controllers, k \in Nat : k <= c => k \in Controllers
  /\ 0 \in Levels /\ 127 \in Levels /\ Levels \subseteq 0..127 /\ Sources \subseteq 0..3
  /\ \A f \in Names : Gain[f] \in Nat /\ Gain[f] * 127 > 100
  /\ MaxStops \in Nat
<1>1. Cardinality(Controllers) \in Nat /\ Controllers = 0 .. Cardinality(Controllers) - 1 /\ Controllers # {}
  BY GuardianAssumption, FS_CardinalityType
<1>2. Controllers \subseteq Nat /\ 0 \in Controllers /\ \A c \in Controllers, k \in Nat : k <= c => k \in Controllers
  BY <1>1
<1>3. IsFiniteSet(Names)
  BY GuardianAssumption, FS_Subset
<1>4. \A f \in Names : Gain[f] \in Nat /\ Gain[f] * 127 > 100
  BY GuardianAssumption DEF Top, MAXRPM_TO_DIFFER
<1>. QED BY <1>2, <1>3, <1>4, GuardianAssumption DEF Top

(* Any set of subsets of a finite set has a member with none below it.     *)
LEMMA MinimalSet ==
  \A S, T : IsFiniteSet(S) /\ T \subseteq SUBSET S /\ T # {} =>
            \E A \in T : \A B \in T : B \subseteq A => B = A
<1>. SUFFICES ASSUME NEW S, NEW T, IsFiniteSet(S), T \subseteq SUBSET S, T # {}
              PROVE  \E A \in T : \A B \in T : B \subseteq A => B = A
  OBVIOUS
<1>. DEFINE R == StrictSubsetOrdering(S)
<1>1. IsWellFoundedOn(R, SUBSET S)
  BY FS_StrictSubsetOrderingWellFounded, FS_FiniteSubsetsOfFinite
<1>2. \A B \in T, A \in T : B \subseteq A /\ B # A => <<B, A>> \in R
  BY DEF StrictSubsetOrdering
<1>3. \E A \in T : \A B \in T : ~(<<B, A>> \in R)
  <2>. HIDE DEF R
  <2>. QED BY <1>1, WFMin, Zenon
<1>. HIDE DEF R
<1>. QED BY <1>2, <1>3, Zenon

(* So some fan's speed has changed most, *)
LEMMA Largest ==
  ASSUME NEW h \in [Names -> Nat], Names # {}
  PROVE  \E f \in Names : \A g \in Names : h[f] >= h[g]
<1>. DEFINE Top1(A) == \E f \in A : \A g \in A : h[f] >= h[g]
            T == {A \in SUBSET Names : A # {} /\ ~Top1(A)}
<1>. SUFFICES ASSUME ~Top1(Names) PROVE FALSE
  OBVIOUS
<1>1. Names \in T /\ T \subseteq SUBSET Names
  OBVIOUS
<1>2. \E A \in T : \A B \in T : B \subseteq A => B = A
  <2>. HIDE DEF T
  <2>1. T # {} /\ IsFiniteSet(Names) /\ T \subseteq SUBSET Names
    BY <1>1, GuardianConstants
  <2>. QED BY <2>1, MinimalSet, SMT
<1>2a. PICK A \in T : \A B \in T : B \subseteq A => B = A
  BY <1>2
<1>3. A \subseteq Names /\ A # {} /\ ~Top1(A)
  OBVIOUS
<1>4. PICK x \in A : TRUE
  BY <1>3
<1>5. A \ {x} \notin T
  BY <1>2a, <1>4
<1>6. CASE A \ {x} = {}
  <2>1. A = {x} /\ h[x] \in Nat
    BY <1>3, <1>4, <1>6
  <2>. QED BY <1>3, <2>1
<1>7. CASE Top1(A \ {x})
  <2>1. PICK f \in A \ {x} : \A g \in A \ {x} : h[f] >= h[g]
    BY <1>7
  <2>2. h[x] \in Nat /\ \A g \in A : h[g] \in Nat
    BY <1>3, <1>4
  <2>3. CASE h[f] >= h[x]
    BY <1>3, <2>1, <2>3
  <2>4. CASE ~(h[f] >= h[x])
    <3>1. \A g \in A : h[x] >= h[g]
      BY <2>1, <2>2, <2>4
    <3>. QED BY <1>3, <1>4, <3>1
  <2>. QED BY <2>3, <2>4
<1>. QED BY <1>3, <1>5, <1>6, <1>7

(* and some level is the next one. *)
LEMMA LeastLevel ==
  ASSUME NEW S \in SUBSET Levels, S # {}
  PROVE  Min(S) \in S /\ \A l \in S : Min(S) <= l
<1>0. Levels \subseteq Nat
  BY GuardianConstants
<1>1. PICK k \in S : TRUE
  OBVIOUS
<1>. DEFINE T == {0..n : n \in {i \in S : i <= k}}
<1>2. k \in Nat /\ IsFiniteSet(0..k)
  BY <1>0, FS_Interval
<1>3. 0..k \in T /\ T # {}
  BY <1>2
<1>4. T \subseteq SUBSET (0..k)
  <2>1. ASSUME NEW n \in S, n <= k PROVE 0..n \in SUBSET (0..k)
    BY <1>0, <1>2, <2>1
  <2>. QED BY <2>1
<1>4a. \E A \in T : \A B \in T : B \subseteq A => B = A
  <2>. HIDE DEF T
  <2>1. IsFiniteSet(0..k) /\ T # {} /\ T \subseteq SUBSET (0..k)
    BY <1>2, <1>3, <1>4
  <2>. DEFINE S0 == 0..k
  <2>2. IsFiniteSet(S0) /\ T # {} /\ T \subseteq SUBSET S0
    BY <2>1
  <2>. HIDE DEF S0
  <2>. QED BY <2>2, MinimalSet, SMT
<1>5. PICK A \in T : \A B \in T : B \subseteq A => B = A
  BY <1>4a
<1>6. PICK m \in S : m <= k /\ A = 0..m
  OBVIOUS
<1>7. ASSUME NEW n \in S, n < m PROVE FALSE
  <2>0. n \in Nat /\ m \in Nat /\ n <= k
    BY <1>0, <1>2, <1>6, <1>7
  <2>1. 0..n \in T /\ 0..n \subseteq 0..m /\ m \in 0..m /\ m \notin 0..n
    <3>1. 0..n \in T
      BY <2>0
    <3>2. 0..n \subseteq 0..m /\ m \in 0..m /\ m \notin 0..n
      BY <1>7, <2>0
    <3>. QED BY <3>1, <3>2
  <2>. QED BY <1>5, <1>6, <2>1
<1>8. \A l \in S : m <= l
  BY <1>0, <1>7
<1>9. \E x \in S : \A y \in S : x =< y
  BY <1>8
<1>. QED BY <1>9 DEF Min

--------------------------------------------------------------------------------
Curves == UNION {[L -> Nat] : L \in SUBSET Levels}

Apps == {"off", "asking", "searching", "calibrating", "ready"}

FanObjects == [control : Controllers, Controlable : BOOLEAN, upward : Curves]

Searches ==
  [i : Controllers, step : {"zero", "prev", "top", "cur"}, original : Bytes, prev : [Names -> Nat]]

Calibrations == [step : {"none", "queued", "spin", "restore", "done"}, level : Levels, was : Bytes]

SavedSettings == [control : Controllers \cup {NoController}, value : Bytes, Controlable : BOOLEAN]

GuardianTypes ==
  /\ pwmControl \in [Controllers -> Bytes] /\ biosControl \in [Controllers -> Bytes]
  /\ wiring \in [Names -> Controllers \cup {NoController}]
  /\ app \in Apps
  /\ fanObjects \in [Names -> FanObjects]
  /\ search \in Searches
  /\ calibration \in [Names -> Calibrations]
  /\ Configuration \in [Names -> SavedSettings]
  /\ helperDue \in BOOLEAN /\ stops \in 0..MaxStops
  /\ killedAmid \in BOOLEAN /\ unsaved \in BOOLEAN

Controls(f, c) == fanObjects[f].Controlable /\ fanObjects[f].control = c

(* The settings: none at all, or those of all fans, and fans with the same *)
(* controller have saved the same register.                                *)
SavedInv ==
  /\ \/ \A f \in Names : Configuration[f] = NoSettings
     \/ \A f \in Names : Configuration[f].control \in Controllers
  /\ \A f, g \in Names :
       Configuration[f].control = Configuration[g].control => Configuration[f].value = Configuration[g].value
  /\ HasSettings /\ ~unsaved => \A f \in Names : pwmControl[Configuration[f].control] = Configuration[f].value

(* What the application is doing, and what it has done so far.             *)
PhaseInv ==
  /\ app \in {"asking", "searching", "calibrating"} => ~HasSettings
  /\ app = "ready" => HasSettings \/ Names = {}
  /\ app # "searching" => search = NoSearch
  /\ app \in {"off", "asking"} => fanObjects = [f \in Names |-> NewFan(f)]
  /\ app \in {"off", "asking", "searching"} => calibration = [f \in Names |-> NoCalibration]
  /\ app = "ready" => \A f \in Names : fanObjects[f].Controlable => calibration[f].step \in {"none", "done"}
  /\ app = "searching" => \A f \in Names : fanObjects[f].upward = [l \in {} |-> 0]

(* The controllers that findControllers has been through. *)
Searched == {c \in Controllers : app = "calibrating" \/ (app = "searching" /\ c < search.i)}

FoundInv ==
  app \in {"searching", "calibrating"} =>
    /\ \A f \in Names : fanObjects[f].Controlable =>
         fanObjects[f].control \in Searched /\ wiring[f] = fanObjects[f].control
    /\ \A f, g \in Names, c \in Controllers : Controls(f, c) /\ Controls(g, c) => f = g
    /\ \A c \in Searched : (\E f \in Names : wiring[f] = c) => \E f \in Names : Controls(f, c)

(* While a controller is tried out, the other registers keep the speeds of *)
(* the other fans where they were measured.                                *)
SearchInv ==
  app = "searching" =>
    /\ search.step \in {"prev", "top"} => pwmControl[search.i] = 0
    /\ search.step = "cur" => pwmControl[search.i] = Top
    /\ search.step \in {"top", "cur"} => \A f \in Names :
         IF wiring[f] = search.i THEN search.prev[f] = 0 ELSE search.prev[f] \in Speeds(f)

(* A calibration has the curve up to its level, and sets the register.     *)
Curve(f, L) == [l \in L |-> Gain[f] * l]

Below(l) == {k \in Levels : k < l}

CurveInv ==
  \A f \in Names :
    /\ calibration[f].step = "queued" => fanObjects[f].upward = [l \in {} |-> 0]
    /\ calibration[f].step = "spin" =>
         /\ fanObjects[f].upward = Curve(f, Below(calibration[f].level))
         /\ fanObjects[f].Controlable => pwmControl[fanObjects[f].control] = calibration[f].level
    /\ calibration[f].step \in {"restore", "done"} => fanObjects[f].upward = Curve(f, Levels)

Regulated(r) == Automatic(r) \/ r = Top

TurningInv ==
  app = "calibrating" => \A f \in Names :
    fanObjects[f].Controlable /\ calibration[f].step = "done" => Regulated(pwmControl[fanObjects[f].control])

(* What every register has to be, as long as nothing has been saved and no *)
(* attempt was broken off.                                                 *)
RestoreInv ==
  ~HasSettings /\ ~killedAmid =>
    /\ app \in {"off", "asking", "ready"} => pwmControl = biosControl
    /\ app = "searching" =>
         /\ \A c \in Controllers : c # search.i \/ search.step = "zero" => pwmControl[c] = biosControl[c]
         /\ search.step # "zero" => search.original = biosControl[search.i]
    /\ app = "calibrating" =>
         /\ \A c \in Controllers : (\A f \in Names : ~Controls(f, c)) => pwmControl[c] = biosControl[c]
         /\ \A f \in Names, c \in Controllers : Controls(f, c) =>
              /\ calibration[f].step = "queued" => pwmControl[c] = biosControl[c]
              /\ calibration[f].step \in {"spin", "restore"} => calibration[f].was = biosControl[c]
              /\ calibration[f].step = "done" => pwmControl[c] = Restored(biosControl[c])
              /\ calibration[f].step # "none"

GuardianInv ==
  /\ GuardianTypes /\ SavedInv /\ PhaseInv /\ FoundInv /\ SearchInv
  /\ CurveInv /\ TurningInv /\ RestoreInv
--------------------------------------------------------------------------------
(* The fans that stood still and now turn at full speed: one of them is    *)
(* found, if there is one, and no other fan.                               *)
LEMMA FoundOne ==
  ASSUME NEW cur \in [Names -> Nat], NEW prev \in [Names -> Nat], NEW W \in SUBSET Names,
         \A f \in W : prev[f] = 0 /\ cur[f] = Gain[f] * 127,
         \A f \in Names \ W : Deviation(cur, prev, f) <= 100
  PROVE  /\ WhoDiffers(cur, prev) \cap Names \subseteq W
         /\ W # {} => WhoDiffers(cur, prev) \cap Names # {}
         /\ \A f, g \in WhoDiffers(cur, prev) : f = g
<1>. DEFINE h == [f \in Names |-> Deviation(cur, prev, f)]
            m == MostChanged(cur, prev)
<1>1. WhoDiffers(cur, prev) = {f \in {m} : Deviation(cur, prev, f) > 100}
  BY DEF WhoDiffers, MAXRPM_TO_DIFFER
<1>2. CASE Names = {}
  BY <1>1, <1>2
<1>3. CASE Names # {}
  <2>1. \A f \in Names : Deviation(cur, prev, f) \in Nat
    <3>. SUFFICES ASSUME NEW f \in Names PROVE Deviation(cur, prev, f) \in Nat
      OBVIOUS
    <3>1. cur[f] \in Nat /\ prev[f] \in Nat
      OBVIOUS
    <3>. QED BY <3>1 DEF Deviation
  <2>2. h \in [Names -> Nat] /\ \A f \in Names : h[f] = Deviation(cur, prev, f)
    BY <2>1
  <2>3. \E f \in Names : \A g \in Names : h[f] >= h[g]
    <3>. HIDE DEF h
    <3>. QED BY <1>3, <2>2, Largest
  <2>4. \E f \in Names : \A g \in Names : Deviation(cur, prev, f) >= Deviation(cur, prev, g)
    BY <2>2, <2>3
  <2>5. m \in Names /\ \A g \in Names : Deviation(cur, prev, m) >= Deviation(cur, prev, g)
    BY <2>4 DEF MostChanged
  <2>. HIDE DEF m
  <2>6. \A w \in W : Deviation(cur, prev, w) > 100
    <3>. SUFFICES ASSUME NEW w \in W PROVE Deviation(cur, prev, w) > 100
      OBVIOUS
    <3>1. Gain[w] \in Nat /\ Gain[w] * 127 > 100 /\ prev[w] = 0 /\ cur[w] = Gain[w] * 127
      BY GuardianConstants
    <3>2. cur[w] > 0
      BY <3>1
    <3>. QED BY <3>1, <3>2 DEF Deviation
  <2>7. Deviation(cur, prev, m) > 100 => m \in W
    BY <2>1, <2>5
  <2>8. W # {} => Deviation(cur, prev, m) > 100
    <3>. SUFFICES ASSUME NEW w \in W PROVE Deviation(cur, prev, m) > 100
      OBVIOUS
    <3>1. Deviation(cur, prev, w) > 100 /\ Deviation(cur, prev, m) >= Deviation(cur, prev, w)
      BY <2>5, <2>6
    <3>. QED BY <2>1, <2>5, <3>1
  <2>. QED BY <1>1, <2>5, <2>7, <2>8
<1>. QED BY <1>2, <1>3

(* There are settings exactly when every fan has some. *)
LEMMA AllOrNothing ==
  ASSUME GuardianTypes, SavedInv, NEW f \in Names
  PROVE  /\ HasSettings => Configuration[f].control \in Controllers
         /\ ~HasSettings => Configuration[f] = NoSettings
         /\ Configuration[f].control \in Controllers => HasSettings
<1>1. Configuration[f] = NoSettings => Configuration[f].control \notin Controllers
  BY GuardianConstants DEF NoSettings
<1>. QED BY <1>1 DEF SavedInv, HasSettings

LEMMA SettingsWritten ==
  ASSUME GuardianTypes, SavedInv, HasSettings, WriteSettings, UNCHANGED Configuration
  PROVE  pwmControl' \in [Controllers -> Bytes] /\ SavedInv' /\ HasSettings'
<1>. DEFINE Who(c) == CHOOSE f \in Names : Configuration[f].control = c
<1>1. \A f \in Names : Configuration[f].value \in Bytes /\ Configuration[f].control \in Controllers
  BY AllOrNothing DEF GuardianTypes, SavedSettings
<1>2. pwmControl' = [c \in Controllers |->
        IF \E f \in Names : Configuration[f].control = c THEN Configuration[Who(c)].value ELSE pwmControl[c]]
  BY DEF WriteSettings
<1>3. \A c : (\E f \in Names : Configuration[f].control = c) => Who(c) \in Names /\ Configuration[Who(c)].control = c
  OBVIOUS
<1>. HIDE DEF Who
<1>4. pwmControl' \in [Controllers -> Bytes]
  BY <1>1, <1>2, <1>3 DEF GuardianTypes
<1>5. \A f \in Names : pwmControl'[Configuration[f].control] = Configuration[f].value
  <2>. SUFFICES ASSUME NEW f \in Names PROVE pwmControl'[Configuration[f].control] = Configuration[f].value
    OBVIOUS
  <2>. DEFINE c == Configuration[f].control
              g == Who(c)
  <2>1. c \in Controllers /\ g \in Names /\ Configuration[g].control = c
    BY <1>1, <1>3
  <2>2. Configuration[g].value = Configuration[f].value
    BY <2>1 DEF SavedInv
  <2>3. pwmControl'[c] = Configuration[g].value
    BY <1>2, <2>1
  <2>. QED BY <2>2, <2>3
<1>. QED BY <1>4, <1>5 DEF SavedInv, HasSettings

LEMMA SavedStays ==
  ASSUME SavedInv, UNCHANGED Configuration, HasSettings => unsaved' \/ UNCHANGED <<pwmControl, unsaved>>
  PROVE  SavedInv' /\ (HasSettings' <=> HasSettings)
<1>1. HasSettings' <=> HasSettings
  BY DEF HasSettings
<1>2. HasSettings /\ ~unsaved' => \A f \in Names : pwmControl'[Configuration[f].control] = Configuration[f].value
  BY DEF SavedInv
<1>. QED BY <1>1, <1>2 DEF SavedInv
LEMMA NoFansYet ==
  LET new == [f \in Names |-> NewFan(f)]
      none == [f \in Names |-> NoCalibration]
  IN /\ new \in [Names -> FanObjects] /\ none \in [Names -> Calibrations] /\ NoSearch \in Searches
     /\ \A f \in Names : /\ new[f].control = f /\ new[f].Controlable = FALSE
                         /\ new[f].upward = [l \in {} |-> 0] /\ none[f].step = "none"
     /\ NoSearch.step = "zero" /\ NoSearch.i = 0
<1>1. [l \in {} |-> 0] \in Curves
  BY DEF Curves
<1>2. \A f \in Names : f \in Controllers /\ NewFan(f) \in FanObjects
  BY <1>1, GuardianConstants DEF NewFan, FanObjects
<1>3. NoCalibration \in Calibrations /\ NoSearch \in Searches
  BY GuardianConstants DEF NoCalibration, Calibrations, NoSearch, Searches, Bytes
<1>. QED BY <1>2, <1>3 DEF NewFan, NoCalibration, NoSearch

LEMMA GuardianInitInv == GuardianInit => GuardianInv
<1>. SUFFICES ASSUME GuardianInit PROVE GuardianInv
  OBVIOUS
<1>1. GuardianTypes
  <2>1. NoSettings \in SavedSettings
    BY DEF NoSettings, SavedSettings, Bytes
  <2>2. \A s \in Sources : 128 + s \in Bytes
    BY GuardianConstants DEF Bytes
  <2>3. Top \div 2 \in Bytes
    BY DEF Bytes, Top
  <2>4. biosControl \in [Controllers -> Bytes]
    BY <2>2, <2>3 DEF GuardianInit
  <2>5. 0 \in 0..MaxStops
    BY GuardianConstants
  <2>. QED BY <2>1, <2>4, <2>5, NoFansYet DEF GuardianInit, GuardianTypes, Apps
<1>2. ~HasSettings
  BY DEF HasSettings, GuardianInit
<1>3. SavedInv
  BY <1>2 DEF SavedInv, GuardianInit
<1>4. PhaseInv
  BY <1>2 DEF PhaseInv, GuardianInit
<1>5. FoundInv /\ SearchInv /\ TurningInv
  BY DEF GuardianInit, FoundInv, SearchInv, TurningInv
<1>6. CurveInv
  BY NoFansYet DEF GuardianInit, CurveInv
<1>7. RestoreInv
  BY DEF GuardianInit, RestoreInv
<1>. QED BY <1>1, <1>3, <1>4, <1>5, <1>6, <1>7 DEF GuardianInv

(* An application that is not running or only asks leaves nothing to say   *)
(* of a search or a calibration.                                           *)
LEMMA NothingGoingOn ==
  ASSUME GuardianTypes, app \in {"off", "asking", "ready"}, \A f \in Names : calibration[f].step = "none"
  PROVE  FoundInv /\ SearchInv /\ CurveInv /\ TurningInv
BY DEF FoundInv, SearchInv, CurveInv, TurningInv

LEMMA LaunchInv == ASSUME GuardianInv, Launch PROVE GuardianInv'
<1>. DEFINE new == [f \in Names |-> NewFan(f)]
            known == [f \in Names |-> [NewFan(f) EXCEPT !.control = Configuration[f].control,
                                                        !.Controlable = Configuration[f].Controlable]]
<1>0. GuardianTypes /\ SavedInv /\ PhaseInv /\ RestoreInv
  BY DEF GuardianInv
<1>1. /\ app = "off" /\ search = NoSearch /\ fanObjects = new
      /\ \A f \in Names : calibration[f].step = "none"
      /\ UNCHANGED <<biosControl, wiring, search, calibration, Configuration, helperDue, stops, killedAmid>>
  BY <1>0, NoFansYet DEF Launch, PhaseInv, chipStays
<1>2. CASE HasSettings
  <2>1. app' = "ready" /\ WriteSettings /\ fanObjects' = known
    BY <1>2 DEF Launch
  <2>2. pwmControl' \in [Controllers -> Bytes] /\ SavedInv' /\ HasSettings'
    BY <1>0, <1>1, <1>2, <2>1, SettingsWritten
  <2>3. fanObjects' \in [Names -> FanObjects]
    <3>1. \A f \in Names : Configuration[f].control \in Controllers /\ Configuration[f].Controlable \in BOOLEAN
      BY <1>0, <1>2, AllOrNothing DEF GuardianTypes, SavedSettings
    <3>2. \A f \in Names : NewFan(f) \in FanObjects
      BY NoFansYet
    <3>. QED BY <2>1, <3>1, <3>2 DEF FanObjects
  <2>4. unsaved' \in BOOLEAN
    BY <2>1 DEF WriteSettings
  <2>5. GuardianTypes'
    BY <1>0, <1>1, <2>1, <2>2, <2>3, <2>4 DEF GuardianTypes, Apps
  <2>6. PhaseInv' /\ RestoreInv'
    BY <1>1, <2>1, <2>2 DEF PhaseInv, RestoreInv
  <2>7. (FoundInv /\ SearchInv /\ CurveInv /\ TurningInv)'
    <3>1. FoundInv' /\ SearchInv' /\ TurningInv'
      BY <2>1 DEF FoundInv, SearchInv, TurningInv
    <3>2. CurveInv'
      BY <1>1 DEF CurveInv
    <3>. QED BY <3>1, <3>2
  <2>. QED BY <2>2, <2>5, <2>6, <2>7 DEF GuardianInv
<1>3. CASE ~HasSettings
  <2>1. app' = "asking" /\ fanObjects' = new /\ UNCHANGED <<pwmControl, unsaved>>
    BY <1>3 DEF Launch
  <2>2. GuardianTypes'
    BY <1>0, <1>1, <2>1 DEF GuardianTypes, Apps
  <2>3. SavedInv' /\ ~HasSettings'
    BY <1>0, <1>1, <1>3, <2>1, SavedStays
  <2>4. PhaseInv' /\ RestoreInv'
    <3>1. calibration = [f \in Names |-> NoCalibration]
      BY <1>0, <1>1 DEF PhaseInv
    <3>2. PhaseInv'
      BY <1>1, <2>1, <2>3, <3>1 DEF PhaseInv
    <3>3. RestoreInv'
      BY <1>0, <1>1, <1>3, <2>1 DEF RestoreInv
    <3>. QED BY <3>2, <3>3
  <2>5. FoundInv' /\ SearchInv' /\ TurningInv'
    BY <2>1 DEF FoundInv, SearchInv, TurningInv
  <2>6. CurveInv'
    BY <1>1 DEF CurveInv
  <2>. QED BY <2>2, <2>3, <2>4, <2>5, <2>6 DEF GuardianInv
<1>. QED BY <1>2, <1>3

LEMMA HelperRunsInv == ASSUME GuardianInv, HelperRuns PROVE GuardianInv'
<1>0. GuardianTypes /\ SavedInv /\ PhaseInv /\ FoundInv /\ SearchInv /\ CurveInv /\ TurningInv /\ RestoreInv
  BY DEF GuardianInv
<1>1. /\ UNCHANGED <<biosControl, wiring, app, fanObjects, search, calibration, Configuration, stops, killedAmid>>
      /\ helperDue' = FALSE
  BY DEF HelperRuns, chipStays
<1>2. CASE HasSettings
  <2>1. WriteSettings /\ app \in {"off", "ready"}
    BY <1>0, <1>2 DEF HelperRuns, PhaseInv, GuardianTypes, Apps
  <2>2. pwmControl' \in [Controllers -> Bytes] /\ SavedInv' /\ HasSettings'
    BY <1>0, <1>1, <1>2, <2>1, SettingsWritten
  <2>3. unsaved' \in BOOLEAN
    BY <2>1 DEF WriteSettings
  <2>4. GuardianTypes'
    BY <1>0, <1>1, <2>2, <2>3 DEF GuardianTypes
  <2>5a. PhaseInv'
    BY <1>0, <1>1, <2>1, <2>2 DEF PhaseInv
  <2>5b. RestoreInv'
    BY <2>2 DEF RestoreInv
  <2>6. FoundInv' /\ SearchInv' /\ TurningInv'
    BY <1>1, <2>1 DEF FoundInv, SearchInv, TurningInv
  <2>7. CurveInv'
    <3>1. \A f \in Names : calibration[f].step = "spin" => ~fanObjects[f].Controlable
      BY <1>0, <2>1, NoFansYet DEF PhaseInv
    <3>. QED BY <1>0, <1>1, <3>1 DEF CurveInv
  <2>. QED BY <2>2, <2>4, <2>5a, <2>5b, <2>6, <2>7 DEF GuardianInv
<1>3. CASE ~HasSettings
  <2>1. UNCHANGED <<pwmControl, unsaved>>
    BY <1>3 DEF HelperRuns
  <2>2. GuardianTypes'
    BY <1>0, <1>1, <2>1 DEF GuardianTypes
  <2>3. SavedInv' /\ ~HasSettings'
    BY <1>0, <1>1, <1>3, <2>1, SavedStays
  <2>4. PhaseInv'
    BY <1>0, <1>1, <1>3, <2>3 DEF PhaseInv
  <2>5. FoundInv' /\ SearchInv' /\ CurveInv' /\ TurningInv' /\ RestoreInv'
    <3>1. FoundInv' /\ CurveInv' /\ TurningInv'
      BY <1>0, <1>1, <2>1 DEF FoundInv, Searched, Controls, CurveInv, TurningInv
    <3>2. SearchInv'
      BY <1>0, <1>1, <2>1 DEF SearchInv, Speeds
    <3>3. RestoreInv'
      BY <1>0, <1>1, <1>3, <2>1 DEF RestoreInv, Controls
    <3>. QED BY <3>1, <3>2, <3>3
  <2>. QED BY <2>2, <2>3, <2>4, <2>5 DEF GuardianInv
<1>. QED BY <1>2, <1>3

LEMMA ClickInv == ASSUME GuardianInv, ClickCalibrate PROVE GuardianInv'
<1>0. GuardianTypes /\ SavedInv /\ PhaseInv /\ RestoreInv
  BY DEF GuardianInv
<1>1. /\ app = "asking" /\ app' \in {"searching", "off"}
      /\ UNCHANGED <<biosControl, wiring, pwmControl, fanObjects, search, calibration, Configuration,
                     helperDue, stops, killedAmid, unsaved>>
  BY DEF ClickCalibrate, chipStays
<1>2. GuardianTypes'
  BY <1>0, <1>1 DEF GuardianTypes, Apps
<1>3. SavedInv' /\ (HasSettings' <=> HasSettings) /\ ~HasSettings
  BY <1>0, <1>1, SavedStays DEF PhaseInv
<1>4. /\ search = NoSearch /\ search.step = "zero" /\ search.i = 0
      /\ fanObjects = [f \in Names |-> NewFan(f)] /\ calibration = [f \in Names |-> NoCalibration]
  BY <1>0, <1>1, NoFansYet DEF PhaseInv
<1>5. \A f \in Names : ~fanObjects[f].Controlable /\ fanObjects[f].upward = [l \in {} |-> 0] /\ calibration[f].step = "none"
  BY <1>4, NoFansYet
<1>6. PhaseInv'
  BY <1>1, <1>3, <1>4, <1>5 DEF PhaseInv
<1>7. FoundInv'
  <2>1. \A c \in Controllers : ~(c < search'.i) /\ app' # "calibrating"
    BY <1>1, <1>4, GuardianConstants
  <2>2. Searched' = {}
    BY <2>1 DEF Searched
  <2>. QED BY <1>1, <1>5, <2>2 DEF FoundInv, Controls
<1>8. SearchInv' /\ CurveInv' /\ TurningInv'
  BY <1>1, <1>4, <1>5 DEF SearchInv, CurveInv, TurningInv
<1>9. RestoreInv'
  BY <1>0, <1>1, <1>3, <1>4 DEF RestoreInv
<1>. QED BY <1>2, <1>3, <1>6, <1>7, <1>8, <1>9 DEF GuardianInv
--------------------------------------------------------------------------------
(* The speeds that one register allows a fan differ by no more than the    *)
(* bound.                                                                  *)
LEMMA SpeedsAlike ==
  ASSUME GuardianTypes, NEW f \in Names
  PROVE  /\ Speeds(f) \subseteq Nat
         /\ \A p, q \in Speeds(f) : p - q <= 100
         /\ wiring[f] \in Controllers /\ ~Automatic(pwmControl[wiring[f]]) =>
              Speeds(f) = {Gain[f] * pwmControl[wiring[f]]}
<1>. DEFINE r == pwmControl[wiring[f]]
<1>1. CASE wiring[f] = NoController
  <2>1. Speeds(f) = {900} /\ wiring[f] \notin Controllers
    BY <1>1, GuardianConstants DEF Speeds
  <2>. QED BY <2>1
<1>2. CASE wiring[f] # NoController
  <2>0. wiring[f] \in Controllers /\ Gain[f] \in Nat
    BY <1>2, GuardianConstants DEF GuardianTypes
  <2>1. wiring[f] \in Controllers /\ r \in 0..255 /\ Gain[f] \in Nat
    BY <2>0 DEF GuardianTypes, Bytes
  <2>2. Speeds(f) = IF Automatic(r) THEN {1000, 1100} ELSE {Gain[f] * r}
    BY <1>2 DEF Speeds, MAXRPM_TO_DIFFER
  <2>3. Gain[f] * r \in Nat
    BY <2>1
  <2>. QED BY <2>2, <2>3
<1>. QED BY <1>1, <1>2

LEMMA ReadingsAre ==
  ASSUME GuardianTypes, NEW r \in Readings
  PROVE  r \in [Names -> Nat] /\ \A f \in Names : r[f] \in Speeds(f)
<1>1. \A f \in Names : r[f] \in Speeds(f) /\ Speeds(f) \subseteq Nat
  BY SpeedsAlike DEF Readings
<1>2. r = [f \in Names |-> r[f]]
  BY DEF Readings
<1>. QED BY <1>1, <1>2

(* What all steps of findControllers have in common. *)
LEMMA SearchStepKeeps ==
  ASSUME GuardianInv, NEW step, SearchStep(step)
  PROVE  /\ app = "searching" /\ search.step = step /\ ~HasSettings
         /\ UNCHANGED <<biosControl, wiring, Configuration, helperDue, stops, killedAmid, unsaved>>
         /\ SavedInv' /\ ~HasSettings'
         /\ calibration = [f \in Names |-> NoCalibration]
         /\ \A f \in Names : calibration[f].step = "none" /\ fanObjects[f].upward = [l \in {} |-> 0]
<1>0. SavedInv /\ PhaseInv
  BY DEF GuardianInv
<1>1. /\ app = "searching" /\ search.step = step
      /\ UNCHANGED <<biosControl, wiring, Configuration, helperDue, stops, killedAmid, unsaved>>
  BY DEF SearchStep, chipStays
<1>2. ~HasSettings
  BY <1>0, <1>1 DEF PhaseInv
<1>3. SavedInv' /\ ~HasSettings'
  BY <1>0, <1>1, <1>2, SavedStays
<1>4. calibration = [f \in Names |-> NoCalibration] /\ \A f \in Names : fanObjects[f].upward = [l \in {} |-> 0]
  BY <1>0, <1>1 DEF PhaseInv
<1>5. \A f \in Names : calibration[f].step = "none"
  BY <1>4, NoFansYet
<1>. QED BY <1>1, <1>2, <1>3, <1>4, <1>5

(* The steps before the last go on with the same controller. *)
LEMMA SameController ==
  ASSUME GuardianInv, NEW step, SearchStep(step), UNCHANGED <<app, fanObjects, calibration>>, search'.i = search.i
  PROVE  PhaseInv' /\ FoundInv' /\ CurveInv' /\ TurningInv'
<1>0. PhaseInv /\ FoundInv /\ CurveInv /\ TurningInv
  BY DEF GuardianInv
<1>1. /\ app = "searching" /\ app' = "searching" /\ ~HasSettings' /\ wiring' = wiring
      /\ calibration = [f \in Names |-> NoCalibration]
      /\ \A f \in Names : calibration[f].step = "none" /\ fanObjects[f].upward = [l \in {} |-> 0]
  BY SearchStepKeeps
<1>2. PhaseInv'
  BY <1>1 DEF PhaseInv
<1>3. Searched' = Searched
  BY <1>1 DEF Searched
<1>4. FoundInv'
  BY <1>0, <1>1, <1>3 DEF FoundInv, Controls
<1>5. CurveInv' /\ TurningInv'
  BY <1>1 DEF CurveInv, TurningInv
<1>. QED BY <1>2, <1>4, <1>5

LEMMA StopFanInv == ASSUME GuardianInv, StopFan PROVE GuardianInv'
<1>. DEFINE i == search.i
<1>0. GuardianTypes /\ RestoreInv
  BY DEF GuardianInv
<1>1. /\ SearchStep("zero") /\ pwmControl' = [pwmControl EXCEPT ![i] = 0]
      /\ search' = [search EXCEPT !.step = "prev", !.original = pwmControl[i]]
      /\ UNCHANGED <<app, fanObjects, calibration>>
  BY DEF StopFan
<1>2. /\ app = "searching" /\ search.step = "zero" /\ ~HasSettings
      /\ UNCHANGED <<biosControl, wiring, Configuration, helperDue, stops, killedAmid, unsaved>> /\ SavedInv' /\ ~HasSettings'
  BY <1>1, SearchStepKeeps
<1>3. i \in Controllers /\ pwmControl[i] \in Bytes
  BY <1>0 DEF GuardianTypes, Searches
<1>4. /\ pwmControl' \in [Controllers -> Bytes] /\ pwmControl'[i] = 0
      /\ \A c \in Controllers : c # i => pwmControl'[c] = pwmControl[c]
  BY <1>0, <1>1, <1>3 DEF GuardianTypes, Bytes
<1>5. search' \in Searches /\ search'.i = i /\ search'.step = "prev" /\ search'.original = pwmControl[i]
  BY <1>0, <1>1, <1>3 DEF GuardianTypes, Searches
<1>6. GuardianTypes'
  BY <1>0, <1>1, <1>2, <1>4, <1>5 DEF GuardianTypes
<1>7. PhaseInv' /\ FoundInv' /\ CurveInv' /\ TurningInv'
  BY <1>1, <1>5, SameController
<1>8. SearchInv'
  BY <1>4, <1>5 DEF SearchInv
<1>9. RestoreInv'
  <2>. SUFFICES ASSUME ~killedAmid PROVE RestoreInv'
    BY <1>2 DEF RestoreInv
  <2>1. \A c \in Controllers : pwmControl[c] = biosControl[c]
    BY <1>0, <1>2 DEF RestoreInv
  <2>. QED BY <1>1, <1>2, <1>3, <1>4, <1>5, <2>1 DEF RestoreInv
<1>. QED BY <1>2, <1>6, <1>7, <1>8, <1>9 DEF GuardianInv

LEMMA MeasureStoppedInv == ASSUME GuardianInv, MeasureStopped PROVE GuardianInv'
<1>. DEFINE i == search.i
<1>0. GuardianTypes /\ SearchInv /\ RestoreInv
  BY DEF GuardianInv
<1>1. PICK r \in Readings : search' = [search EXCEPT !.step = "top", !.prev = r]
  BY DEF MeasureStopped
<1>2. SearchStep("prev") /\ UNCHANGED <<app, fanObjects, pwmControl, calibration>>
  BY DEF MeasureStopped
<1>3. /\ app = "searching" /\ search.step = "prev" /\ ~HasSettings
      /\ UNCHANGED <<biosControl, wiring, Configuration, helperDue, stops, killedAmid, unsaved>> /\ SavedInv' /\ ~HasSettings'
  BY <1>2, SearchStepKeeps
<1>4. r \in [Names -> Nat] /\ \A f \in Names : r[f] \in Speeds(f)
  BY <1>0, ReadingsAre
<1>5. search' \in Searches /\ search'.i = i /\ search'.step = "top" /\ search'.original = search.original /\ search'.prev = r
  BY <1>0, <1>1, <1>4 DEF GuardianTypes, Searches
<1>6. GuardianTypes'
  BY <1>0, <1>2, <1>3, <1>5 DEF GuardianTypes
<1>7. PhaseInv' /\ FoundInv' /\ CurveInv' /\ TurningInv'
  BY <1>2, <1>5, SameController
<1>8. SearchInv'
  <2>1. pwmControl[i] = 0 /\ i \in Controllers
    BY <1>0, <1>3 DEF SearchInv, GuardianTypes, Searches
  <2>2. \A f \in Names : wiring[f] = i => r[f] = 0
    <3>. SUFFICES ASSUME NEW f \in Names, wiring[f] = i PROVE r[f] = 0
      OBVIOUS
    <3>1. Speeds(f) = {Gain[f] * 0} /\ Gain[f] \in Nat
      BY <1>0, <2>1, SpeedsAlike, GuardianConstants DEF Automatic
    <3>. QED BY <1>4, <3>1
  <2>3. \A f \in Names : Speeds(f)' = Speeds(f)
    BY <1>2, <1>3 DEF Speeds
  <2>. QED BY <1>2, <1>3, <1>4, <1>5, <2>1, <2>2, <2>3 DEF SearchInv
<1>9. RestoreInv'
  BY <1>0, <1>2, <1>3, <1>5 DEF RestoreInv
<1>. QED BY <1>3, <1>6, <1>7, <1>8, <1>9 DEF GuardianInv

LEMMA SpeedUpFanInv == ASSUME GuardianInv, SpeedUpFan PROVE GuardianInv'
<1>. DEFINE i == search.i
<1>0. GuardianTypes /\ SearchInv /\ RestoreInv
  BY DEF GuardianInv
<1>1. /\ SearchStep("top") /\ pwmControl' = [pwmControl EXCEPT ![i] = Top]
      /\ search' = [search EXCEPT !.step = "cur"]
      /\ UNCHANGED <<app, fanObjects, calibration>>
  BY DEF SpeedUpFan
<1>2. /\ app = "searching" /\ search.step = "top" /\ ~HasSettings
      /\ UNCHANGED <<biosControl, wiring, Configuration, helperDue, stops, killedAmid, unsaved>> /\ SavedInv' /\ ~HasSettings'
  BY <1>1, SearchStepKeeps
<1>3. i \in Controllers
  BY <1>0 DEF GuardianTypes, Searches
<1>4. /\ pwmControl' \in [Controllers -> Bytes] /\ pwmControl'[i] = Top
      /\ \A c \in Controllers : c # i => pwmControl'[c] = pwmControl[c]
  BY <1>0, <1>1, <1>3 DEF GuardianTypes, Bytes, Top
<1>5. search' \in Searches /\ search'.i = i /\ search'.step = "cur" /\ search'.original = search.original /\ search'.prev = search.prev
  BY <1>0, <1>1 DEF GuardianTypes, Searches
<1>6. GuardianTypes'
  BY <1>0, <1>1, <1>2, <1>4, <1>5 DEF GuardianTypes
<1>7. PhaseInv' /\ FoundInv' /\ CurveInv' /\ TurningInv'
  BY <1>1, <1>5, SameController
<1>8. SearchInv'
  <2>1. \A f \in Names : wiring[f] # i => Speeds(f)' = Speeds(f)
    <3>. SUFFICES ASSUME NEW f \in Names, wiring[f] # i PROVE Speeds(f)' = Speeds(f)
      OBVIOUS
    <3>1. wiring[f] # NoController => pwmControl'[wiring[f]] = pwmControl[wiring[f]]
      BY <1>0, <1>4 DEF GuardianTypes
    <3>. QED BY <1>2, <3>1 DEF Speeds
  <2>2. \A f \in Names : IF wiring[f] = i THEN search.prev[f] = 0 ELSE search.prev[f] \in Speeds(f)
    BY <1>0, <1>2 DEF SearchInv
  <2>. QED BY <1>2, <1>4, <1>5, <2>1, <2>2 DEF SearchInv
<1>9. RestoreInv'
  <2>. SUFFICES ASSUME ~killedAmid PROVE RestoreInv'
    BY <1>2 DEF RestoreInv
  <2>1. (\A c \in Controllers : c # i => pwmControl[c] = biosControl[c]) /\ search.original = biosControl[i]
    BY <1>0, <1>2 DEF RestoreInv
  <2>. QED BY <1>1, <1>2, <1>4, <1>5, <2>1 DEF RestoreInv
<1>. QED BY <1>2, <1>6, <1>7, <1>8, <1>9 DEF GuardianInv

LEMMA FoundControllerInv == ASSUME GuardianInv, FoundController PROVE GuardianInv'
<1>. DEFINE i == search.i
            W == {f \in Names : wiring[f] = i}
<1>0. GuardianTypes /\ PhaseInv /\ FoundInv /\ SearchInv /\ RestoreInv
  BY DEF GuardianInv
<1>1. SearchStep("cur") /\ pwmControl' = [pwmControl EXCEPT ![i] = search.original]
  BY DEF FoundController, TheOriginal
<1>2. /\ app = "searching" /\ search.step = "cur" /\ ~HasSettings
      /\ UNCHANGED <<biosControl, wiring, Configuration, helperDue, stops, killedAmid, unsaved>> /\ SavedInv' /\ ~HasSettings'
      /\ calibration = [f \in Names |-> NoCalibration]
      /\ \A f \in Names : calibration[f].step = "none" /\ fanObjects[f].upward = [l \in {} |-> 0]
  BY <1>1, SearchStepKeeps
<1>3. PICK r \in Readings :
        fanObjects' = [f \in Names |->
          IF f \in WhoDiffers(r, search.prev) THEN [fanObjects[f] EXCEPT !.control = i, !.Controlable = TRUE]
          ELSE fanObjects[f]]
  BY DEF FoundController
<1>. DEFINE found == WhoDiffers(r, search.prev)
<1>4. i \in Controllers /\ i \in Nat /\ search.original \in Bytes /\ search.prev \in [Names -> Nat]
  BY <1>0, GuardianConstants DEF GuardianTypes, Searches
<1>5. /\ found \cap Names \subseteq W
      /\ W # {} => found \cap Names # {}
      /\ \A f, g \in found : f = g
  <2>1. r \in [Names -> Nat] /\ \A f \in Names : r[f] \in Speeds(f)
    BY <1>0, ReadingsAre
  <2>2. \A f \in W : search.prev[f] = 0 /\ r[f] = Gain[f] * 127
    <3>. SUFFICES ASSUME NEW f \in W PROVE search.prev[f] = 0 /\ r[f] = Gain[f] * 127
      OBVIOUS
    <3>1. pwmControl[wiring[f]] = 127 /\ wiring[f] \in Controllers
      BY <1>0, <1>2, <1>4 DEF SearchInv, Top
    <3>2. Speeds(f) = {Gain[f] * 127}
      BY <1>0, <3>1, SpeedsAlike DEF Automatic
    <3>. QED BY <1>0, <1>2, <2>1, <3>2 DEF SearchInv
  <2>3. \A f \in Names \ W : Deviation(r, search.prev, f) <= 100
    <3>. SUFFICES ASSUME NEW f \in Names, wiring[f] # i PROVE Deviation(r, search.prev, f) <= 100
      OBVIOUS
    <3>1. r[f] \in Speeds(f) /\ search.prev[f] \in Speeds(f)
      BY <1>0, <1>2, <2>1 DEF SearchInv
    <3>2. r[f] - search.prev[f] <= 100 /\ search.prev[f] - r[f] <= 100
      BY <1>0, <3>1, SpeedsAlike
    <3>. QED BY <3>2 DEF Deviation
  <2>. HIDE DEF W
  <2>4. W \in SUBSET Names
    BY DEF W
  <2>. QED BY <1>4, <2>1, <2>2, <2>3, <2>4, FoundOne
<1>. HIDE DEF found
<1>6. \A f \in Names :
        /\ f \in found => /\ fanObjects'[f].control = i /\ fanObjects'[f].Controlable = TRUE
                          /\ fanObjects'[f].upward = fanObjects[f].upward
        /\ f \notin found => fanObjects'[f] = fanObjects[f]
  BY <1>0, <1>3 DEF found, GuardianTypes, FanObjects
<1>7. /\ pwmControl' \in [Controllers -> Bytes] /\ pwmControl'[i] = search.original
      /\ \A c \in Controllers : c # i => pwmControl'[c] = pwmControl[c]
  BY <1>0, <1>1, <1>4 DEF GuardianTypes
<1>8. fanObjects' \in [Names -> FanObjects]
  BY <1>0, <1>3, <1>4 DEF GuardianTypes, FanObjects
<1>9. ~killedAmid => \A c \in Controllers : pwmControl'[c] = biosControl[c]
  BY <1>0, <1>2, <1>4, <1>7 DEF RestoreInv
<1>10. \A f \in Names : fanObjects[f].Controlable =>
         fanObjects[f].control \in Controllers /\ fanObjects[f].control < i /\ wiring[f] = fanObjects[f].control
  BY <1>0, <1>2 DEF FoundInv, Searched
<1>11. \A f \in Names, c \in Controllers :
         Controls(f, c)' <=> IF f \in found THEN c = i ELSE Controls(f, c)
  BY <1>6 DEF Controls
<1>12. \A f \in Names, c \in Controllers : Controls(f, c) => wiring[f] = c /\ c < i /\ c # i /\ f \notin found
  BY <1>4, <1>5, <1>10 DEF Controls
<1>13. \A f \in Names, c \in Controllers : Controls(f, c)' => wiring[f] = c /\ c <= i
  <2>1. \A f \in Names : f \in found => wiring[f] = i
    BY <1>5
  <2>2. \A c \in Controllers : c \in Nat
    BY GuardianConstants
  <2>. QED BY <1>4, <1>11, <1>12, <2>1, <2>2
<1>14. \A f, g \in Names, c \in Controllers : Controls(f, c)' /\ Controls(g, c)' => f = g
  BY <1>0, <1>2, <1>5, <1>11, <1>12 DEF FoundInv
<1>15. \A c \in Controllers : c <= i /\ (\E f \in Names : wiring[f] = c) => \E f \in Names : Controls(f, c)'
  <2>. SUFFICES ASSUME NEW c \in Controllers, c <= i, NEW f \in Names, wiring[f] = c
                PROVE  \E g \in Names : Controls(g, c)'
    OBVIOUS
  <2>1. CASE c = i
    <3>1. f \in W
      BY <2>1
    <3>2. PICK g \in Names : g \in found
      BY <1>5, <3>1
    <3>. QED BY <1>11, <2>1, <3>2
  <2>2. CASE c # i
    <3>1. c \in Searched
      BY <1>2, <1>4, <2>2, GuardianConstants DEF Searched
    <3>2. PICK g \in Names : Controls(g, c)
      BY <1>0, <1>2, <3>1 DEF FoundInv
    <3>. QED BY <1>11, <1>12, <3>2
  <2>. QED BY <2>1, <2>2
<1>16. ASSUME \A c \in Controllers : c \in Searched' <=> c <= i PROVE FoundInv'
  <2>1. \A f \in Names : fanObjects'[f].Controlable =>
          fanObjects'[f].control \in Searched' /\ wiring'[f] = fanObjects'[f].control
    <3>. SUFFICES ASSUME NEW f \in Names, fanObjects'[f].Controlable
                  PROVE  fanObjects'[f].control \in Searched' /\ wiring'[f] = fanObjects'[f].control
      OBVIOUS
    <3>1. PICK c \in Controllers : c = fanObjects'[f].control
      BY <1>8 DEF FanObjects
    <3>2. Controls(f, c)'
      BY <3>1 DEF Controls
    <3>3. wiring[f] = c /\ c <= i
      BY <1>13, <3>2
    <3>. QED BY <1>2, <1>16, <3>1, <3>3
  <2>2. \A f, g \in Names, c \in Controllers : Controls(f, c)' /\ Controls(g, c)' => f = g
    BY <1>14
  <2>3. \A c \in Searched' : (\E f \in Names : wiring'[f] = c) => \E f \in Names : Controls(f, c)'
    BY <1>2, <1>15, <1>16 DEF Searched
  <2>. QED BY <2>1, <2>2, <2>3 DEF FoundInv, Controls
<1>17. CASE MoreControllers
  <2>1. /\ i + 1 \in Controllers /\ search' = [NoSearch EXCEPT !.i = i + 1]
        /\ UNCHANGED <<app, calibration>>
    BY <1>17 DEF FoundController, MoreControllers
  <2>2. search' \in Searches /\ search'.i = i + 1 /\ search'.step = "zero"
    BY <2>1, NoFansYet DEF Searches
  <2>3. GuardianTypes'
    BY <1>0, <1>2, <1>7, <1>8, <2>1, <2>2 DEF GuardianTypes
  <2>4. PhaseInv'
    BY <1>2, <1>6, <2>1 DEF PhaseInv
  <2>5. FoundInv'
    <3>1. \A c \in Controllers : c \in Searched' <=> c <= i
      BY <1>2, <1>4, <2>1, <2>2, GuardianConstants DEF Searched
    <3>. QED BY <1>16, <3>1
  <2>6. SearchInv' /\ CurveInv' /\ TurningInv'
    BY <1>2, <2>1, <2>2 DEF SearchInv, CurveInv, TurningInv
  <2>7. RestoreInv'
    BY <1>2, <1>9, <2>1, <2>2 DEF RestoreInv
  <2>. QED BY <1>2, <2>3, <2>4, <2>5, <2>6, <2>7 DEF GuardianInv
<1>18. CASE ~MoreControllers
  <2>1. /\ i + 1 \notin Controllers /\ search' = NoSearch /\ app' = "calibrating"
        /\ calibration' = [f \in Names |-> [NoCalibration EXCEPT !.step = "queued"]]
    BY <1>18 DEF FoundController, MoreControllers
  <2>2. calibration' \in [Names -> Calibrations] /\ \A f \in Names : calibration'[f].step = "queued"
    BY <2>1, NoFansYet, GuardianConstants DEF Calibrations, NoCalibration, Bytes
  <2>3. GuardianTypes'
    BY <1>0, <1>2, <1>7, <1>8, <2>1, <2>2, NoFansYet DEF GuardianTypes, Apps
  <2>4. PhaseInv'
    BY <1>2, <2>1 DEF PhaseInv
  <2>5. FoundInv'
    <3>1. \A c \in Controllers : c <= i
      <4>. SUFFICES ASSUME NEW c \in Controllers, ~(c <= i) PROVE FALSE
        OBVIOUS
      <4>. QED BY <1>4, <2>1, GuardianConstants
    <3>2. \A c \in Controllers : c \in Searched' <=> c <= i
      BY <2>1, <3>1 DEF Searched
    <3>. QED BY <1>16, <3>2
  <2>6. SearchInv' /\ CurveInv' /\ TurningInv'
    BY <1>2, <1>6, <2>1, <2>2 DEF SearchInv, CurveInv, TurningInv
  <2>7. RestoreInv'
    BY <1>2, <1>9, <2>1, <2>2 DEF RestoreInv
  <2>. QED BY <1>2, <2>3, <2>4, <2>5, <2>6, <2>7 DEF GuardianInv
<1>. QED BY <1>17, <1>18
--------------------------------------------------------------------------------
(* Whoever calibrates a fan is the only one to use its controller. *)
LEMMA CalibrationStepKeeps ==
  ASSUME GuardianInv, NEW f \in Names, NEW step \in {"queued", "spin", "restore"}, CalibrationStep(f, step)
  PROVE  /\ app = "calibrating" /\ app' = "calibrating" /\ ~HasSettings /\ search' = NoSearch
         /\ UNCHANGED <<biosControl, wiring, search, Configuration, helperDue, stops, killedAmid, unsaved>>
         /\ SavedInv' /\ ~HasSettings'
         /\ fanObjects[f].control \in Controllers /\ fanObjects[f].Controlable
         /\ wiring[f] = fanObjects[f].control /\ calibration[f].step = step
         /\ \A g \in Names : Controls(g, fanObjects[f].control) => g = f
<1>0. GuardianTypes /\ SavedInv /\ PhaseInv /\ FoundInv
  BY DEF GuardianInv
<1>1. /\ app \in {"calibrating", "ready"} /\ fanObjects[f].Controlable /\ calibration[f].step = step
      /\ UNCHANGED <<app, biosControl, wiring, search, Configuration, helperDue, stops, killedAmid, unsaved>>
  BY DEF CalibrationStep, chipStays
<1>2. app = "calibrating"
  BY <1>0, <1>1 DEF PhaseInv
<1>3. ~HasSettings /\ search = NoSearch
  BY <1>0, <1>2 DEF PhaseInv
<1>4. SavedInv' /\ ~HasSettings'
  BY <1>0, <1>1, <1>3, SavedStays
<1>5. fanObjects[f].control \in Controllers /\ Controls(f, fanObjects[f].control)
  BY <1>0, <1>1 DEF GuardianTypes, FanObjects, Controls
<1>6. wiring[f] = fanObjects[f].control /\ \A g \in Names : Controls(g, fanObjects[f].control) => g = f
  BY <1>0, <1>1, <1>2, <1>5 DEF FoundInv
<1>. QED BY <1>1, <1>2, <1>3, <1>4, <1>5, <1>6

(* A step of one calibration, which takes care of its own fan, leaves the  *)
(* others alone.                                                           *)
LEMMA OneCalibration ==
  ASSUME GuardianInv, NEW f \in Names, NEW step \in {"queued", "spin", "restore"}, CalibrationStep(f, step),
         NEW c, c = fanObjects[f].control,
         \A g \in Names : /\ fanObjects'[g].control = fanObjects[g].control
                          /\ fanObjects'[g].Controlable = fanObjects[g].Controlable,
         \A g \in Names : g # f => fanObjects'[g].upward = fanObjects[g].upward /\ calibration'[g] = calibration[g],
         \A d \in Controllers : d # c => pwmControl'[d] = pwmControl[d],
         calibration'[f].step \in {"spin", "restore", "done"},
         calibration'[f].step = "spin" =>
            /\ fanObjects'[f].upward = Curve(f, Below(calibration'[f].level))
            /\ pwmControl'[c] = calibration'[f].level,
         calibration'[f].step \in {"restore", "done"} => fanObjects'[f].upward = Curve(f, Levels),
         calibration'[f].step = "done" => step = "restore" /\ pwmControl'[c] = Restored(calibration[f].was),
         calibration'[f].step # "done" =>
            calibration'[f].was = IF step = "queued" THEN pwmControl[c] ELSE calibration[f].was
  PROVE  PhaseInv' /\ FoundInv' /\ SearchInv' /\ CurveInv' /\ TurningInv' /\ RestoreInv'
<1>0. GuardianTypes /\ PhaseInv /\ FoundInv /\ CurveInv /\ TurningInv /\ RestoreInv
  BY DEF GuardianInv
<1>1. /\ app = "calibrating" /\ app' = "calibrating" /\ ~HasSettings /\ ~HasSettings' /\ search' = NoSearch
      /\ UNCHANGED <<biosControl, wiring, search, Configuration, helperDue, stops, killedAmid, unsaved>>
      /\ c \in Controllers /\ fanObjects[f].Controlable /\ wiring[f] = c /\ calibration[f].step = step
      /\ \A g \in Names : Controls(g, c) => g = f
  BY CalibrationStepKeeps
<1>2. \A g \in Names, d \in Controllers : Controls(g, d)' <=> Controls(g, d)
  BY DEF Controls
<1>3. \A g \in Names : g # f /\ fanObjects[g].Controlable =>
        fanObjects[g].control \in Controllers /\ pwmControl'[fanObjects[g].control] = pwmControl[fanObjects[g].control]
  <2>. SUFFICES ASSUME NEW g \in Names, g # f, fanObjects[g].Controlable
                PROVE  /\ fanObjects[g].control \in Controllers
                       /\ pwmControl'[fanObjects[g].control] = pwmControl[fanObjects[g].control]
    OBVIOUS
  <2>1. fanObjects[g].control \in Controllers
    BY <1>0 DEF GuardianTypes, FanObjects
  <2>2. fanObjects[g].control # c
    BY <1>1 DEF Controls
  <2>. QED BY <2>1, <2>2
<1>4. PhaseInv'
  BY <1>1 DEF PhaseInv
<1>5. FoundInv'
  <2>1. Searched' = Searched /\ Searched = Controllers
    BY <1>1 DEF Searched
  <2>. QED BY <1>0, <1>1, <1>2, <2>1 DEF FoundInv
<1>6. SearchInv'
  BY <1>1 DEF SearchInv
<1>7. CurveInv'
  <2>. SUFFICES ASSUME NEW g \in Names
                PROVE  /\ calibration'[g].step = "queued" => fanObjects'[g].upward = [l \in {} |-> 0]
                       /\ calibration'[g].step = "spin" =>
                            /\ fanObjects'[g].upward = Curve(g, Below(calibration'[g].level))
                            /\ fanObjects'[g].Controlable => pwmControl'[fanObjects'[g].control] = calibration'[g].level
                       /\ calibration'[g].step \in {"restore", "done"} => fanObjects'[g].upward = Curve(g, Levels)
    BY DEF CurveInv, Curve, Below
  <2>1. CASE g = f
    BY <2>1
  <2>2. CASE g # f
    BY <1>0, <1>3, <2>2 DEF CurveInv
  <2>. QED BY <2>1, <2>2
<1>8. TurningInv'
  <2>1. \A r : Regulated(Restored(r))
    BY DEF Regulated, Restored
  <2>2. ASSUME NEW g \in Names, fanObjects'[g].Controlable, calibration'[g].step = "done"
        PROVE  Regulated(pwmControl'[fanObjects'[g].control])
    <3>1. CASE g = f
      BY <2>1, <2>2, <3>1
    <3>2. CASE g # f
      BY <1>0, <1>1, <1>3, <2>2, <3>2 DEF TurningInv
    <3>. QED BY <3>1, <3>2
  <2>. QED BY <2>2 DEF TurningInv, Regulated, Automatic
<1>9. RestoreInv'
  <2>. SUFFICES ASSUME ~killedAmid PROVE RestoreInv'
    BY <1>1 DEF RestoreInv
  <2>1. ASSUME NEW d \in Controllers, \A g \in Names : ~Controls(g, d) PROVE pwmControl'[d] = biosControl[d]
    <3>1. d # c
      BY <1>1, <2>1 DEF Controls
    <3>. QED BY <1>0, <1>1, <2>1, <3>1 DEF RestoreInv
  <2>2. ASSUME NEW g \in Names, NEW d \in Controllers, Controls(g, d)
        PROVE  /\ calibration'[g].step = "queued" => pwmControl'[d] = biosControl[d]
               /\ calibration'[g].step \in {"spin", "restore"} => calibration'[g].was = biosControl[d]
               /\ calibration'[g].step = "done" => pwmControl'[d] = Restored(biosControl[d])
               /\ calibration'[g].step # "none"
    <3>0. /\ calibration[g].step = "queued" => pwmControl[d] = biosControl[d]
          /\ calibration[g].step \in {"spin", "restore"} => calibration[g].was = biosControl[d]
          /\ calibration[g].step = "done" => pwmControl[d] = Restored(biosControl[d])
          /\ calibration[g].step # "none"
      BY <1>0, <1>1, <2>2 DEF RestoreInv
    <3>1. CASE g = f
      <4>1. d = c
        BY <2>2, <3>1 DEF Controls
      <4>. QED BY <1>1, <3>0, <3>1, <4>1
    <3>2. CASE g # f
      <4>1. d # c
        BY <1>1, <2>2, <3>2
      <4>. QED BY <3>0, <3>2, <4>1
    <3>. QED BY <3>1, <3>2
  <2>3. app' = "calibrating" /\ biosControl' = biosControl
    BY <1>1
  <2>4. /\ \A d \in Controllers : (\A g \in Names : ~Controls(g, d)') => pwmControl'[d] = biosControl'[d]
        /\ \A g \in Names, d \in Controllers : Controls(g, d)' =>
             /\ calibration'[g].step = "queued" => pwmControl'[d] = biosControl'[d]
             /\ calibration'[g].step \in {"spin", "restore"} => calibration'[g].was = biosControl'[d]
             /\ calibration'[g].step = "done" => pwmControl'[d] = Restored(biosControl'[d])
             /\ calibration'[g].step # "none"
    BY <1>2, <2>1, <2>2, <2>3
  <2>. QED BY <2>3, <2>4 DEF RestoreInv, Restored, Automatic
<1>. QED BY <1>4, <1>5, <1>6, <1>7, <1>8, <1>9

(* Writing the register that a fan's controller has. *)
LEMMA PutControlOne ==
  ASSUME GuardianTypes, NEW f \in Names, NEW v \in Bytes, PutControl(f, v)
  PROVE  /\ pwmControl' \in [Controllers -> Bytes] /\ pwmControl'[fanObjects[f].control] = v
         /\ \A d \in Controllers : d # fanObjects[f].control => pwmControl'[d] = pwmControl[d]
<1>1. fanObjects[f].control \in Controllers
  BY DEF GuardianTypes, FanObjects
<1>2. pwmControl \in [Controllers -> Bytes] /\ pwmControl' = [pwmControl EXCEPT ![fanObjects[f].control] = v]
  BY DEF GuardianTypes, PutControl
<1>. QED BY <1>1, <1>2
(* What a calibration has been through, and what comes next. *)
LEMMA BelowNext ==
  ASSUME NEW l \in Levels, NEW m \in Levels
  PROVE  /\ Below(0) = {}
         /\ (\A k \in Levels : ~(k > l)) => Below(l) \cup {l} = Levels
         /\ m > l /\ (\A k \in Levels : k > l => m <= k) => Below(l) \cup {l} = Below(m)
<1>1. \A k \in Levels : k \in 0..127
  BY GuardianConstants
<1>2. Below(0) = {}
  BY <1>1 DEF Below
<1>3. ASSUME \A k \in Levels : ~(k > l) PROVE Below(l) \cup {l} = Levels
  <2>1. \A k \in Levels : k < l \/ k = l
    BY <1>1, <1>3
  <2>. QED BY <2>1 DEF Below
<1>4. ASSUME m > l, \A k \in Levels : k > l => m <= k PROVE Below(l) \cup {l} = Below(m)
  <2>1. ASSUME NEW k \in Levels PROVE k < m <=> k < l \/ k = l
    <3>1. k \in Int /\ l \in Int /\ m \in Int
      BY <1>1
    <3>2. CASE k > l
      <4>1. m <= k
        BY <1>4, <3>2
      <4>. QED BY <3>1, <3>2, <4>1
    <3>3. CASE ~(k > l)
      BY <1>4, <3>1, <3>3
    <3>. QED BY <3>2, <3>3
  <2>. QED BY <2>1 DEF Below
<1>. QED BY <1>2, <1>3, <1>4

LEMMA BeginCalibrationInv == ASSUME GuardianInv, NEW f \in Names, BeginCalibration(f) PROVE GuardianInv'
<1>0. GuardianTypes /\ CurveInv
  BY DEF GuardianInv
<1>1. /\ CalibrationStep(f, "queued") /\ PutControl(f, 0) /\ fanObjects' = fanObjects
      /\ calibration' = [calibration EXCEPT ![f] =
           [step |-> "spin", level |-> 0, was |-> pwmControl[fanObjects[f].control]]]
  BY DEF BeginCalibration
<1>2. PICK c \in Controllers : c = fanObjects[f].control
  BY <1>0 DEF GuardianTypes, FanObjects
<1>3. /\ app' = "calibrating" /\ search' = NoSearch /\ SavedInv'
      /\ UNCHANGED <<biosControl, wiring, search, Configuration, helperDue, stops, killedAmid, unsaved>>
      /\ calibration[f].step = "queued"
  BY <1>1, CalibrationStepKeeps
<1>4. /\ pwmControl' \in [Controllers -> Bytes] /\ pwmControl'[c] = 0
      /\ \A d \in Controllers : d # c => pwmControl'[d] = pwmControl[d]
  <2>1. 0 \in Bytes
    BY DEF Bytes
  <2>. QED BY <1>0, <1>1, <1>2, <2>1, PutControlOne
<1>5. /\ calibration'[f].step = "spin" /\ calibration'[f].level = 0 /\ calibration'[f].was = pwmControl[c]
      /\ \A g \in Names : g # f => calibration'[g] = calibration[g]
      /\ calibration' \in [Names -> Calibrations]
  <2>1. pwmControl[c] \in Bytes /\ 0 \in Levels
    BY <1>0, GuardianConstants DEF GuardianTypes
  <2>. QED BY <1>0, <1>1, <1>2, <2>1 DEF GuardianTypes, Calibrations
<1>6. fanObjects'[f].upward = Curve(f, Below(0))
  <2>1. fanObjects[f].upward = [l \in {} |-> 0]
    BY <1>0, <1>3 DEF CurveInv
  <2>2. Below(0) = {}
    BY BelowNext, GuardianConstants
  <2>. QED BY <1>1, <2>1, <2>2 DEF Curve
<1>7. GuardianTypes'
  BY <1>0, <1>1, <1>3, <1>4, <1>5 DEF GuardianTypes, Apps
<1>8. PhaseInv' /\ FoundInv' /\ SearchInv' /\ CurveInv' /\ TurningInv' /\ RestoreInv'
  BY <1>1, <1>2, <1>4, <1>5, <1>6, OneCalibration
<1>. QED BY <1>3, <1>7, <1>8 DEF GuardianInv

LEMMA MeasureLevelInv == ASSUME GuardianInv, NEW f \in Names, MeasureLevel(f) PROVE GuardianInv'
<1>. DEFINE l == calibration[f].level
            higher == {k \in Levels : k > l}
<1>0. GuardianTypes /\ CurveInv
  BY DEF GuardianInv
<1>1. CalibrationStep(f, "spin")
  BY DEF MeasureLevel
<1>2. PICK c \in Controllers : c = fanObjects[f].control
  BY <1>0 DEF GuardianTypes, FanObjects
<1>3. /\ app' = "calibrating" /\ search' = NoSearch /\ SavedInv'
      /\ UNCHANGED <<biosControl, wiring, search, Configuration, helperDue, stops, killedAmid, unsaved>>
      /\ calibration[f].step = "spin" /\ fanObjects[f].Controlable /\ wiring[f] = c
  BY <1>1, <1>2, CalibrationStepKeeps
<1>4. PICK r \in Speeds(f) :
        fanObjects' = [fanObjects EXCEPT ![f].upward =
          [k \in DOMAIN @ \cup {l} |-> IF k = l THEN r ELSE @[k]]]
  BY DEF MeasureLevel
<1>5. l \in Levels /\ l \in 0..127 /\ Gain[f] \in Nat
  BY <1>0, GuardianConstants DEF GuardianTypes, Calibrations
<1>6. r = Gain[f] * l
  <2>1. pwmControl[c] = l
    BY <1>0, <1>2, <1>3 DEF CurveInv
  <2>2. ~Automatic(l)
    BY <1>5 DEF Automatic
  <2>3. Speeds(f) = {Gain[f] * l}
    BY <1>0, <1>3, <2>1, <2>2, SpeedsAlike
  <2>. QED BY <2>3
<1>7. fanObjects[f].upward = Curve(f, Below(l))
  BY <1>0, <1>3 DEF CurveInv
<1>. DEFINE now == [k \in DOMAIN fanObjects[f].upward \cup {l} |->
                      IF k = l THEN r ELSE fanObjects[f].upward[k]]
<1>8. now = Curve(f, Below(l) \cup {l})
  <2>1. DOMAIN fanObjects[f].upward = Below(l)
    BY <1>7 DEF Curve
  <2>2. \A k \in Below(l) : fanObjects[f].upward[k] = Gain[f] * k
    BY <1>7 DEF Curve
  <2>. QED BY <1>6, <2>1, <2>2 DEF Curve
<1>9. now \in Curves
  <2>1. Below(l) \cup {l} \in SUBSET Levels
    BY <1>5 DEF Below
  <2>2. \A k \in Levels : Gain[f] * k \in Nat
    BY <1>5, GuardianConstants
  <2>3. Curve(f, Below(l) \cup {l}) \in [Below(l) \cup {l} -> Nat]
    BY <2>1, <2>2 DEF Curve
  <2>. HIDE DEF now
  <2>. QED BY <1>8, <2>1, <2>3 DEF Curves
<1>10. fanObjects' = [fanObjects EXCEPT ![f].upward = now]
  BY <1>4
<1>. HIDE DEF now
<1>11. /\ fanObjects' \in [Names -> FanObjects] /\ fanObjects'[f].upward = now
       /\ \A g \in Names : /\ fanObjects'[g].control = fanObjects[g].control
                           /\ fanObjects'[g].Controlable = fanObjects[g].Controlable
       /\ \A g \in Names : g # f => fanObjects'[g].upward = fanObjects[g].upward
  BY <1>0, <1>9, <1>10 DEF GuardianTypes, FanObjects
<1>12. CASE higher = {}
  <2>1. calibration' = [calibration EXCEPT ![f].step = "restore"] /\ UNCHANGED pwmControl
    BY <1>12 DEF MeasureLevel
  <2>2. /\ calibration' \in [Names -> Calibrations] /\ calibration'[f].step = "restore"
        /\ calibration'[f].was = calibration[f].was
        /\ \A g \in Names : g # f => calibration'[g] = calibration[g]
    BY <1>0, <2>1 DEF GuardianTypes, Calibrations
  <2>3. Below(l) \cup {l} = Levels
    <3>1. \A k \in Levels : ~(k > l)
      BY <1>12
    <3>. QED BY <1>5, <3>1, BelowNext
  <2>4. fanObjects'[f].upward = Curve(f, Levels)
    BY <1>8, <1>11, <2>3
  <2>5. GuardianTypes'
    BY <1>0, <1>3, <1>11, <2>1, <2>2 DEF GuardianTypes, Apps
  <2>6. PhaseInv' /\ FoundInv' /\ SearchInv' /\ CurveInv' /\ TurningInv' /\ RestoreInv'
    BY <1>1, <1>2, <1>11, <2>1, <2>2, <2>4, OneCalibration
  <2>. QED BY <1>3, <2>5, <2>6 DEF GuardianInv
<1>13. CASE higher # {}
  <2>1. calibration' = [calibration EXCEPT ![f].level = Min(higher)] /\ PutControl(f, Min(higher))
    BY <1>13 DEF MeasureLevel
  <2>2. PICK m : m = Min(higher)
    OBVIOUS
  <2>3. m \in higher /\ \A k \in higher : m <= k
    <3>. HIDE DEF higher
    <3>1. higher \in SUBSET Levels
      BY DEF higher
    <3>. QED BY <1>13, <2>2, <3>1, LeastLevel
  <2>4. m \in Levels /\ m \in Bytes /\ m > l
    BY <2>3, GuardianConstants DEF Bytes
  <2>5. /\ calibration' \in [Names -> Calibrations] /\ calibration'[f].step = "spin"
        /\ calibration'[f].level = m /\ calibration'[f].was = calibration[f].was
        /\ \A g \in Names : g # f => calibration'[g] = calibration[g]
    <3>1. calibration' = [calibration EXCEPT ![f].level = m]
      BY <2>1, <2>2
    <3>. QED BY <1>0, <1>3, <2>4, <3>1 DEF GuardianTypes, Calibrations
  <2>6. /\ pwmControl' \in [Controllers -> Bytes] /\ pwmControl'[c] = m
        /\ \A d \in Controllers : d # c => pwmControl'[d] = pwmControl[d]
    BY <1>0, <1>2, <2>1, <2>2, <2>4, PutControlOne
  <2>7. Below(l) \cup {l} = Below(m)
    <3>1. \A k \in Levels : k > l => m <= k
      BY <2>3
    <3>. QED BY <1>5, <2>4, <3>1, BelowNext
  <2>8. fanObjects'[f].upward = Curve(f, Below(calibration'[f].level))
    BY <1>8, <1>11, <2>5, <2>7
  <2>9. GuardianTypes'
    BY <1>0, <1>3, <1>11, <2>5, <2>6 DEF GuardianTypes, Apps
  <2>10. PhaseInv' /\ FoundInv' /\ SearchInv' /\ CurveInv' /\ TurningInv' /\ RestoreInv'
    BY <1>1, <1>2, <1>11, <2>5, <2>6, <2>8, OneCalibration
  <2>. QED BY <1>3, <2>9, <2>10 DEF GuardianInv
<1>. QED BY <1>12, <1>13

LEMMA EndCalibrationInv == ASSUME GuardianInv, NEW f \in Names, EndCalibration(f) PROVE GuardianInv'
<1>. DEFINE v == Restored(calibration[f].was)
<1>0. GuardianTypes /\ CurveInv
  BY DEF GuardianInv
<1>1. /\ CalibrationStep(f, "restore") /\ PutControl(f, v) /\ fanObjects' = fanObjects
      /\ calibration' = [calibration EXCEPT ![f] = [NoCalibration EXCEPT !.step = "done"]]
  BY DEF EndCalibration
<1>2. PICK c \in Controllers : c = fanObjects[f].control
  BY <1>0 DEF GuardianTypes, FanObjects
<1>3. /\ app' = "calibrating" /\ search' = NoSearch /\ SavedInv'
      /\ UNCHANGED <<biosControl, wiring, search, Configuration, helperDue, stops, killedAmid, unsaved>>
      /\ calibration[f].step = "restore"
  BY <1>1, CalibrationStepKeeps
<1>4. v \in Bytes
  BY <1>0 DEF GuardianTypes, Calibrations, Restored, Top, Bytes
<1>5. /\ pwmControl' \in [Controllers -> Bytes] /\ pwmControl'[c] = v
      /\ \A d \in Controllers : d # c => pwmControl'[d] = pwmControl[d]
  <2>. HIDE DEF v
  <2>. QED BY <1>0, <1>1, <1>2, <1>4, PutControlOne
<1>6. /\ calibration'[f].step = "done"
      /\ \A g \in Names : g # f => calibration'[g] = calibration[g]
      /\ calibration' \in [Names -> Calibrations]
  <2>1. [NoCalibration EXCEPT !.step = "done"] \in Calibrations /\ [NoCalibration EXCEPT !.step = "done"].step = "done"
    BY NoFansYet, GuardianConstants DEF NoCalibration, Calibrations, Bytes
  <2>. QED BY <1>0, <1>1, <2>1 DEF GuardianTypes
<1>7. fanObjects'[f].upward = Curve(f, Levels)
  BY <1>0, <1>1, <1>3 DEF CurveInv
<1>8. GuardianTypes'
  BY <1>0, <1>1, <1>3, <1>5, <1>6 DEF GuardianTypes, Apps
<1>9. PhaseInv' /\ FoundInv' /\ SearchInv' /\ CurveInv' /\ TurningInv' /\ RestoreInv'
  BY <1>1, <1>2, <1>5, <1>6, <1>7, OneCalibration
<1>. QED BY <1>3, <1>8, <1>9 DEF GuardianInv
--------------------------------------------------------------------------------
(* The settings that are saved are those of all fans, and in force. *)
LEMMA SettingsSaved ==
  ASSUME GuardianTypes, SaveSettings, UNCHANGED pwmControl
  PROVE  /\ Configuration' \in [Names -> SavedSettings] /\ unsaved' = FALSE
         /\ SavedInv' /\ (HasSettings' \/ Names = {})
<1>. DEFINE saved(f) == [control |-> fanObjects[f].control, Controlable |-> fanObjects[f].Controlable,
                         value |-> pwmControl[fanObjects[f].control]]
<1>1. Configuration' = [f \in Names |-> saved(f)] /\ unsaved' = FALSE
  BY DEF SaveSettings
<1>2. \A f \in Names : /\ fanObjects[f].control \in Controllers /\ fanObjects[f].Controlable \in BOOLEAN
                       /\ pwmControl[fanObjects[f].control] \in Bytes
  BY DEF GuardianTypes, FanObjects
<1>3. Configuration' \in [Names -> SavedSettings]
  BY <1>1, <1>2 DEF SavedSettings
<1>4. \A f \in Names : /\ Configuration'[f].control = fanObjects[f].control
                       /\ Configuration'[f].control \in Controllers
                       /\ Configuration'[f].value = pwmControl'[Configuration'[f].control]
  BY <1>1, <1>2
<1>5. SavedInv'
  <2>1. \A f \in Names : Configuration'[f].control \in Controllers
    BY <1>4
  <2>2. \A f, g \in Names : Configuration'[f].control = Configuration'[g].control =>
                              Configuration'[f].value = Configuration'[g].value
    BY <1>4
  <2>3. \A f \in Names : pwmControl'[Configuration'[f].control] = Configuration'[f].value
    BY <1>4
  <2>. QED BY <2>1, <2>2, <2>3 DEF SavedInv
<1>6. HasSettings' \/ Names = {}
  <2>. SUFFICES ASSUME NEW f \in Names PROVE HasSettings'
    OBVIOUS
  <2>1. Configuration'[f] # NoSettings
    BY <1>4, GuardianConstants DEF NoSettings
  <2>. QED BY <2>1 DEF HasSettings
<1>. QED BY <1>1, <1>3, <1>5, <1>6

(* The registers are the BIOS's before anything is saved. *)
LEMMA StillTheBios ==
  ASSUME GuardianTypes, RestoreInv, ~killedAmid, ~HasSettings, app \in {"off", "asking", "ready"}
  PROVE  pwmControl = biosControl
BY DEF RestoreInv

LEMMA FinishCalibrationInv == ASSUME GuardianInv, FinishCalibration PROVE GuardianInv'
<1>0. GuardianTypes /\ PhaseInv /\ RestoreInv /\ CurveInv
  BY DEF GuardianInv
<1>1. /\ app = "calibrating" /\ app' = "ready" /\ AllCalibrated /\ SaveSettings
      /\ UNCHANGED <<biosControl, wiring, pwmControl, fanObjects, search, calibration, helperDue, stops, killedAmid>>
  BY DEF FinishCalibration, chipStays
<1>2. Configuration' \in [Names -> SavedSettings] /\ unsaved' = FALSE /\ SavedInv' /\ (HasSettings' \/ Names = {})
  BY <1>0, <1>1, SettingsSaved
<1>3. GuardianTypes'
  BY <1>0, <1>1, <1>2 DEF GuardianTypes, Apps
<1>4. PhaseInv'
  BY <1>0, <1>1, <1>2 DEF PhaseInv, AllCalibrated
<1>5. FoundInv' /\ SearchInv' /\ TurningInv'
  BY <1>1 DEF FoundInv, SearchInv, TurningInv
<1>6. CurveInv'
  BY <1>0, <1>1 DEF CurveInv
<1>7. RestoreInv'
  <2>. SUFFICES ASSUME ~HasSettings', ~killedAmid PROVE pwmControl = biosControl
    BY <1>1 DEF RestoreInv
  <2>1. Names = {} /\ ~HasSettings
    BY <1>0, <1>1, <1>2 DEF PhaseInv
  <2>2. \A c \in Controllers : pwmControl[c] = biosControl[c]
    BY <1>0, <1>1, <2>1 DEF RestoreInv
  <2>. QED BY <1>0, <2>2 DEF GuardianTypes
<1>. QED BY <1>2, <1>3, <1>4, <1>5, <1>6, <1>7 DEF GuardianInv

LEMMA SetControlInv == ASSUME GuardianInv, NEW f \in Names, SetControl(f) PROVE GuardianInv'
<1>0. GuardianTypes /\ SavedInv /\ PhaseInv /\ CurveInv
  BY DEF GuardianInv
<1>1. PICK v \in Levels \cup {128 + s : s \in Sources} : PutControl(f, v)
  BY DEF SetControl
<1>2. /\ app = "ready" /\ unsaved' = TRUE
      /\ UNCHANGED <<biosControl, wiring, app, fanObjects, search, calibration, Configuration, helperDue, stops, killedAmid>>
  BY DEF SetControl, chipStays
<1>3. v \in Bytes
  <2>1. \A k \in Levels : k \in 0..255
    BY GuardianConstants
  <2>2. \A s \in Sources : 128 + s \in 0..255
    BY GuardianConstants
  <2>. QED BY <2>1, <2>2 DEF Bytes
<1>4. pwmControl' \in [Controllers -> Bytes]
  BY <1>0, <1>1, <1>3, PutControlOne
<1>5. HasSettings
  BY <1>0, <1>2 DEF PhaseInv
<1>6. SavedInv' /\ HasSettings'
  BY <1>0, <1>2, <1>5, SavedStays
<1>7. GuardianTypes'
  BY <1>0, <1>2, <1>4 DEF GuardianTypes
<1>8. PhaseInv' /\ RestoreInv'
  BY <1>0, <1>2, <1>6 DEF PhaseInv, RestoreInv
<1>9. FoundInv' /\ SearchInv' /\ TurningInv'
  BY <1>2 DEF FoundInv, SearchInv, TurningInv
<1>10. CurveInv'
  <2>1. \A g \in Names : calibration[g].step = "spin" => ~fanObjects[g].Controlable
    BY <1>0, <1>2 DEF PhaseInv
  <2>. QED BY <1>0, <1>2, <2>1 DEF CurveInv
<1>. QED BY <1>6, <1>7, <1>8, <1>9, <1>10 DEF GuardianInv

(* An application that has stopped, whose settings and registers are in    *)
(* order.                                                                  *)
LEMMA GoneInv ==
  ASSUME GuardianInv, ApplicationGone, SavedInv', Configuration' \in [Names -> SavedSettings],
         pwmControl' \in [Controllers -> Bytes],
         helperDue' \in BOOLEAN, killedAmid' \in BOOLEAN, unsaved' \in BOOLEAN,
         ~HasSettings' /\ ~killedAmid' => pwmControl' = biosControl
  PROVE  GuardianInv'
<1>0. GuardianTypes
  BY DEF GuardianInv
<1>1. /\ stops < MaxStops /\ stops' = stops + 1 /\ app' = "off" /\ UNCHANGED <<biosControl, wiring>>
      /\ fanObjects' = [f \in Names |-> NewFan(f)] /\ search' = NoSearch
      /\ calibration' = [f \in Names |-> NoCalibration]
  BY DEF ApplicationGone, chipStays
<1>2. stops' \in 0..MaxStops
  BY <1>0, <1>1, GuardianConstants DEF GuardianTypes
<1>3. GuardianTypes'
  BY <1>0, <1>1, <1>2, NoFansYet DEF GuardianTypes, Apps
<1>4. PhaseInv'
  BY <1>1 DEF PhaseInv
<1>5. FoundInv' /\ SearchInv' /\ TurningInv'
  BY <1>1 DEF FoundInv, SearchInv, TurningInv
<1>6. CurveInv'
  BY <1>1, NoFansYet DEF CurveInv
<1>7. RestoreInv'
  BY <1>1 DEF RestoreInv
<1>. QED BY <1>3, <1>4, <1>5, <1>6, <1>7 DEF GuardianInv

LEMMA QuitInv == ASSUME GuardianInv, Quit PROVE GuardianInv'
<1>0. GuardianTypes /\ PhaseInv /\ RestoreInv
  BY DEF GuardianInv
<1>1. app = "ready" /\ ApplicationGone /\ SaveSettings /\ UNCHANGED <<pwmControl, helperDue, killedAmid>>
  BY DEF Quit
<1>2. Configuration' \in [Names -> SavedSettings] /\ unsaved' = FALSE /\ SavedInv' /\ (HasSettings' \/ Names = {})
  BY <1>0, <1>1, SettingsSaved
<1>3. ASSUME ~HasSettings', ~killedAmid' PROVE pwmControl' = biosControl
  <2>1. ~HasSettings
    BY <1>2, <1>3 DEF HasSettings
  <2>. QED BY <1>0, <1>1, <1>3, <2>1, StillTheBios
<1>4. pwmControl' \in [Controllers -> Bytes] /\ helperDue' \in BOOLEAN /\ killedAmid' \in BOOLEAN /\ unsaved' \in BOOLEAN
  BY <1>0, <1>1, <1>2 DEF GuardianTypes
<1>. QED BY <1>1, <1>2, <1>3, <1>4, GoneInv

LEMMA KillInv == ASSUME GuardianInv, Kill PROVE GuardianInv'
<1>0. GuardianTypes /\ SavedInv /\ PhaseInv /\ RestoreInv
  BY DEF GuardianInv
<1>1. /\ app # "off" /\ ApplicationGone /\ killedAmid' = (killedAmid \/ app \in {"searching", "calibrating"})
      /\ UNCHANGED <<pwmControl, Configuration, helperDue, unsaved>>
  BY DEF Kill
<1>2. SavedInv' /\ (HasSettings' <=> HasSettings)
  BY <1>0, <1>1, SavedStays
<1>3. ASSUME ~HasSettings', ~killedAmid' PROVE pwmControl' = biosControl
  <2>1. ~killedAmid /\ app \in {"off", "asking", "ready"} /\ ~HasSettings
    BY <1>0, <1>1, <1>2, <1>3 DEF GuardianTypes, Apps
  <2>. QED BY <1>0, <1>1, <2>1, StillTheBios
<1>4. /\ pwmControl' \in [Controllers -> Bytes] /\ Configuration' \in [Names -> SavedSettings]
      /\ helperDue' \in BOOLEAN /\ killedAmid' \in BOOLEAN /\ unsaved' \in BOOLEAN
  BY <1>0, <1>1 DEF GuardianTypes
<1>. QED BY <1>1, <1>2, <1>3, <1>4, GoneInv

LEMMA RestartInv == ASSUME GuardianInv, RestartMachine PROVE GuardianInv'
<1>0. GuardianTypes /\ SavedInv
  BY DEF GuardianInv
<1>1. /\ ApplicationGone /\ pwmControl' = biosControl /\ UNCHANGED Configuration
      /\ helperDue' = TRUE /\ killedAmid' = FALSE /\ unsaved' = TRUE
  BY DEF RestartMachine
<1>2. SavedInv'
  BY <1>0, <1>1, SavedStays
<1>3. pwmControl' \in [Controllers -> Bytes] /\ Configuration' \in [Names -> SavedSettings]
  BY <1>0, <1>1 DEF GuardianTypes
<1>. QED BY <1>1, <1>2, <1>3, GoneInv

LEMMA GuardianNextInv == GuardianInv /\ [GuardianNext]_guardianVars => GuardianInv'
<1>. SUFFICES ASSUME GuardianInv, [GuardianNext]_guardianVars PROVE GuardianInv'
  OBVIOUS
<1>1. CASE Launch \/ HelperRuns \/ ClickCalibrate
  BY <1>1, LaunchInv, HelperRunsInv, ClickInv
<1>2. CASE FindControllers
  BY <1>2, StopFanInv, MeasureStoppedInv, SpeedUpFanInv, FoundControllerInv DEF FindControllers
<1>3. CASE \E f \in Names : BeginCalibration(f) \/ MeasureLevel(f) \/ EndCalibration(f) \/ SetControl(f)
  BY <1>3, BeginCalibrationInv, MeasureLevelInv, EndCalibrationInv, SetControlInv
<1>4. CASE FinishCalibration
  BY <1>4, FinishCalibrationInv
<1>5. CASE Quit \/ Kill \/ RestartMachine
  BY <1>5, QuitInv, KillInv, RestartInv
<1>6. CASE UNCHANGED guardianVars
  <2>1. GuardianTypes' /\ SavedInv' /\ PhaseInv' /\ CurveInv' /\ TurningInv'
    BY <1>6 DEF guardianVars, GuardianInv, GuardianTypes, SavedInv, HasSettings, PhaseInv, CurveInv, TurningInv
  <2>2. FoundInv' /\ SearchInv' /\ RestoreInv'
    BY <1>6 DEF guardianVars, GuardianInv, FoundInv, Searched, Controls, SearchInv, Speeds, RestoreInv, HasSettings
  <2>. QED BY <2>1, <2>2 DEF GuardianInv
<1>. QED BY <1>1, <1>2, <1>3, <1>4, <1>5, <1>6 DEF GuardianNext

LEMMA GuardianAlways == GuardianSpec => []GuardianInv
BY GuardianInitInv, GuardianNextInv, PTL DEF GuardianSpec

LEMMA FoundAndMeasured == GuardianInv => FansCalibrated
<1>. SUFFICES ASSUME GuardianInv PROVE FansCalibrated
  OBVIOUS
<1>0. GuardianTypes /\ FoundInv /\ CurveInv
  BY DEF GuardianInv
<1>1. ControllersFound
  <2>. SUFFICES ASSUME app = "calibrating" PROVE ControllersFound
    BY DEF ControllersFound
  <2>1. Searched = Controllers
    BY DEF Searched
  <2>2. \A f \in Names : fanObjects[f].Controlable => wiring[f] = fanObjects[f].control
    BY <1>0 DEF FoundInv
  <2>3. \A c \in Controllers : (\E f \in Names : wiring[f] = c) => \E f \in Names : Controls(f, c)
    BY <1>0, <2>1 DEF FoundInv
  <2>. QED BY <2>2, <2>3 DEF ControllersFound, Controls
<1>2. CalibrationRight
  BY <1>0 DEF CalibrationRight, CurveInv, Curve
<1>. QED BY <1>1, <1>2 DEF FansCalibrated

(* After the search each fan is calibrated with the controller that drives *)
(* it, no fan is missed, and calibrations that run at the same time all    *)
(* measure the curve of their own fan.                                     *)
THEOREM EachFanItsCurve == GuardianSpec => []FansCalibrated
BY GuardianAlways, FoundAndMeasured, PTL

LEMMA RegistersAfterwards == GuardianInv => ControlRestored
<1>. SUFFICES ASSUME GuardianInv, app = "calibrating", AllCalibrated PROVE ControlRestored
  BY DEF ControlRestored, RegistersRestored, FansLeftTurning
<1>0. GuardianTypes /\ PhaseInv /\ FoundInv /\ TurningInv /\ RestoreInv
  BY DEF GuardianInv
<1>1. \A f \in Names, c \in Controllers : Controls(f, c) => wiring[f] = c /\ calibration[f].step = "done"
  BY <1>0 DEF FoundInv, Controls, AllCalibrated
<1>2. \A c \in Controllers : (\E f \in Names : wiring[f] = c) => \E f \in Names : Controls(f, c)
  BY <1>0 DEF FoundInv, Searched
<1>3. RegistersRestored
  <2>. SUFFICES ASSUME ~killedAmid, NEW c \in Controllers
                PROVE  pwmControl[c] = IF Automatic(biosControl[c]) \/ (\A f \in Names : wiring[f] # c)
                                       THEN biosControl[c] ELSE Top
    BY DEF RegistersRestored
  <2>1. ~HasSettings
    BY <1>0 DEF PhaseInv
  <2>2. CASE \A f \in Names : wiring[f] # c
    <3>1. \A f \in Names : ~Controls(f, c)
      BY <1>1, <2>2
    <3>. QED BY <1>0, <2>1, <2>2, <3>1 DEF RestoreInv
  <2>3. CASE \E f \in Names : wiring[f] = c
    <3>1. PICK f \in Names : Controls(f, c)
      BY <1>2, <2>3
    <3>2. pwmControl[c] = Restored(biosControl[c])
      BY <1>0, <1>1, <2>1, <3>1 DEF RestoreInv
    <3>. QED BY <2>3, <3>2 DEF Restored
  <2>. QED BY <2>2, <2>3
<1>4. FansLeftTurning
  <2>. SUFFICES ASSUME NEW f \in Names, wiring[f] # NoController
                PROVE  Automatic(pwmControl[wiring[f]]) \/ pwmControl[wiring[f]] = Top
    BY DEF FansLeftTurning
  <2>1. wiring[f] \in Controllers
    BY <1>0 DEF GuardianTypes
  <2>2. PICK g \in Names : Controls(g, wiring[f])
    BY <1>2, <2>1
  <2>3. Regulated(pwmControl[fanObjects[g].control]) /\ fanObjects[g].control = wiring[f]
    BY <1>0, <2>2 DEF TurningInv, Controls, AllCalibrated
  <2>. QED BY <2>3 DEF Regulated
<1>. QED BY <1>3, <1>4 DEF ControlRestored

(* When all calibrations are done, automatic control is as the BIOS set it *)
(* up, registers without a fan are as they were, and no fan is left        *)
(* standing, even after an earlier attempt was killed.                     *)
THEOREM NoFanLeftStanding == GuardianSpec => []ControlRestored
BY GuardianAlways, RegistersAfterwards, PTL

(* The registers are those that the saved settings say, whatever the       *)
(* helper, launches, kills and restarts have done, until the user changes  *)
(* something.                                                              *)
THEOREM SettingsHold == GuardianSpec => []SettingsInForce
<1>1. GuardianInv => SettingsInForce
  BY DEF GuardianInv, SavedInv, SettingsInForce
<1>. QED BY <1>1, GuardianAlways, PTL

(* The parts of the state keep their types. *)
THEOREM GuardianTyped == GuardianSpec => []GuardianTypeOK
<1>1. GuardianInv => GuardianTypeOK
  <2>. SUFFICES ASSUME GuardianInv PROVE GuardianTypeOK
    OBVIOUS
  <2>0. GuardianTypes /\ SavedInv
    BY DEF GuardianInv
  <2>1. pwmControl \in [Controllers -> 0..255] /\ app \in {"off", "asking", "searching", "calibrating", "ready"}
    BY <2>0 DEF GuardianTypes, Bytes, Apps
  <2>2. ASSUME NEW f \in Names
        PROVE  /\ fanObjects[f].control \in Controllers /\ DOMAIN fanObjects[f].upward \subseteq Levels
               /\ calibration[f].level \in Levels
               /\ Configuration[f] = NoSettings \/ Configuration[f].control \in Controllers
    <3>1. fanObjects[f].control \in Controllers /\ fanObjects[f].upward \in Curves
      BY <2>0 DEF GuardianTypes, FanObjects
    <3>2. DOMAIN fanObjects[f].upward \subseteq Levels
      BY <3>1 DEF Curves
    <3>3. calibration[f].level \in Levels
      BY <2>0 DEF GuardianTypes, Calibrations
    <3>. QED BY <2>0, <3>1, <3>2, <3>3, AllOrNothing
  <2>3. search.i \in Controllers /\ stops \in 0..MaxStops
    BY <2>0 DEF GuardianTypes, Searches
  <2>. QED BY <2>1, <2>2, <2>3 DEF GuardianTypeOK
<1>. QED BY <1>1, GuardianAlways, PTL
================================================================================
