----------------------------- MODULE SMCPort_proofs -----------------------------
(***************************************************************************)
(* Proofs about SMCPort, for names, values and buffers of any length: what *)
(* the registers have to do with the bytes the driver has sent, and that   *)
(* the ports implement SMCService.                                         *)
(***************************************************************************)
EXTENDS SMCPort, TLAPS

Sent == Len(request.bytes)

(* What the driver has sent since the last command; read_pos counts it     *)
(* (and begins anew after 256 bytes, when the driver sends no more).       *)
SentInv ==
  /\ request \in [command : Commands, bytes : Seq(Bytes), number : Nat]
  /\ request.command = cmd
  /\ Sent <= NameLength + 1 + MaxLength
  /\ Sent < ByteRange => read_pos = Sent

(* The name, as far as it has come. *)
KeyInv ==
  cmd \in {"READ", "WRITE", "TYPE"} =>
    \A i \in 1..NameLength : i <= Sent =>
      request.bytes[i] \in NameBytes /\ key[i] = request.bytes[i]

Announced == data_len = request.bytes[NameLength + 1] /\ data_len \in 0..MaxLength

(* How far a command is, by the status. *)
ProgressInv ==
  /\ cmd \in {"READ", "WRITE"} /\ status \in {"accepted", "more"} => Sent <= NameLength
  /\ cmd = "READ" /\ status = "data" => Sent = NameLength + 1 /\ Announced
  /\ cmd = "WRITE" /\ status = "data" =>
       /\ Sent > NameLength /\ Announced
       /\ IF data_len = 0 THEN data_pos = 0
          ELSE data_pos = Sent - NameLength - 1 /\ data_pos < data_len
  /\ cmd \in {"INDEX", "TYPE"} /\ status \in {"accepted", "more"} => Sent < NameLength
  /\ cmd \in {"INDEX", "TYPE"} /\ status = "data" => Sent = NameLength
  /\ cmd = "TYPE" /\ status = "data" => data_len = InfoLength

(* The data of a WRITE, as far as it has come. *)
DataInv ==
  cmd = "WRITE" /\ status = "data" /\ data_len > 0 =>
    \A i \in 1..data_pos : request.bytes[NameLength + 1 + i] \in DataBytes
                           /\ value[i] = request.bytes[NameLength + 1 + i]

(* The digits of an index, as far as they have come, and its place. *)
IndexInv ==
  cmd = "INDEX" /\ status \in {"accepted", "more"} =>
    /\ data_pos = 0
    /\ key_index = request.number * ByteRange^(NameLength - Sent)
    /\ key_index + ByteRange^(NameLength - Sent) <= ByteRange^NameLength

(* The buffer is in use between the length and the last byte of the data. *)
BufferInv ==
  ~abandoned =>
    /\ cmd = "OTHER" => status = "done"
    /\ ~(status = "data" /\ cmd \in {"READ", "WRITE"}) => value = Zero(BufferSize)

(* The copy of a value comes between the length and the data. *)
FetchInv == seen # {} => cmd = "READ" /\ status = "data" /\ data_pos = 0

(* Everything but the types. *)
Linked == SentInv /\ KeyInv /\ ProgressInv /\ DataInv /\ IndexInv /\ BufferInv /\ FetchInv

PortIInv == TypeOK /\ Linked
--------------------------------------------------------------------------------
LEMMA Sizes ==
  /\ NameLength \in Nat /\ NameLength >= 1 /\ NameLength \in Bytes /\ ByteRange \in Nat
  /\ MaxLength \in Nat /\ MaxLength >= 1 /\ MaxLength <= BufferSize
  /\ BufferSize \in Nat /\ BufferSize < ByteRange
  /\ NameLength + 1 + MaxLength <= ByteRange
  /\ 0 \in Bytes /\ InfoLength \in Bytes /\ TypeLength \in Nat /\ InfoLength \in Nat
  /\ 0..MaxLength \subseteq Bytes /\ NameBytes \subseteq Bytes /\ DataBytes \subseteq Bytes
<1>1. /\ ByteRange \in Nat /\ NameLength \in Nat \ {0} /\ TypeLength \in Nat
      /\ MaxLength \in 1..BufferSize /\ BufferSize \in Bytes
      /\ NameLength + MaxLength < ByteRange /\ TypeLength + 2 < ByteRange
      /\ NameBytes \subseteq Bytes /\ DataBytes \subseteq Bytes
  BY PortAssumption
<1>. QED BY <1>1 DEF Bytes, InfoLength

LEMMA SequenceIsFunction ==
  ASSUME NEW S, NEW s \in Seq(S) PROVE s \in [1..Len(s) -> S]
  OBVIOUS

(* The driver sends b. *)
Sends(b) ==
  /\ seen = {}
  /\ status \in {"accepted", "more"} \/ (status = "data" /\ cmd = "WRITE")
  /\ Sent < NameLength + 1 + MaxLength
  /\ b \in BytesToSend
  /\ request' = [request EXCEPT !.bytes = Append(@, b), !.number = ByteRange * @ + b]
  /\ UNCHANGED abandoned

LEMMA SendsByte == WriteData => \E b \in BytesToSend :
  Sends(b) /\ (ReadKeyByte(b) \/ WriteKeyByte(b) \/ IndexByte(b) \/ TypeByte(b))
  BY DEF WriteData, Sends, Sent

LEMMA SendsBytes == BytesToSend \subseteq Bytes
  BY Sizes DEF BytesToSend

(* The history of what is sent. *)
LEMMA SendsRequest ==
  ASSUME SentInv, NEW b, Sends(b)
  PROVE  /\ request' \in [command : Commands, bytes : Seq(Bytes), number : Nat]
         /\ request'.command = request.command
         /\ request'.bytes = Append(request.bytes, b)
         /\ request'.number = ByteRange * request.number + b
         /\ Sent \in Nat /\ Sent' = Sent + 1
         /\ request'.bytes[Sent + 1] = b
         /\ \A i \in 1..Sent : request'.bytes[i] = request.bytes[i]
         /\ read_pos = Sent
         /\ b \in Bytes
<1>1. b \in Bytes
  BY SendsBytes DEF Sends
<1>2. request.bytes \in Seq(Bytes) /\ request.number \in Nat /\ request.command \in Commands
  BY DEF SentInv
<1>3. ByteRange * request.number + b \in Nat
  BY <1>1, <1>2, Sizes DEF Bytes
<1>4. /\ request'.bytes = Append(request.bytes, b)
      /\ request'.number = ByteRange * request.number + b
      /\ request'.command = request.command
      /\ request' \in [command : Commands, bytes : Seq(Bytes), number : Nat]
  <2>1. Append(request.bytes, b) \in Seq(Bytes)
    BY <1>1, <1>2
  <2>2. request' = [command |-> request.command, bytes |-> Append(request.bytes, b),
                    number |-> ByteRange * request.number + b]
    BY DEF Sends, SentInv
  <2>. QED BY <1>2, <1>3, <2>1, <2>2
<1>5. /\ Sent \in Nat /\ Sent' = Sent + 1
      /\ request'.bytes[Sent + 1] = b
      /\ \A i \in 1..Sent : request'.bytes[i] = request.bytes[i]
  BY <1>1, <1>2, <1>4 DEF Sent
<1>6. read_pos = Sent
  BY <1>5, Sizes DEF Sends, SentInv
<1>. QED BY <1>1, <1>4, <1>5, <1>6

LEMMA SetKeyTypes ==
  ASSUME TypeOK, NEW n \in Names, NEW v \in Values, NEW t \in Types, SetKey(n, v, t)
  PROVE  table' \in Seq(Names) /\ content' \in [Names -> Values] /\ type' \in [Names -> Types]
<1>1. table \in Seq(Names) /\ content \in [Names -> Values] /\ type \in [Names -> Types]
  BY DEF TypeOK
<1>2. table' \in Seq(Names)
  BY <1>1 DEF SetKey
<1>3. content' \in [Names -> Values]
  BY <1>1 DEF SetKey
<1>4. type' \in [Names -> Types]
  BY <1>1 DEF SetKey
<1>. QED BY <1>2, <1>3, <1>4

(* What is stored: a value is a sequence of bytes that fits the buffer. *)
LEMMA ValueTypes ==
  ASSUME NEW v \in Values
  PROVE  /\ Len(v) \in 1..MaxLength /\ DOMAIN v = 1..Len(v)
         /\ \A i \in 1..Len(v) : v[i] \in DataBytes /\ v[i] \in Bytes
<1>1. PICK len \in 1..MaxLength : v \in [1..len -> DataBytes]
  BY DEF Values
<1>2. v \in Seq(DataBytes) /\ Len(v) = len
  BY <1>1, Sizes
<1>. QED BY <1>1, <1>2, Sizes

LEMMA NameTypes ==
  ASSUME TypeOK, KeyInv, Sent \in Nat, Sent >= NameLength, cmd \in {"READ", "WRITE", "TYPE"}
  PROVE  key \in Names
<1>1. key \in [1..NameLength -> Bytes]
  BY DEF TypeOK
<1>2. \A i \in 1..NameLength : key[i] \in NameBytes
  BY Sizes DEF KeyInv
<1>. QED BY <1>1, <1>2 DEF Names

LEMMA AdvanceType == ASSUME TypeOK, Advance PROVE read_pos' \in Bytes
  BY Sizes DEF TypeOK, Advance, Bytes

LEMMA NameByteType ==
  ASSUME TypeOK, NEW b \in Bytes, NameByte(b)
  PROVE  key' \in [1..NameLength -> Bytes]
  BY Sizes DEF TypeOK, NameByte

LEMMA ReadKeyByteType ==
  ASSUME TypeOK, SentInv, KeyInv, NEW b, Sends(b), ReadKeyByte(b) PROVE TypeOK'
<1>1. b \in Bytes /\ read_pos = Sent
  BY SendsRequest
<1>2. key' \in [1..NameLength -> Bytes]
  BY <1>1, NameByteType DEF ReadKeyByte, TypeOK
<1>3. seen' \subseteq Values
  <2>1. CASE NameByte(b) \/ ~Lookup(key)
    BY <2>1, <1>1, Sizes DEF ReadKeyByte, TypeOK, NameByte
  <2>2. CASE read_pos = NameLength /\ Lookup(key)
    <3>1. key \in Names
      BY <1>1, <2>2, NameTypes, Sizes DEF ReadKeyByte
    <3>2. content[key] \in Values
      BY <3>1 DEF TypeOK
    <3>3. seen' = {content[key]}
      BY <2>2, Sizes DEF ReadKeyByte, NameByte
    <3>. QED BY <3>2, <3>3
  <2>. QED BY <2>1, <2>2 DEF ReadKeyByte
<1>4. status' \in Statuses /\ data_len' \in Bytes /\ data_pos' \in Bytes /\ status_1e' \in {0, 1}
  BY <1>1, Sizes DEF ReadKeyByte, TypeOK, Statuses, NotFound
<1>5. read_pos' \in Bytes
  BY AdvanceType DEF ReadKeyByte
<1>. QED BY <1>2, <1>3, <1>4, <1>5 DEF ReadKeyByte, TypeOK, storeVars

LEMMA FillDataType == ASSUME TypeOK, FillData PROVE TypeOK'
<1>0. PICK v \in seen : \E copy \in [1..Len(v) -> Bytes] :
        value' = [i \in 1..BufferSize |-> IF i <= Len(v) THEN copy[i] ELSE value[i]]
  BY DEF FillData
<1>1. PICK copy \in [1..Len(v) -> Bytes] :
        value' = [i \in 1..BufferSize |-> IF i <= Len(v) THEN copy[i] ELSE value[i]]
  BY <1>0
<1>2. Len(v) \in Nat
  BY ValueTypes, Sizes DEF TypeOK
<1>3. value' \in [1..BufferSize -> Bytes]
  <2>1. \A i \in 1..BufferSize : i <= Len(v) => copy[i] \in Bytes
    BY <1>2, Sizes
  <2>2. value \in [1..BufferSize -> Bytes]
    BY DEF TypeOK
  <2>. QED BY <1>1, <2>1, <2>2
<1>4. /\ UNCHANGED <<table, content, type, cmd, status, key, read_pos, data_len, data_pos>>
      /\ UNCHANGED <<status_1e, key_index, key_info>> /\ seen' = {}
  BY DEF FillData, storeVars
<1>. QED BY <1>3, <1>4 DEF TypeOK

(* The last byte of a WRITE: what is stored is what the driver has sent. *)
LEMMA StoredData ==
  ASSUME TypeOK, SentInv, ProgressInv, DataInv, NEW b, Sends(b), cmd = "WRITE", status = "data",
         data_pos + 1 = data_len
  PROVE  LET stored == [value EXCEPT ![data_pos + 1] = b]
         IN /\ SubSeq(stored, 1, data_len) \in Values
            /\ SubSeq(stored, 1, data_len) = SubSeq(request'.bytes, NameLength + 2, Sent')
<1>. DEFINE stored == [value EXCEPT ![data_pos + 1] = b]
            sent == SubSeq(request'.bytes, NameLength + 2, Sent')
<1>1. /\ b \in Bytes /\ read_pos = Sent /\ Sent \in Nat /\ Sent' = Sent + 1
      /\ request'.bytes \in Seq(Bytes) /\ request'.bytes[Sent + 1] = b
      /\ \A i \in 1..Sent : request'.bytes[i] = request.bytes[i]
  BY SendsRequest
<1>2. data_len \in 1..MaxLength /\ data_pos \in Nat /\ data_pos = Sent - NameLength - 1
  <2>1. data_pos \in Nat /\ data_len \in 0..MaxLength
    BY DEF TypeOK, Bytes, ProgressInv, Announced
  <2>. QED BY <2>1, Sizes DEF ProgressInv
<1>3. b \in DataBytes
  BY <1>1, <1>2, Sizes DEF Sends, BytesToSend
<1>4. stored \in [1..BufferSize -> Bytes]
  BY <1>1 DEF TypeOK
<1>5. \A i \in 1..data_len : stored[i] = request'.bytes[NameLength + 1 + i] /\ stored[i] \in DataBytes
  <2>. SUFFICES ASSUME NEW i \in 1..data_len
                PROVE  stored[i] = request'.bytes[NameLength + 1 + i] /\ stored[i] \in DataBytes
    OBVIOUS
  <2>1. CASE i = data_len
    BY <1>1, <1>2, <1>3, <2>1, Sizes DEF TypeOK
  <2>2. CASE i < data_len
    <3>1. i \in 1..data_pos /\ i # data_pos + 1 /\ i \in 1..BufferSize /\ NameLength + 1 + i \in 1..Sent
      BY <1>2, <2>2, Sizes, <1>1
    <3>2. stored[i] = value[i]
      BY <3>1 DEF TypeOK
    <3>. QED BY <1>1, <1>2, <3>1, <3>2 DEF DataInv
  <2>. QED BY <1>2, <2>1, <2>2
<1>6. SubSeq(stored, 1, data_len) = [i \in 1..data_len |-> stored[i]]
  BY <1>2, <1>4, Sizes
<1>7. sent = [i \in 1..data_len |-> request'.bytes[NameLength + 1 + i]]
  <2>1. Sent' - (NameLength + 2) + 1 = data_len /\ Sent' \in Nat
    BY <1>1, <1>2, Sizes
  <2>2. \A i \in 1..data_len : NameLength + 2 + i - 1 = NameLength + 1 + i
    BY Sizes
  <2>3. sent = [i \in 1..(Sent' - (NameLength + 2) + 1) |-> request'.bytes[NameLength + 2 + i - 1]]
    BY <1>1, <2>1, Sizes
  <2>. QED BY <2>1, <2>2, <2>3
<1>8. SubSeq(stored, 1, data_len) = sent
  BY <1>5, <1>6, <1>7
<1>9. SubSeq(stored, 1, data_len) \in Values
  <2>. HIDE DEF stored
  <2>1. SubSeq(stored, 1, data_len) \in [1..data_len -> DataBytes]
    BY <1>5, <1>6
  <2>. QED BY <1>2, <2>1 DEF Values
<1>. QED BY <1>8, <1>9

LEMMA WriteKeyByteType ==
  ASSUME TypeOK, SentInv, KeyInv, ProgressInv, DataInv, NEW b, Sends(b), WriteKeyByte(b) PROVE TypeOK'
<1>1. b \in Bytes /\ read_pos = Sent /\ Sent \in Nat
  BY SendsRequest
<1>2. key' \in [1..NameLength -> Bytes]
  BY <1>1, NameByteType DEF WriteKeyByte, TypeOK
<1>3. read_pos' \in Bytes
  BY AdvanceType DEF WriteKeyByte
<1>4. CASE NameByte(b) \/ read_pos = NameLength \/ data_pos >= data_len
  <2>1. /\ status' \in Statuses /\ data_len' \in Bytes /\ data_pos' \in Bytes
        /\ UNCHANGED <<storeVars, value>>
    <3>1. data_len \in Bytes /\ data_pos \in Bytes /\ status \in Statuses /\ data_len \in Nat /\ data_pos \in Nat
      BY DEF TypeOK, Bytes
    <3>2. CASE NameByte(b)
      BY <1>1, <3>1, <3>2, Sizes DEF WriteKeyByte, NameByte, Statuses
    <3>3. CASE read_pos = NameLength
      BY <1>1, <3>1, <3>3, Sizes DEF WriteKeyByte, NameByte, Statuses
    <3>4. CASE read_pos > NameLength /\ data_pos >= data_len
      BY <1>1, <3>1, <3>4, Sizes DEF WriteKeyByte, NameByte, Statuses
    <3>. QED BY <1>4, <3>1, <3>2, <3>3, <3>4, <1>1, Sizes DEF WriteKeyByte, NameByte
  <2>. QED BY <1>2, <1>3, <2>1 DEF WriteKeyByte, TypeOK, storeVars
<1>5. CASE read_pos > NameLength /\ data_pos < data_len
  <2>. DEFINE stored == [value EXCEPT ![data_pos + 1] = b]
  <2>1. status = "data" /\ data_len \in 1..MaxLength /\ data_pos \in Nat /\ data_pos + 1 \in 1..data_len
    <3>1. status = "data" /\ cmd = "WRITE"
      BY <1>1, <1>5, Sizes DEF Sends, ProgressInv, WriteKeyByte
    <3>2. data_len \in 0..MaxLength /\ data_pos \in Nat
      BY <3>1 DEF ProgressInv, Announced, TypeOK, Bytes
    <3>. QED BY <1>5, <3>1, <3>2, Sizes
  <2>2. stored \in [1..BufferSize -> Bytes] /\ Zero(BufferSize) \in [1..BufferSize -> Bytes]
    BY <1>1, <2>1, Sizes DEF TypeOK, Zero
  <2>3. /\ data_pos' = data_pos + 1 /\ UNCHANGED data_len
        /\ IF data_pos + 1 = data_len
           THEN /\ status' = "done"
                /\ SetKey(key, SubSeq(stored, 1, data_len), DefaultType[data_len])
                /\ value' = Cleared(stored)
           ELSE status' = "data" /\ value' = stored /\ UNCHANGED storeVars
    BY <1>1, <1>5, <2>1, Sizes DEF WriteKeyByte, NameByte
  <2>4. data_pos' \in Bytes /\ data_len' \in Bytes /\ status' \in Statuses
    BY <2>1, <2>3, Sizes DEF TypeOK, Statuses, Bytes
  <2>5. value' \in [1..BufferSize -> Bytes]
    BY <2>2, <2>3 DEF Cleared
  <2>6. table' \in Seq(Names) /\ content' \in [Names -> Values] /\ type' \in [Names -> Types]
    <3>1. CASE data_pos + 1 = data_len
      <4>1. SubSeq(stored, 1, data_len) \in Values
        BY <2>1, <3>1, StoredData DEF WriteKeyByte
      <4>2. key \in Names
        BY <1>1, <1>5, NameTypes, Sizes DEF WriteKeyByte
      <4>3. DefaultType[data_len] \in Types
        BY <2>1, Sizes, PortAssumption
      <4>. HIDE DEF stored
      <4>. QED BY <2>3, <3>1, <4>1, <4>2, <4>3, SetKeyTypes
    <3>2. CASE data_pos + 1 # data_len
      BY <2>3, <3>2 DEF storeVars, TypeOK
    <3>. QED BY <3>1, <3>2
  <2>. QED BY <1>2, <1>3, <2>4, <2>5, <2>6 DEF WriteKeyByte, TypeOK
<1>. QED BY <1>1, <1>4, <1>5 DEF WriteKeyByte

(* A digit of an index goes to its place. *)
LEMMA DigitAdded ==
  ASSUME TypeOK, SentInv, ProgressInv, IndexInv, NEW b, Sends(b), IndexByte(b)
  PROVE  /\ Sent' \in 1..NameLength
         /\ key_index' = request'.number * ByteRange^(NameLength - Sent')
         /\ key_index' + ByteRange^(NameLength - Sent') <= ByteRange^NameLength
         /\ ByteRange^(NameLength - Sent') \in Nat /\ ByteRange^NameLength \in Nat
         /\ ByteRange^(NameLength - Sent') >= 1
         /\ key_index' \in Nat
<1>. DEFINE n == NameLength - Sent'
            low == ByteRange^n
            high == ByteRange^(n + 1)
            all == ByteRange^NameLength
<1>1. /\ b \in 0..(ByteRange - 1) /\ read_pos = Sent /\ Sent \in Nat /\ Sent' = Sent + 1
      /\ request'.number = ByteRange * request.number + b /\ request.number \in Nat
  BY SendsRequest DEF Bytes, SentInv
<1>2. status \in {"accepted", "more"} /\ cmd = "INDEX" /\ Sent < NameLength
  BY <1>1 DEF Sends, IndexByte
<1>3. n \in 0..NameLength /\ n + 1 = NameLength - Sent /\ NameLength - 1 - Sent = n /\ Sent' \in 1..NameLength
  BY <1>1, <1>2, Sizes
<1>4. low \in Nat /\ low >= 1 /\ high = ByteRange * low /\ all \in Nat
  <2>1. \A m \in 0..NameLength : ByteRange^m \in Nat \ {0} /\ ByteRange^(m + 1) = ByteRange * ByteRange^m
    BY PowerAssumption
  <2>2. NameLength \in 0..NameLength
    BY Sizes
  <2>. QED BY <1>3, <2>1, <2>2
<1>5. key_index = request.number * high /\ key_index + high <= all
  BY <1>2, <1>3 DEF IndexInv
<1>6. key_index' = key_index + b * low
  BY <1>1, <1>3 DEF IndexByte, Weight
<1>7. ByteRange \in Nat /\ key_index \in Nat /\ request.number \in Nat /\ b \in Nat /\ b + 1 <= ByteRange
  <2>1. key_index \in Nat
    BY <1>1, <1>4, <1>5, Sizes
  <2>. QED BY <1>1, <2>1, Sizes
<1>. HIDE DEF low, high, all, n
<1>8. key_index' = request'.number * low
  <2>1. request.number * (ByteRange * low) + b * low = (ByteRange * request.number + b) * low
    BY <1>4, <1>7
  <2>. QED BY <1>1, <1>4, <1>5, <1>6, <2>1
<1>9. key_index' + low <= all
  <2>1. b * low + low <= ByteRange * low
    <3>1. (b + 1) * low <= ByteRange * low
      BY <1>4, <1>7
    <3>2. (b + 1) * low = b * low + low
      BY <1>4, <1>7
    <3>. QED BY <3>1, <3>2
  <2>2. b * low \in Nat /\ ByteRange * low \in Nat
    BY <1>4, <1>7
  <2>. QED BY <1>4, <1>5, <1>6, <1>7, <2>1, <2>2
<1>10. key_index' \in Nat
  <2>1. b * low \in Nat
    BY <1>4, <1>7
  <2>. QED BY <1>6, <1>7, <2>1
<1>. USE DEF low, all, n
<1>. QED BY <1>3, <1>4, <1>8, <1>9, <1>10

LEMMA IndexByteType ==
  ASSUME TypeOK, SentInv, ProgressInv, IndexInv, NEW b, Sends(b), IndexByte(b) PROVE TypeOK'
<1>1. key_index' \in 0..(ByteRange^NameLength - 1)
  BY DigitAdded
<1>2. read_pos' \in Bytes
  BY SendsRequest, Sizes DEF IndexByte, Bytes
<1>3. key' \in [1..NameLength -> Bytes]
  <2>1. CASE UNCHANGED key
    BY <2>1 DEF TypeOK
  <2>2. CASE read_pos + 1 = NameLength /\ key_index' < Len(table) /\ key' = table[key_index' + 1]
    <3>1. key_index' \in Nat
      BY DigitAdded
    <3>2. key_index' + 1 \in 1..Len(table)
      <4>1. Len(table) \in Nat
        BY DEF TypeOK
      <4>2. key_index' < Len(table)
        BY <2>2
      <4>3. \A x, y \in Nat : x < y => x + 1 \in 1..y
        OBVIOUS
      <4>. QED BY <3>1, <4>1, <4>2, <4>3
    <3>3. key' \in Names
      BY <2>2, <3>2 DEF TypeOK
    <3>. QED BY <3>3, Sizes DEF Names
  <2>. QED BY <2>1, <2>2 DEF IndexByte
<1>4. status' \in Statuses /\ status_1e' \in {0, 1}
  BY DEF IndexByte, Statuses, NotFound, TypeOK
<1>. QED BY <1>1, <1>2, <1>3, <1>4 DEF IndexByte, TypeOK, storeVars

LEMMA InfoTypes ==
  ASSUME TypeOK, NEW n \in Names
  PROVE  <<Len(content[n])>> \o type[n] \o <<0>> \in [1..InfoLength -> Bytes]
<1>1. content[n] \in Values /\ type[n] \in Types
  BY DEF TypeOK
<1>2. Len(content[n]) \in Bytes
  BY <1>1, ValueTypes, Sizes
<1>3. type[n] \in [1..TypeLength -> Bytes]
  BY <1>1, PortAssumption
<1>4. type[n] \in Seq(Bytes) /\ Len(type[n]) = TypeLength
  BY <1>3, Sizes
<1>5. <<Len(content[n])>> \o type[n] \o <<0>> \in Seq(Bytes)
  BY <1>2, <1>4, Sizes
<1>6. Len(<<Len(content[n])>> \o type[n] \o <<0>>) = InfoLength
  BY <1>2, <1>4, Sizes DEF InfoLength
<1>. QED BY <1>5, <1>6, SequenceIsFunction

LEMMA TypeByteType ==
  ASSUME TypeOK, SentInv, KeyInv, NEW b, Sends(b), TypeByte(b) PROVE TypeOK'
<1>1. b \in Bytes /\ read_pos = Sent /\ Sent \in Nat
  BY SendsRequest
<1>2. key' \in [1..NameLength -> Bytes]
  BY <1>1, NameByteType DEF TypeByte
<1>3. read_pos' \in Bytes
  BY AdvanceType DEF TypeByte
<1>4. status' \in Statuses /\ data_len' \in Bytes /\ data_pos' \in Bytes /\ status_1e' \in {0, 1}
  BY Sizes DEF TypeByte, TypeOK, Statuses, NotFound
<1>5. key_info' \in [1..InfoLength -> Bytes]
  <2>1. CASE key_info' = key_info
    BY <2>1 DEF TypeOK
  <2>2. CASE Lookup(key') /\ key_info' = <<Len(content[key'])>> \o type[key'] \o <<0>>
    <3>1. key' \in Names
      <4>1. PICK i \in 1..Len(table) : key' = table[i]
        BY <2>2 DEF Lookup, Present
      <4>. QED BY <4>1 DEF TypeOK
    <3>. QED BY <2>2, <3>1, InfoTypes
  <2>. QED BY <2>1, <2>2 DEF TypeByte
<1>. QED BY <1>2, <1>3, <1>4, <1>5 DEF TypeByte, TypeOK, storeVars

LEMMA ZeroTypes ==
  /\ Zero(BufferSize) \in [1..BufferSize -> Bytes]
  /\ Zero(InfoLength) \in [1..InfoLength -> Bytes]
  /\ Zero(NameLength) \in [1..NameLength -> Bytes]
  BY Sizes DEF Zero

LEMMA ReadDataType == ASSUME TypeOK, ReadData PROVE TypeOK'
<1>1. data_len \in Bytes /\ data_pos \in Bytes /\ status \in Statuses
  BY DEF TypeOK
<1>2. data_pos' \in Bytes
  BY <1>1, Sizes DEF ReadData, ReadValueByte, ReadNameByte, ReadInfoByte, EndWrite, Bytes
<1>3. status' \in Statuses
  BY <1>1 DEF ReadData, ReadValueByte, ReadNameByte, ReadInfoByte, EndWrite, Statuses
<1>4. value' \in [1..BufferSize -> Bytes] /\ key_info' \in [1..InfoLength -> Bytes]
  BY ZeroTypes DEF ReadData, ReadValueByte, ReadNameByte, ReadInfoByte, EndWrite, Cleared, TypeOK
<1>. QED BY <1>2, <1>3, <1>4 DEF ReadData, TypeOK, storeVars

LEMMA StoreChangesType == ASSUME TypeOK, StoreChanges PROVE TypeOK'
<1>1. PICK n \in Names, v \in Values, t \in Types :
        SetKey(n, v, t) /\ seen' = IF seen # {} /\ n = key THEN seen \cup {v} ELSE seen
  BY DEF StoreChanges
<1>2. table' \in Seq(Names) /\ content' \in [Names -> Values] /\ type' \in [Names -> Types]
  BY <1>1, SetKeyTypes
<1>3. seen' \subseteq Values
  BY <1>1 DEF TypeOK
<1>. QED BY <1>2, <1>3 DEF StoreChanges, registers, TypeOK

LEMMA WriteCommandType == ASSUME TypeOK, NEW c \in Commands, WriteCommand(c) PROVE TypeOK'
<1>1. ByteRange^NameLength - 1 \in Nat
  <2>1. NameLength \in 0..NameLength
    BY Sizes
  <2>. QED BY <2>1, PowerAssumption
<1>2. key_index' \in 0..(ByteRange^NameLength - 1) /\ status' \in Statuses
  BY <1>1 DEF WriteCommand, Accept, TypeOK, Statuses
<1>. QED BY <1>2, Sizes DEF WriteCommand, Accept, TypeOK, storeVars

LEMMA ReadErrorPortType == ASSUME TypeOK, ReadErrorPort PROVE TypeOK'
  BY DEF ReadErrorPort, TypeOK, storeVars

LEMMA InitType == Init => TypeOK
<1>. SUFFICES ASSUME Init PROVE TypeOK
  OBVIOUS
<1>1. table \in Seq(Names)
  BY PortAssumption DEF Init
<1>2. <<0>> \in Values
  <2>1. <<0>> \in [1..1 -> DataBytes]
    BY PortAssumption
  <2>2. 1 \in 1..MaxLength
    BY Sizes
  <2>. QED BY <2>1, <2>2 DEF Values
<1>3. DefaultType[1] \in Types
  BY PortAssumption, Sizes
<1>4. 0 \in 0..(ByteRange^NameLength - 1)
  <2>1. NameLength \in 0..NameLength
    BY Sizes
  <2>. QED BY <2>1, PowerAssumption
<1>. QED BY <1>1, <1>2, <1>3, <1>4, ZeroTypes, Sizes DEF Init, TypeOK, Commands, Statuses
--------------------------------------------------------------------------------
(* The history of what is sent, and the name. *)
LEMMA SentKept ==
  ASSUME SentInv, UNCHANGED <<request, cmd, read_pos>> PROVE SentInv'
  BY DEF SentInv, Sent

LEMMA SendsSentInv ==
  ASSUME SentInv, NEW b, Sends(b), UNCHANGED cmd, read_pos' = (read_pos + 1) % ByteRange \/ read_pos' = read_pos + 1
  PROVE  SentInv'
<1>1. /\ request' \in [command : Commands, bytes : Seq(Bytes), number : Nat]
      /\ request'.command = request.command
      /\ Sent \in Nat /\ Sent' = Sent + 1 /\ read_pos = Sent
  BY SendsRequest
<1>2. Sent' <= NameLength + 1 + MaxLength
  BY <1>1, Sizes DEF Sends
<1>3. Sent' < ByteRange => read_pos' = Sent'
  BY <1>1, Sizes
<1>. QED BY <1>1, <1>2, <1>3 DEF SentInv

LEMMA SendsKeyInv ==
  ASSUME TypeOK, SentInv, KeyInv, NEW b, Sends(b), UNCHANGED cmd,
         cmd \in {"READ", "WRITE", "TYPE"} => NameByte(b) \/ (read_pos >= NameLength /\ UNCHANGED key)
  PROVE  KeyInv'
<1>. SUFFICES ASSUME cmd \in {"READ", "WRITE", "TYPE"}, NEW i \in 1..NameLength, i <= Sent'
              PROVE  request'.bytes[i] \in NameBytes /\ key'[i] = request'.bytes[i]
  BY DEF KeyInv
<1>1. /\ Sent \in Nat /\ Sent' = Sent + 1 /\ read_pos = Sent
      /\ request'.bytes[Sent + 1] = b
      /\ \A j \in 1..Sent : request'.bytes[j] = request.bytes[j]
  BY SendsRequest
<1>0. key \in [1..NameLength -> Bytes]
  BY DEF TypeOK
<1>2. CASE i <= Sent
  <2>1. key'[i] = key[i]
    BY <1>0, <1>1, <1>2, Sizes DEF NameByte
  <2>. QED BY <1>1, <1>2, <2>1 DEF KeyInv
<1>3. CASE i = Sent + 1
  <2>1. NameByte(b)
    BY <1>1, <1>3, Sizes
  <2>2. b \in NameBytes
    BY <1>1, <2>1, Sizes DEF Sends, NameByte, BytesToSend
  <2>. QED BY <1>0, <1>1, <1>3, <2>1, <2>2 DEF NameByte
<1>. QED BY <1>1, <1>2, <1>3

LEMMA WriteCommandLinked ==
  ASSUME TypeOK, Linked, NEW c \in Commands, WriteCommand(c) PROVE Linked'
<1>1. /\ request' = [command |-> c, bytes |-> <<>>, number |-> 0] /\ cmd' = c
      /\ read_pos' = 0 /\ data_pos' = 0 /\ key_index' = 0 /\ value' = value
      /\ status' = IF c = "OTHER" THEN status ELSE "accepted"
      /\ abandoned' = (abandoned \/ status # "done")
  BY DEF WriteCommand, Accept
<1>2. Sent' = 0 /\ request'.bytes = <<>> /\ request'.number = 0
  BY <1>1 DEF Sent
<1>3. SentInv'
  <2>1. request' \in [command : Commands, bytes : Seq(Bytes), number : Nat]
    BY <1>1
  <2>. QED BY <1>1, <1>2, <2>1, Sizes DEF SentInv
<1>4. KeyInv'
  BY <1>2 DEF KeyInv
<1>5. ProgressInv' /\ DataInv'
  BY <1>1, <1>2, Sizes DEF ProgressInv, DataInv
<1>6. IndexInv'
  <2>1. NameLength \in 0..NameLength /\ NameLength - 0 = NameLength
    BY Sizes
  <2>2. ByteRange^NameLength \in Nat
    BY <2>1, PowerAssumption
  <2>. QED BY <1>1, <1>2, <2>1, <2>2 DEF IndexInv
<1>7. BufferInv'
  BY <1>1 DEF Linked, BufferInv
<1>8. FetchInv'
  BY DEF WriteCommand, FetchInv
<1>. QED BY <1>3, <1>4, <1>5, <1>6, <1>7, <1>8 DEF Linked

LEMMA ReadKeyByteLinked ==
  ASSUME TypeOK, Linked, NEW b, Sends(b), ReadKeyByte(b) PROVE Linked'
<1>1. /\ Sent \in Nat /\ Sent' = Sent + 1 /\ read_pos = Sent
      /\ request'.bytes[Sent + 1] = b
  BY SendsRequest DEF Linked
<1>2. cmd = "READ" /\ cmd' = "READ" /\ UNCHANGED abandoned /\ status \in {"accepted", "more"}
  BY DEF ReadKeyByte, Sends
<1>3. SentInv'
  BY <1>2, SendsSentInv DEF Linked, ReadKeyByte, Advance
<1>4. KeyInv'
  BY <1>1, <1>2, SendsKeyInv, Sizes DEF Linked, ReadKeyByte
<1>5. ProgressInv'
  <2>1. CASE NameByte(b)
    BY <1>1, <1>2, <2>1, Sizes DEF ReadKeyByte, NameByte, ProgressInv
  <2>2. CASE read_pos = NameLength
    <3>1. b \in 0..MaxLength
      BY <1>2, <2>2 DEF Sends, BytesToSend
    <3>. QED BY <1>1, <1>2, <2>2, <3>1, Sizes DEF ReadKeyByte, NameByte, ProgressInv, Announced
  <2>. QED BY <2>1, <2>2 DEF ReadKeyByte
<1>6. DataInv' /\ IndexInv'
  BY <1>2 DEF DataInv, IndexInv
<1>7. BufferInv'
  BY <1>2 DEF Linked, BufferInv, ReadKeyByte, NameByte
<1>8. FetchInv'
  BY <1>2 DEF FetchInv, ReadKeyByte, Sends
<1>. QED BY <1>3, <1>4, <1>5, <1>6, <1>7, <1>8 DEF Linked

(* The value is copied: only the buffer changes. *)
LEMMA FillDataLinked == ASSUME TypeOK, Linked, FillData PROVE Linked'
<1>1. UNCHANGED <<cmd, status, key, read_pos, data_len, data_pos, key_index, request, abandoned>> /\ Sent' = Sent
  BY DEF FillData, Sent
<1>2. cmd = "READ" /\ status = "data" /\ seen' = {}
  BY DEF FillData, Linked, FetchInv
<1>3. SentInv'
  BY <1>1, SentKept DEF Linked
<1>4. KeyInv' /\ ProgressInv' /\ IndexInv'
  BY <1>1 DEF Linked, KeyInv, ProgressInv, IndexInv, Announced
<1>5. DataInv' /\ BufferInv' /\ FetchInv'
  BY <1>1, <1>2 DEF DataInv, BufferInv, FetchInv
<1>. QED BY <1>3, <1>4, <1>5 DEF Linked

LEMMA WriteKeyByteLinked ==
  ASSUME TypeOK, Linked, NEW b, Sends(b), WriteKeyByte(b) PROVE Linked'
<1>1. /\ Sent \in Nat /\ Sent' = Sent + 1 /\ read_pos = Sent
      /\ request'.bytes[Sent + 1] = b
      /\ \A i \in 1..Sent : request'.bytes[i] = request.bytes[i]
  BY SendsRequest DEF Linked
<1>2. cmd = "WRITE" /\ cmd' = "WRITE" /\ UNCHANGED abandoned /\ status \in {"accepted", "more", "data"}
  BY DEF WriteKeyByte, Sends
<1>3. SentInv'
  BY <1>2, SendsSentInv DEF Linked, WriteKeyByte, Advance
<1>4. KeyInv'
  BY <1>1, <1>2, SendsKeyInv, Sizes DEF Linked, WriteKeyByte
<1>5. IndexInv' /\ FetchInv'
  BY <1>2 DEF IndexInv, FetchInv, WriteKeyByte, Sends
<1>6. CASE NameByte(b)
  <2>1. Sent < NameLength /\ status' = "more" /\ UNCHANGED value
    BY <1>1, <1>6, Sizes DEF WriteKeyByte, NameByte
  <2>2. ProgressInv' /\ DataInv'
    BY <1>1, <1>2, <2>1, Sizes DEF ProgressInv, DataInv
  <2>3. BufferInv'
    BY <1>1, <1>2, <2>1, Sizes DEF Linked, BufferInv, ProgressInv
  <2>. QED BY <1>3, <1>4, <1>5, <2>2, <2>3 DEF Linked
<1>7. CASE read_pos = NameLength
  <2>1. status' = "data" /\ data_pos' = 0 /\ data_len' = b /\ UNCHANGED value
    BY <1>1, <1>7, Sizes DEF WriteKeyByte, NameByte
  <2>2. b \in 0..MaxLength
    BY <1>1, <1>2, <1>7, Sizes DEF Sends, BytesToSend
  <2>3. ProgressInv'
    BY <1>1, <1>2, <1>7, <2>1, <2>2, Sizes DEF ProgressInv, Announced
  <2>4. DataInv' /\ BufferInv'
    BY <1>2, <2>1 DEF DataInv, BufferInv
  <2>. QED BY <1>3, <1>4, <1>5, <2>3, <2>4 DEF Linked
<1>8. CASE read_pos > NameLength
  <2>1. status = "data"
    BY <1>1, <1>2, <1>8, Sizes DEF Linked, ProgressInv
  <2>2. /\ data_len = request.bytes[NameLength + 1] /\ data_len \in 0..MaxLength
        /\ IF data_len = 0 THEN data_pos = 0
           ELSE data_pos = Sent - NameLength - 1 /\ data_pos < data_len
    BY <1>2, <2>1 DEF Linked, ProgressInv, Announced
  <2>3. data_len = request'.bytes[NameLength + 1]
    BY <1>1, <1>8, <2>2, Sizes
  <2>4. CASE data_len = 0
    <3>1. UNCHANGED <<status, data_len, data_pos, value>>
      BY <1>1, <1>8, <2>2, <2>4, Sizes DEF WriteKeyByte, NameByte
    <3>2. ProgressInv'
      <4>1. Announced' /\ data_len' = 0 /\ data_pos' = 0 /\ status' = "data"
        BY <2>1, <2>2, <2>3, <2>4, <3>1 DEF Announced
      <4>2. Sent' > NameLength
        BY <1>1, <1>8, Sizes
      <4>. QED BY <1>2, <4>1, <4>2 DEF ProgressInv
    <3>3. DataInv' /\ BufferInv'
      BY <1>2, <2>1, <2>4, <3>1 DEF DataInv, BufferInv
    <3>. QED BY <1>3, <1>4, <1>5, <3>2, <3>3 DEF Linked
  <2>5. CASE data_len # 0
    <3>1. /\ data_pos' = data_pos + 1 /\ UNCHANGED data_len
          /\ IF data_pos + 1 = data_len
             THEN status' = "done" /\ value' = Zero(BufferSize)
             ELSE status' = "data" /\ value' = [value EXCEPT ![data_pos + 1] = b]
      BY <1>1, <1>8, <2>2, <2>5, Sizes DEF WriteKeyByte, NameByte, Cleared
    <3>2. ProgressInv'
      BY <1>1, <1>2, <1>8, <2>2, <2>3, <2>5, <3>1, Sizes DEF ProgressInv, Announced
    <3>3. DataInv'
      <4>. SUFFICES ASSUME status' = "data", NEW i \in 1..data_pos'
                    PROVE  /\ request'.bytes[NameLength + 1 + i] \in DataBytes
                           /\ value'[i] = request'.bytes[NameLength + 1 + i]
        BY DEF DataInv
      <4>1. value' = [value EXCEPT ![data_pos + 1] = b] /\ data_pos \in Nat /\ data_pos + 1 <= BufferSize
        BY <1>1, <1>8, <2>2, <2>5, <3>1, Sizes
      <4>2. b \in DataBytes
        BY <1>1, <1>2, <1>8, Sizes DEF Sends, BytesToSend
      <4>3. value \in [1..BufferSize -> Bytes]
        BY DEF TypeOK
      <4>4. CASE i = data_pos + 1
        <5>1. NameLength + 1 + i = Sent + 1
          BY <1>1, <2>2, <2>5, <4>4, Sizes
        <5>. QED BY <1>1, <4>1, <4>2, <4>3, <4>4, <5>1, Sizes
      <4>5. CASE i \in 1..data_pos
        <5>1. NameLength + 1 + i \in 1..Sent /\ i # data_pos + 1 /\ i \in 1..BufferSize
          BY <1>1, <2>2, <2>5, <4>1, <4>5, Sizes
        <5>2. request.bytes[NameLength + 1 + i] \in DataBytes /\ value[i] = request.bytes[NameLength + 1 + i]
          BY <1>2, <2>1, <2>2, <2>5, <4>5, Sizes DEF Linked, DataInv
        <5>3. value'[i] = value[i]
          BY <4>1, <4>3, <5>1
        <5>. QED BY <1>1, <5>1, <5>2, <5>3
      <4>. QED BY <3>1, <4>1, <4>4, <4>5
    <3>4. BufferInv'
      BY <1>2, <3>1 DEF BufferInv
    <3>. QED BY <1>3, <1>4, <1>5, <3>2, <3>3, <3>4 DEF Linked
  <2>. QED BY <2>4, <2>5
<1>. QED BY <1>6, <1>7, <1>8 DEF WriteKeyByte

LEMMA IndexByteLinked ==
  ASSUME TypeOK, Linked, NEW b, Sends(b), IndexByte(b) PROVE Linked'
<1>1. /\ Sent \in Nat /\ Sent' = Sent + 1 /\ read_pos = Sent
  BY SendsRequest DEF Linked
<1>2. cmd = "INDEX" /\ cmd' = "INDEX" /\ UNCHANGED <<abandoned, data_pos, value>> /\ status \in {"accepted", "more"}
  BY DEF IndexByte, Sends
<1>3. /\ Sent' \in 1..NameLength
      /\ key_index' = request'.number * ByteRange^(NameLength - Sent')
      /\ key_index' + ByteRange^(NameLength - Sent') <= ByteRange^NameLength
  BY DigitAdded DEF Linked
<1>4. SentInv'
  BY <1>2, SendsSentInv DEF Linked, IndexByte
<1>5. KeyInv' /\ DataInv'
  BY <1>2 DEF KeyInv, DataInv
<1>6. ProgressInv'
  BY <1>1, <1>2, <1>3, Sizes DEF IndexByte, ProgressInv
<1>7. IndexInv'
  BY <1>2, <1>3 DEF Linked, IndexInv
<1>8. BufferInv' /\ FetchInv'
  BY <1>2 DEF Linked, BufferInv, FetchInv, IndexByte, Sends
<1>. QED BY <1>4, <1>5, <1>6, <1>7, <1>8 DEF Linked

LEMMA TypeByteLinked ==
  ASSUME TypeOK, Linked, NEW b, Sends(b), TypeByte(b) PROVE Linked'
<1>1. /\ Sent \in Nat /\ Sent' = Sent + 1 /\ read_pos = Sent
  BY SendsRequest DEF Linked
<1>2. cmd = "TYPE" /\ cmd' = "TYPE" /\ UNCHANGED <<abandoned, value>> /\ status \in {"accepted", "more"}
  BY DEF TypeByte, Sends
<1>3. SentInv'
  BY <1>2, SendsSentInv DEF Linked, TypeByte, Advance
<1>4. KeyInv'
  BY <1>1, <1>2, SendsKeyInv, Sizes DEF Linked, TypeByte
<1>5. DataInv' /\ IndexInv'
  BY <1>2 DEF DataInv, IndexInv
<1>6. ProgressInv'
  BY <1>1, <1>2, Sizes DEF TypeByte, NameByte, ProgressInv
<1>7. BufferInv' /\ FetchInv'
  BY <1>2 DEF Linked, BufferInv, FetchInv, TypeByte, Sends
<1>. QED BY <1>3, <1>4, <1>5, <1>6, <1>7 DEF Linked

(* The driver takes a byte: the offer goes on, or is over. *)
LEMMA ReadDataLinked == ASSUME TypeOK, Linked, ReadData PROVE Linked'
<1>1. /\ UNCHANGED <<cmd, key, read_pos, data_len, key_index, request>> /\ status = "data" /\ Sent' = Sent
      /\ status' \in {"data", "done"} /\ (abandoned => abandoned')
  BY DEF ReadData, ReadValueByte, ReadNameByte, ReadInfoByte, EndWrite, Sent
<1>2. SentInv' /\ KeyInv'
  BY <1>1, SentKept DEF Linked, KeyInv
<1>3. cmd = "WRITE" => status' = "done" /\ abandoned'
  BY DEF ReadData, ReadValueByte, ReadNameByte, ReadInfoByte, EndWrite
<1>4. ProgressInv'
  BY <1>1, <1>3 DEF Linked, ProgressInv, Announced
<1>5. DataInv' /\ IndexInv'
  BY <1>1, <1>3 DEF DataInv, IndexInv
<1>6. BufferInv'
  BY <1>1 DEF Linked, BufferInv, ReadData, ReadValueByte, ReadNameByte, ReadInfoByte, EndWrite, Cleared
<1>7. FetchInv'
  BY DEF ReadData, FetchInv
<1>. QED BY <1>2, <1>4, <1>5, <1>6, <1>7 DEF Linked

LEMMA RegistersLinked ==
  ASSUME Linked, UNCHANGED <<registers, request, abandoned>>, seen = {} => seen' = {} PROVE Linked'
<1>1. UNCHANGED <<cmd, status, key, read_pos, data_len, data_pos, value, key_index, request, abandoned>> /\ Sent' = Sent
  BY DEF registers, Sent
<1>2. SentInv'
  BY <1>1, SentKept DEF Linked
<1>3. KeyInv' /\ ProgressInv' /\ DataInv'
  BY <1>1 DEF Linked, KeyInv, ProgressInv, DataInv, Announced
<1>4. IndexInv' /\ BufferInv' /\ FetchInv'
  BY <1>1 DEF Linked, IndexInv, BufferInv, FetchInv
<1>. QED BY <1>2, <1>3, <1>4 DEF Linked

LEMMA ReadErrorPortLinked == ASSUME Linked, ReadErrorPort PROVE Linked'
<1>1. UNCHANGED <<cmd, status, key, read_pos, data_len, data_pos, value, key_index, request, abandoned>> /\ Sent' = Sent
  BY DEF ReadErrorPort, Sent
<1>2. SentInv'
  BY <1>1, SentKept DEF Linked
<1>3. KeyInv' /\ ProgressInv' /\ DataInv'
  BY <1>1 DEF Linked, KeyInv, ProgressInv, DataInv, Announced
<1>4. IndexInv' /\ BufferInv' /\ FetchInv'
  BY <1>1 DEF Linked, IndexInv, BufferInv, FetchInv, ReadErrorPort
<1>. QED BY <1>2, <1>3, <1>4 DEF Linked

LEMMA InitLinked == ASSUME Init PROVE Linked
<1>1. /\ request = [command |-> "OTHER", bytes |-> <<>>, number |-> 0] /\ cmd = "OTHER" /\ status = "done"
      /\ read_pos = 0 /\ value = Zero(BufferSize) /\ Sent = 0 /\ seen = {}
  BY DEF Init, Sent
<1>2. request \in [command : Commands, bytes : Seq(Bytes), number : Nat]
  BY <1>1 DEF Commands
<1>3. SentInv
  BY <1>1, <1>2, Sizes DEF SentInv
<1>. QED BY <1>1, <1>3 DEF Linked, KeyInv, ProgressInv, DataInv, IndexInv, BufferInv, FetchInv

LEMMA InitIInv == Init => PortIInv
  BY InitType, InitLinked DEF PortIInv

LEMMA WriteDataIInv == ASSUME TypeOK, Linked, WriteData PROVE PortIInv'
<1>1. PICK b \in BytesToSend :
        Sends(b) /\ (ReadKeyByte(b) \/ WriteKeyByte(b) \/ IndexByte(b) \/ TypeByte(b))
  BY SendsByte
<1>2. SentInv /\ KeyInv /\ ProgressInv /\ DataInv /\ IndexInv
  BY DEF Linked
<1>3. CASE ReadKeyByte(b)
  BY <1>1, <1>2, <1>3, ReadKeyByteType, ReadKeyByteLinked DEF PortIInv
<1>4. CASE WriteKeyByte(b)
  BY <1>1, <1>2, <1>4, WriteKeyByteType, WriteKeyByteLinked DEF PortIInv
<1>5. CASE IndexByte(b)
  BY <1>1, <1>2, <1>5, IndexByteType, IndexByteLinked DEF PortIInv
<1>6. CASE TypeByte(b)
  BY <1>1, <1>2, <1>6, TypeByteType, TypeByteLinked DEF PortIInv
<1>. QED BY <1>1, <1>3, <1>4, <1>5, <1>6 DEF PortIInv

LEMMA StepIInv == PortIInv /\ [Next]_vars => PortIInv'
<1>. SUFFICES ASSUME TypeOK, Linked, [Next]_vars PROVE PortIInv'
  BY DEF PortIInv
<1>1. ASSUME NEW c \in Commands, WriteCommand(c) PROVE PortIInv'
  BY <1>1, WriteCommandType, WriteCommandLinked DEF PortIInv
<1>2. CASE WriteData
  BY <1>2, WriteDataIInv
<1>3. CASE ReadData
  BY <1>3, ReadDataType, ReadDataLinked DEF PortIInv
<1>4. CASE ReadErrorPort
  BY <1>4, ReadErrorPortType, ReadErrorPortLinked DEF PortIInv
<1>5. CASE StoreChanges
  <2>1. UNCHANGED <<registers, request, abandoned>> /\ (seen = {} => seen' = {})
    BY <1>5 DEF StoreChanges
  <2>. QED BY <1>5, <2>1, StoreChangesType, RegistersLinked DEF PortIInv
<1>6. CASE UNCHANGED vars
  <2>1. Linked'
    BY <1>6, RegistersLinked DEF vars
  <2>2. TypeOK'
    BY <1>6 DEF vars, storeVars, registers, TypeOK
  <2>. QED BY <2>1, <2>2 DEF PortIInv
<1>7. CASE FillData
  BY <1>7, FillDataType, FillDataLinked DEF PortIInv
<1>. QED BY <1>1, <1>2, <1>3, <1>4, <1>5, <1>6, <1>7 DEF Next

LEMMA IInvHolds == Spec => []PortIInv
  BY InitIInv, StepIInv, PTL DEF Spec

(* PortInv: the positions stay inside the buffers whatever the driver      *)
(* sends and gives up, and between complete commands the buffer holds      *)
(* zeros, for buffers and names of any length.                             *)
THEOREM PortSafe == Spec => []PortInv
<1>1. PortIInv => PortInv
  BY DEF PortIInv, Linked, BufferInv, PortInv, CleanBuffer
<1>. QED BY <1>1, IInvHolds, PTL
--------------------------------------------------------------------------------
(* The refinement.  Nothing is offered but the rest of a buffer.           *)
LEMMA ReplyValue ==
  /\ seen # {} \/ status # "data" \/ cmd \notin {"READ", "INDEX", "TYPE"} => Reply = <<>>
  /\ seen = {} /\ status = "data" /\ cmd = "READ" => Reply = SubSeq(value, data_pos + 1, data_len)
  /\ seen = {} /\ status = "data" /\ cmd = "INDEX" => Reply = SubSeq(key, data_pos + 1, NameLength)
  /\ seen = {} /\ status = "data" /\ cmd = "TYPE" => Reply = SubSeq(key_info, data_pos + 1, data_len)
  BY DEF Reply

LEMMA ReplyValueAfter ==
  /\ seen' # {} \/ status' # "data" \/ cmd' \notin {"READ", "INDEX", "TYPE"} => Reply' = <<>>
  /\ seen' = {} /\ status' = "data" /\ cmd' = "READ" => Reply' = SubSeq(value', data_pos' + 1, data_len')
  /\ seen' = {} /\ status' = "data" /\ cmd' = "INDEX" => Reply' = SubSeq(key', data_pos' + 1, NameLength)
  /\ seen' = {} /\ status' = "data" /\ cmd' = "TYPE" => Reply' = SubSeq(key_info', data_pos' + 1, data_len')
  BY DEF Reply

LEMMA CompleteCases ==
  ASSUME NEW r
  PROVE  /\ r.command = "READ" => (Service!Complete(r) <=> Len(r.bytes) = NameLength + 1)
         /\ r.command = "WRITE" =>
              (Service!Complete(r) <=> /\ Len(r.bytes) > NameLength + 1
                                       /\ Len(r.bytes) = NameLength + 1 + r.bytes[NameLength + 1])
         /\ r.command \in {"INDEX", "TYPE"} => (Service!Complete(r) <=> Len(r.bytes) = NameLength)
  BY DEF Service!Complete, Service!Length

(* Buffers are sequences. *)
LEMMA BufferIsSequence ==
  ASSUME NEW S, NEW n \in Nat, NEW f \in [1..n -> S]
  PROVE  f \in Seq(S) /\ Len(f) = n /\ SubSeq(f, 1, n) = f
<1>1. f \in Seq(S) /\ Len(f) = n
  OBVIOUS
<1>2. SubSeq(f, 1, n) = [i \in 1..n |-> f[i]]
  BY <1>1
<1>. QED BY <1>1, <1>2

LEMMA TailOfRest ==
  ASSUME NEW S, NEW s \in Seq(S), NEW m \in Nat, NEW n \in Nat, 1 <= m, m <= n, n <= Len(s)
  PROVE  SubSeq(s, m, n) # <<>> /\ Tail(SubSeq(s, m, n)) = SubSeq(s, m + 1, n)
<1>. DEFINE rest == SubSeq(s, m, n)
            next == SubSeq(s, m + 1, n)
<1>1. rest \in Seq(S) /\ Len(rest) = n - m + 1 /\ \A i \in 1..(n - m + 1) : rest[i] = s[m + i - 1]
  OBVIOUS
<1>2. next \in Seq(S) /\ Len(next) = n - m /\ \A i \in 1..(n - m) : next[i] = s[m + i]
  <2>1. CASE m < n
    BY <2>1
  <2>2. CASE m = n
    BY <2>2
  <2>. QED BY <2>1, <2>2
<1>. HIDE DEF rest, next
<1>3. Tail(rest) \in Seq(S) /\ Len(Tail(rest)) = n - m /\ \A i \in 1..(n - m) : Tail(rest)[i] = s[m + i]
  BY <1>1
<1>4. rest # <<>>
  BY <1>1
<1>5. Tail(rest) = [i \in 1..(n - m) |-> s[m + i]] /\ next = [i \in 1..(n - m) |-> s[m + i]]
  BY <1>2, <1>3, SequenceIsFunction
<1>6. rest # <<>> /\ Tail(rest) = next
  BY <1>4, <1>5
<1>. QED BY <1>6 DEF rest, next

LEMMA NameOf ==
  ASSUME NEW bytes \in Seq(Bytes), NEW k \in [1..NameLength -> Bytes], Len(bytes) >= NameLength,
         \A i \in 1..NameLength : k[i] = bytes[i]
  PROVE  Service!Name(bytes) = k
<1>1. SubSeq(bytes, 1, NameLength) = [i \in 1..NameLength |-> bytes[i]]
  BY Sizes
<1>. QED BY <1>1 DEF Service!Name

LEMMA InitRefined == Init => Service!ServiceInit
  BY ReplyValue DEF Init, Service!ServiceInit

LEMMA WriteCommandRefined == ASSUME NEW c \in Commands, WriteCommand(c) PROVE Service!Begin(c)
<1>1. Reply' = <<>>
  BY ReplyValueAfter DEF WriteCommand, Accept
<1>. QED BY <1>1 DEF WriteCommand, Accept, Service!Begin, storeVars

LEMMA SetKeyRefined ==
  ASSUME NEW n, NEW v, NEW t \in Types, SetKey(n, v, t) PROVE Service!SetKey(n, v)
  BY DEF SetKey, Present, Service!SetKey, Service!Registered

(* The key that is read is the one the driver has named. *)
LEMMA KeyIsNamed == ASSUME TypeOK, Linked, seen # {} PROVE Service!Name(request.bytes) = key
<1>1. cmd = "READ" /\ Sent = NameLength + 1 /\ request.bytes \in Seq(Bytes)
  BY DEF Linked, FetchInv, ProgressInv, SentInv
<1>2. \A i \in 1..NameLength : key[i] = request.bytes[i]
  BY <1>1, Sizes DEF Linked, KeyInv
<1>3. key \in [1..NameLength -> Bytes] /\ Len(request.bytes) >= NameLength
  BY <1>1, Sizes DEF TypeOK, Sent
<1>. QED BY <1>1, <1>2, <1>3, NameOf

LEMMA StoreChangesRefined == ASSUME TypeOK, Linked, StoreChanges PROVE Service!StoreChanges
<1>1. PICK n \in Names, v \in Values, t \in Types :
        SetKey(n, v, t) /\ seen' = IF seen # {} /\ n = key THEN seen \cup {v} ELSE seen
  BY DEF StoreChanges
<1>2. Service!SetKey(n, v)
  BY <1>1, SetKeyRefined
<1>3. UNCHANGED <<request, status_1e, cmd, status, key, data_len, data_pos, value, key_info>>
  BY DEF StoreChanges, registers
<1>4. UNCHANGED Reply
  <2>1. seen = {} <=> seen' = {}
    BY <1>1
  <2>. QED BY <1>3, <2>1 DEF Reply
<1>5. seen' = IF seen # {} /\ n = Service!Name(request.bytes) THEN seen \cup {v} ELSE seen
  BY <1>1, KeyIsNamed
<1>. QED BY <1>2, <1>3, <1>4, <1>5 DEF Service!StoreChanges

(* The copy is the answer. *)
LEMMA FillDataRefined == ASSUME TypeOK, Linked, PortIInv', FillData PROVE Service!AnswerRead
<1>0. PICK v \in seen : \E copy \in [1..Len(v) -> Bytes] :
        /\ SameSize(seen) => \A i \in 1..Len(v) : copy[i] \in {w[i] : w \in seen}
        /\ value' = [i \in 1..BufferSize |-> IF i <= Len(v) THEN copy[i] ELSE value[i]]
  BY DEF FillData
<1>1. PICK copy \in [1..Len(v) -> Bytes] :
        /\ SameSize(seen) => \A i \in 1..Len(v) : copy[i] \in {w[i] : w \in seen}
        /\ value' = [i \in 1..BufferSize |-> IF i <= Len(v) THEN copy[i] ELSE value[i]]
  BY <1>0
<1>2. /\ UNCHANGED <<table, content, type, cmd, status, data_len, data_pos, request, status_1e>>
      /\ seen # {} /\ seen' = {}
  BY DEF FillData, storeVars
<1>3. cmd = "READ" /\ status = "data" /\ data_pos = 0 /\ data_len \in 0..MaxLength
      /\ Service!Length(request.bytes) = data_len
  BY <1>2 DEF Linked, FetchInv, ProgressInv, Announced, Service!Length
<1>4. value' \in [1..BufferSize -> Bytes]
  BY DEF PortIInv, TypeOK
<1>5. Reply' = [i \in 1..data_len |-> value'[i]]
  <2>1. Reply' = SubSeq(value', 1, data_len)
    <3>1. 0 + 1 = 1
      OBVIOUS
    <3>. QED BY <1>2, <1>3, <3>1, ReplyValueAfter
  <2>. QED BY <1>3, <1>4, <2>1, Sizes
<1>6. Reply' \in [1..data_len -> Bytes]
  BY <1>3, <1>4, <1>5, Sizes
<1>7. ASSUME SameSize(seen), NEW w \in seen, NEW i \in DOMAIN Reply' \cap DOMAIN w
      PROVE  Reply'[i] \in {u[i] : u \in seen}
  <2>1. w \in Values /\ v \in Values /\ Len(w) = Len(v)
    BY <1>7 DEF TypeOK, SameSize
  <2>2. i \in 1..data_len /\ i \in 1..Len(v) /\ i \in 1..BufferSize
    BY <1>3, <1>5, <1>7, <2>1, ValueTypes, Sizes
  <2>3. value'[i] = copy[i]
    BY <1>1, <2>1, <2>2, ValueTypes
  <2>. QED BY <1>1, <1>5, <1>7, <2>2, <2>3
<1>. QED BY <1>2, <1>3, <1>6, <1>7 DEF Service!AnswerRead, SameSize

LEMMA ReadErrorPortRefined == ReadErrorPort => Service!ReadError
  BY DEF ReadErrorPort, Service!ReadError, Reply, storeVars

(* A byte is taken from a buffer, and the rest is still offered. *)
LEMMA ReadDataRefined ==
  ASSUME TypeOK, Linked, ReadData PROVE Service!Take \/ UNCHANGED Service!serviceVars
<1>1. /\ UNCHANGED <<table, content, type, request, status_1e, cmd, key, data_len, seen>> /\ status = "data"
      /\ seen = {} /\ seen' = {}
  BY DEF ReadData, storeVars
<1>2. data_pos \in Nat /\ data_len \in Nat
  BY DEF TypeOK, Bytes
<1>3. CASE ReadValueByte
  <2>1. cmd = "READ" /\ data_pos < data_len /\ data_pos' = data_pos + 1
        /\ IF data_pos + 1 = data_len THEN status' = "done" ELSE UNCHANGED <<status, value>>
    BY <1>3 DEF ReadValueByte
  <2>2. value \in Seq(Bytes) /\ Len(value) = BufferSize /\ data_len <= BufferSize
    <3>1. data_len \in 0..MaxLength
      BY <1>1, <2>1 DEF Linked, ProgressInv, Announced
    <3>. QED BY <3>1, Sizes, BufferIsSequence DEF TypeOK
  <2>3. SubSeq(value, data_pos + 1, data_len) # <<>>
        /\ Tail(SubSeq(value, data_pos + 1, data_len)) = SubSeq(value, data_pos + 1 + 1, data_len)
    <3>1. data_pos + 1 \in Nat /\ 1 <= data_pos + 1 /\ data_pos + 1 <= data_len
      BY <1>2, <2>1
    <3>. QED BY <1>2, <2>2, <3>1, TailOfRest
  <2>4. Reply = SubSeq(value, data_pos + 1, data_len)
    BY <1>1, <2>1, ReplyValue
  <2>5. Reply' = SubSeq(value, data_pos + 1 + 1, data_len)
    <3>1. CASE data_pos + 1 = data_len
      <4>1. Reply' = <<>>
        BY <2>1, <3>1, ReplyValueAfter
      <4>2. SubSeq(value, data_pos + 1 + 1, data_len) = <<>>
        BY <1>2, <2>2, <3>1
      <4>. QED BY <4>1, <4>2
    <3>2. CASE data_pos + 1 # data_len
      BY <1>1, <2>1, <3>2, ReplyValueAfter
    <3>. QED BY <3>1, <3>2
  <2>. QED BY <1>1, <2>3, <2>4, <2>5 DEF Service!Take
<1>4. CASE ReadNameByte
  <2>1. cmd = "INDEX" /\ data_pos < NameLength /\ data_pos' = data_pos + 1
        /\ status' = IF data_pos + 1 = NameLength THEN "done" ELSE status
    BY <1>4 DEF ReadNameByte
  <2>2. key \in Seq(Bytes) /\ Len(key) = NameLength
    BY Sizes, BufferIsSequence DEF TypeOK
  <2>3. SubSeq(key, data_pos + 1, NameLength) # <<>>
        /\ Tail(SubSeq(key, data_pos + 1, NameLength)) = SubSeq(key, data_pos + 1 + 1, NameLength)
    <3>1. /\ data_pos + 1 \in Nat /\ 1 <= data_pos + 1 /\ data_pos + 1 <= NameLength
          /\ NameLength \in Nat /\ NameLength <= Len(key)
      BY <1>2, <2>1, <2>2, Sizes
    <3>. QED BY <2>2, <3>1, TailOfRest
  <2>4. Reply = SubSeq(key, data_pos + 1, NameLength)
    BY <1>1, <2>1, ReplyValue
  <2>5. Reply' = SubSeq(key, data_pos + 1 + 1, NameLength)
    <3>1. CASE data_pos + 1 = NameLength
      <4>1. Reply' = <<>>
        BY <2>1, <3>1, ReplyValueAfter
      <4>2. SubSeq(key, data_pos + 1 + 1, NameLength) = <<>>
        BY <1>2, <2>2, <3>1
      <4>. QED BY <4>1, <4>2
    <3>2. CASE data_pos + 1 # NameLength
      BY <1>1, <2>1, <3>2, ReplyValueAfter
    <3>. QED BY <3>1, <3>2
  <2>. QED BY <1>1, <2>3, <2>4, <2>5 DEF Service!Take
<1>5. CASE ReadInfoByte
  <2>1. cmd = "TYPE" /\ data_pos < data_len /\ data_pos' = data_pos + 1
        /\ IF data_pos + 1 = data_len THEN status' = "done" ELSE UNCHANGED <<status, key_info>>
    BY <1>5 DEF ReadInfoByte
  <2>2. key_info \in Seq(Bytes) /\ Len(key_info) = InfoLength /\ data_len = InfoLength
    <3>1. data_len = InfoLength
      BY <1>1, <2>1 DEF Linked, ProgressInv
    <3>. QED BY <3>1, Sizes, BufferIsSequence DEF TypeOK
  <2>3. SubSeq(key_info, data_pos + 1, data_len) # <<>>
        /\ Tail(SubSeq(key_info, data_pos + 1, data_len)) = SubSeq(key_info, data_pos + 1 + 1, data_len)
    <3>1. data_pos + 1 \in Nat /\ 1 <= data_pos + 1 /\ data_pos + 1 <= data_len /\ data_len <= Len(key_info)
      BY <1>2, <2>1, <2>2
    <3>. QED BY <1>2, <2>2, <3>1, TailOfRest
  <2>4. Reply = SubSeq(key_info, data_pos + 1, data_len)
    BY <1>1, <2>1, ReplyValue
  <2>5. Reply' = SubSeq(key_info, data_pos + 1 + 1, data_len)
    <3>1. CASE data_pos + 1 = data_len
      <4>1. Reply' = <<>>
        BY <2>1, <3>1, ReplyValueAfter
      <4>2. SubSeq(key_info, data_pos + 1 + 1, data_len) = <<>>
        BY <1>2, <2>2, <3>1
      <4>. QED BY <4>1, <4>2
    <3>2. CASE data_pos + 1 # data_len
      BY <1>1, <2>1, <3>2, ReplyValueAfter
    <3>. QED BY <3>1, <3>2
  <2>. QED BY <1>1, <2>3, <2>4, <2>5 DEF Service!Take
<1>6. CASE EndWrite
  <2>1. Reply = <<>> /\ Reply' = <<>>
    BY <1>1, <1>6, ReplyValue, ReplyValueAfter DEF EndWrite
  <2>. QED BY <1>1, <2>1 DEF Service!serviceVars
<1>. QED BY <1>3, <1>4, <1>5, <1>6 DEF ReadData

(* While bytes are awaited the request is not complete, and nothing is     *)
(* offered.                                                                *)
LEMMA NotYet ==
  ASSUME TypeOK, Linked, NEW b, Sends(b), cmd \in {"READ", "WRITE", "INDEX", "TYPE"}
  PROVE  /\ ~Service!Complete(request) /\ Reply = <<>> /\ request.command = cmd
         /\ cmd # "WRITE" => status \in {"accepted", "more"}
<1>1. request.command = cmd /\ Sent \in Nat /\ Sent = Len(request.bytes)
  BY SendsRequest DEF Linked, SentInv, Sent
<1>2. status \in {"accepted", "more"} \/ (status = "data" /\ cmd = "WRITE")
  BY DEF Sends
<1>3. Reply = <<>>
  BY <1>2, ReplyValue
<1>4. ~Service!Complete(request)
  <2>1. CASE status \in {"accepted", "more"} /\ cmd \in {"READ", "WRITE"}
    <3>1. Sent <= NameLength
      BY <2>1 DEF Linked, ProgressInv
    <3>. QED BY <1>1, <2>1, <3>1, CompleteCases, Sizes
  <2>2. CASE status \in {"accepted", "more"} /\ cmd \in {"INDEX", "TYPE"}
    <3>1. Sent < NameLength
      BY <2>2 DEF Linked, ProgressInv
    <3>. QED BY <1>1, <2>2, <3>1, CompleteCases, Sizes
  <2>3. CASE status = "data" /\ cmd = "WRITE"
    <3>1. /\ data_len = request.bytes[NameLength + 1] /\ data_len \in 0..MaxLength
          /\ IF data_len = 0 THEN data_pos = 0
             ELSE data_pos = Sent - NameLength - 1 /\ data_pos < data_len
      BY <2>3 DEF Linked, ProgressInv, Announced
    <3>2. ~(Sent > NameLength + 1 /\ Sent = NameLength + 1 + data_len)
      <4>1. NameLength \in Nat /\ data_len \in Nat
        BY <3>1, Sizes
      <4>2. CASE data_len = 0
        BY <1>1, <4>1, <4>2
      <4>3. CASE data_len # 0
        BY <1>1, <3>1, <4>1, <4>3
      <4>. QED BY <4>2, <4>3
    <3>. QED BY <1>1, <2>3, <3>1, <3>2, CompleteCases
  <2>. QED BY <1>2, <2>1, <2>2, <2>3
<1>. QED BY <1>1, <1>2, <1>3, <1>4

(* A byte that does not complete the request changes nothing. *)
LEMMA SendsMore ==
  ASSUME TypeOK, Linked, NEW b, Sends(b), cmd \in {"READ", "WRITE", "INDEX", "TYPE"},
         ~Service!Complete(request'), UNCHANGED storeVars, UNCHANGED <<status_1e, seen>>, Reply' = <<>>
  PROVE  Service!Send(b)
<1>1. ~Service!Complete(request) /\ Reply = <<>>
  BY NotYet
<1>. QED BY <1>1 DEF Sends, Service!Send, storeVars

LEMMA ReadKeyByteRefined ==
  ASSUME TypeOK, Linked, PortIInv', NEW b, Sends(b), ReadKeyByte(b) PROVE Service!Send(b)
<1>1. /\ Sent \in Nat /\ Sent' = Sent + 1 /\ read_pos = Sent /\ Sent' = Len(request'.bytes)
      /\ request'.bytes[Sent + 1] = b /\ request'.command = request.command /\ b \in Bytes
      /\ request'.bytes \in Seq(Bytes)
  BY SendsRequest DEF Linked, Sent
<1>2. cmd = "READ" /\ cmd' = "READ" /\ UNCHANGED <<storeVars, value>> /\ seen = {}
  BY DEF ReadKeyByte, Sends
<1>3. request.command = "READ" /\ ~Service!Complete(request)
  BY <1>2, NotYet
<1>4. CASE NameByte(b)
  <2>1. Reply' = <<>> /\ UNCHANGED <<status_1e, seen>>
    BY <1>1, <1>4, Sizes, ReplyValueAfter DEF ReadKeyByte, NameByte
  <2>2. ~Service!Complete(request')
    BY <1>1, <1>3, <1>4, Sizes, CompleteCases DEF NameByte
  <2>. QED BY <1>2, <2>1, <2>2, SendsMore
<1>5. CASE read_pos = NameLength
  <2>1. /\ data_len' = b /\ status' = "data" /\ data_pos' = 0 /\ key' = key
        /\ IF Lookup(key) THEN seen' = {content[key]} /\ UNCHANGED status_1e
           ELSE NotFound /\ UNCHANGED seen
    BY <1>1, <1>5, Sizes DEF ReadKeyByte, NameByte
  <2>2. Service!Complete(request') /\ Service!Length(request'.bytes) = b
    BY <1>1, <1>3, <1>5, CompleteCases DEF Service!Length
  <2>3. b \in 0..MaxLength /\ b \in Nat /\ b <= BufferSize
    BY <1>2, <1>5, Sizes DEF Sends, BytesToSend
  <2>4. key \in Names /\ Service!Name(request'.bytes) = key
    <3>1. key \in Names
      BY <1>1, <1>2, <1>5, NameTypes, Sizes DEF Linked
    <3>2. \A i \in 1..NameLength : key[i] = request'.bytes[i]
      <4>1. NameLength <= Sent'
        BY <1>1, <1>5, Sizes
      <4>2. \A i \in 1..NameLength : key'[i] = request'.bytes[i]
        BY <1>1, <1>2, <4>1, Sizes DEF PortIInv, Linked, KeyInv
      <4>. QED BY <2>1, <4>2
    <3>3. key \in [1..NameLength -> Bytes]
      BY DEF TypeOK
    <3>4. request'.bytes \in Seq(Bytes) /\ Len(request'.bytes) >= NameLength
      BY <1>1, <1>5, Sizes
    <3>5. Service!Name(request'.bytes) = key
      BY <3>2, <3>3, <3>4, NameOf
    <3>. QED BY <3>1, <3>5
  <2>5. key \in Service!Registered <=> Lookup(key)
    BY DEF Service!Registered, Lookup, Present
  <2>6. Service!BeginRead(request'.bytes)
    <3>1. CASE Lookup(key)
      <4>1. Reply' = <<>>
        BY <2>1, <3>1, ReplyValueAfter
      <4>. QED BY <1>2, <2>1, <2>4, <2>5, <3>1, <4>1 DEF Service!BeginRead, storeVars
    <3>2. CASE ~Lookup(key)
      <4>1. value' \in [1..BufferSize -> Bytes]
        BY DEF PortIInv, TypeOK
      <4>2. Reply' = SubSeq(value', 1, b)
        <5>1. 0 + 1 = 1
          OBVIOUS
        <5>2. seen' = {}
          BY <1>2, <2>1, <3>2
        <5>. QED BY <1>2, <2>1, <5>1, <5>2, ReplyValueAfter
      <4>3. Reply' \in [1..b -> Bytes]
        <5>1. Reply' = [i \in 1..b |-> value'[i]]
          BY <2>3, <4>1, <4>2, Sizes
        <5>. QED BY <2>3, <4>1, <5>1, Sizes
      <4>. QED BY <1>2, <2>1, <2>2, <2>4, <2>5, <3>2, <4>3 DEF Service!BeginRead, NotFound, storeVars
    <3>. QED BY <3>1, <3>2
  <2>. QED BY <1>2, <1>3, <2>2, <2>6 DEF Sends, Service!Send
<1>. QED BY <1>4, <1>5 DEF ReadKeyByte

LEMMA WriteKeyByteRefined ==
  ASSUME TypeOK, Linked, PortIInv', NEW b, Sends(b), WriteKeyByte(b) PROVE Service!Send(b)
<1>1. /\ Sent \in Nat /\ Sent' = Sent + 1 /\ read_pos = Sent /\ Sent' = Len(request'.bytes)
      /\ request'.bytes[Sent + 1] = b /\ request'.command = request.command
      /\ request'.bytes \in Seq(Bytes)
      /\ \A i \in 1..Sent : request'.bytes[i] = request.bytes[i]
  BY SendsRequest DEF Linked, Sent
<1>2. cmd = "WRITE" /\ cmd' = "WRITE" /\ UNCHANGED <<status_1e, seen>>
  BY DEF WriteKeyByte
<1>3. request.command = "WRITE" /\ ~Service!Complete(request) /\ Reply = <<>> /\ Reply' = <<>>
  BY <1>2, NotYet, ReplyValueAfter
<1>4. Service!Complete(request') <=> /\ Sent' > NameLength + 1
                                     /\ Sent' = NameLength + 1 + request'.bytes[NameLength + 1]
  BY <1>1, <1>3, CompleteCases
<1>5. CASE read_pos <= NameLength
  <2>1. UNCHANGED storeVars
    BY <1>1, <1>5, Sizes DEF WriteKeyByte
  <2>2. ~Service!Complete(request')
    BY <1>1, <1>4, <1>5, Sizes
  <2>. QED BY <1>2, <1>3, <2>1, <2>2, SendsMore
<1>6. CASE read_pos > NameLength
  <2>1. status = "data"
    BY <1>1, <1>2, <1>6, Sizes DEF Sends, Linked, ProgressInv
  <2>2. /\ data_len = request.bytes[NameLength + 1] /\ data_len \in 0..MaxLength /\ data_len \in Nat
        /\ IF data_len = 0 THEN data_pos = 0
           ELSE data_pos = Sent - NameLength - 1 /\ data_pos < data_len
    <3>1. ProgressInv
      BY DEF Linked
    <3>. QED BY <1>2, <2>1, <3>1 DEF ProgressInv, Announced
  <2>3. request'.bytes[NameLength + 1] = data_len
    <3>1. NameLength + 1 \in 1..Sent
      BY <1>1, <1>6, Sizes
    <3>. QED BY <1>1, <2>2, <3>1
  <2>4. data_pos \in Nat /\ NameLength \in Nat
    BY Sizes DEF TypeOK, Bytes
  <2>5. CASE data_len = 0
    <3>1. UNCHANGED storeVars
      BY <1>1, <1>6, <2>2, <2>4, <2>5, Sizes DEF WriteKeyByte, NameByte
    <3>2. ~Service!Complete(request')
      BY <1>4, <2>3, <2>4, <2>5
    <3>. QED BY <1>2, <1>3, <3>1, <3>2, SendsMore
  <2>6. CASE data_len # 0 /\ data_pos + 1 # data_len
    <3>1. UNCHANGED storeVars
      BY <1>1, <1>6, <2>2, <2>4, <2>6, Sizes DEF WriteKeyByte, NameByte
    <3>2. ~Service!Complete(request')
      BY <1>1, <1>4, <2>2, <2>3, <2>4, <2>6
    <3>. QED BY <1>2, <1>3, <3>1, <3>2, SendsMore
  <2>7. CASE data_len # 0 /\ data_pos + 1 = data_len
    <3>. DEFINE stored == [value EXCEPT ![data_pos + 1] = b]
                data == SubSeq(stored, 1, data_len)
    <3>1. SetKey(key, data, DefaultType[data_len]) /\ key' = key
      BY <1>1, <1>6, <2>2, <2>4, <2>7, Sizes DEF WriteKeyByte, NameByte
    <3>2. data = SubSeq(request'.bytes, NameLength + 2, Len(request'.bytes))
      BY <1>1, <1>2, <2>1, <2>7, StoredData DEF Linked
    <3>3. DefaultType[data_len] \in Types
      <4>1. data_len \in 1..BufferSize
        BY <2>2, <2>7, Sizes
      <4>. QED BY <4>1, PortAssumption
    <3>4. Service!Name(request'.bytes) = key
      <4>1. key \in [1..NameLength -> Bytes]
        BY DEF TypeOK
      <4>2. NameLength <= Sent'
        BY <1>1, <1>6, <2>4
      <4>3. \A i \in 1..NameLength : key'[i] = request'.bytes[i]
        BY <1>1, <1>2, <4>2, Sizes DEF PortIInv, Linked, KeyInv
      <4>. QED BY <1>1, <3>1, <4>1, <4>2, <4>3, NameOf
    <3>5. Service!Complete(request')
      <4>1. Sent \in Nat /\ Sent' = Sent + 1
        BY <1>1
      <4>2. data_pos = Sent - NameLength - 1 /\ data_pos + 1 = data_len /\ data_len \in Nat /\ data_len # 0
        BY <2>2, <2>7
      <4>3. Sent' = NameLength + 1 + data_len
        BY <2>4, <4>1, <4>2
      <4>4. Sent' > NameLength + 1
        BY <2>4, <4>2, <4>3
      <4>. QED BY <1>4, <2>3, <4>3, <4>4
    <3>. HIDE DEF data
    <3>6. Service!SetKey(key, data)
      BY <3>1, <3>3, SetKeyRefined
    <3>7. Service!StoreKey(request'.bytes)
      BY <1>2, <1>3, <3>2, <3>4, <3>6 DEF Service!StoreKey
    <3>. QED BY <1>3, <3>5, <3>7 DEF Sends, Service!Send
  <2>. QED BY <2>5, <2>6, <2>7
<1>. QED BY <1>1, <1>5, <1>6, Sizes

LEMMA IndexByteRefined ==
  ASSUME TypeOK, Linked, PortIInv', NEW b, Sends(b), IndexByte(b) PROVE Service!Send(b)
<1>1. /\ Sent \in Nat /\ Sent' = Sent + 1 /\ read_pos = Sent /\ Sent' = Len(request'.bytes)
      /\ request'.command = request.command
  BY SendsRequest DEF Linked, Sent
<1>2. cmd = "INDEX" /\ cmd' = "INDEX" /\ UNCHANGED storeVars /\ UNCHANGED <<data_pos, seen>> /\ seen = {}
  BY DEF IndexByte, Sends
<1>3. request.command = "INDEX" /\ ~Service!Complete(request) /\ Reply = <<>> /\ status \in {"accepted", "more"}
  BY <1>2, NotYet
<1>4. Service!Complete(request') <=> Sent' = NameLength
  BY <1>1, <1>3, CompleteCases
<1>5. CASE read_pos + 1 < NameLength
  <2>1. Reply' = <<>> /\ UNCHANGED status_1e
    BY <1>1, <1>5, Sizes, ReplyValueAfter DEF IndexByte
  <2>. QED BY <1>1, <1>2, <1>4, <1>5, <2>1, Sizes, SendsMore
<1>6. CASE read_pos + 1 = NameLength
  <2>1. key_index' = request'.number /\ key_index' \in Nat
    <3>1. key_index' = request'.number * ByteRange^(NameLength - Sent') /\ key_index' \in Nat
      BY DigitAdded DEF Linked
    <3>2. NameLength - Sent' = 0
      BY <1>1, <1>6, Sizes
    <3>3. request'.number \in Nat
      BY SendsRequest DEF Linked
    <3>. QED BY <3>1, <3>2, <3>3, PowerAssumption
  <2>2. CASE key_index' < Len(table)
    <3>1. status' = "data" /\ key' = table[key_index' + 1] /\ UNCHANGED status_1e
      BY <1>6, <2>1, <2>2, Sizes DEF IndexByte, TypeOK
    <3>2. data_pos' = 0
      BY <1>2, <1>3 DEF Linked, IndexInv
    <3>3. Reply' = SubSeq(key', 1, NameLength)
      <4>1. 0 + 1 = 1
        OBVIOUS
      <4>. QED BY <1>2, <3>1, <3>2, <4>1, ReplyValueAfter
    <3>4. key' \in [1..NameLength -> Bytes]
      BY DEF PortIInv, TypeOK
    <3>5. Reply' = key'
      BY <3>3, <3>4, Sizes, BufferIsSequence
    <3>6. Service!AnswerIndex(request'.number)
      BY <1>2, <2>1, <2>2, <3>1, <3>5 DEF Service!AnswerIndex, storeVars
    <3>. QED BY <1>1, <1>3, <1>4, <1>6, <3>6 DEF Sends, Service!Send
  <2>3. CASE ~(key_index' < Len(table))
    <3>1. status' = "done" /\ status_1e' = 1
      BY <1>6, <2>1, <2>3, Sizes DEF IndexByte, TypeOK, NotFound
    <3>2. Reply' = <<>>
      BY <3>1, ReplyValueAfter
    <3>3. Service!AnswerIndex(request'.number)
      BY <1>2, <2>1, <2>3, <3>1, <3>2 DEF Service!AnswerIndex, storeVars
    <3>. QED BY <1>1, <1>3, <1>4, <1>6, <3>3 DEF Sends, Service!Send
  <2>. QED BY <2>2, <2>3
<1>. QED BY <1>5, <1>6 DEF IndexByte

LEMMA TypeByteRefined ==
  ASSUME TypeOK, Linked, PortIInv', NEW b, Sends(b), TypeByte(b) PROVE Service!Send(b)
<1>1. /\ Sent \in Nat /\ Sent' = Sent + 1 /\ read_pos = Sent /\ Sent' = Len(request'.bytes)
      /\ request'.command = request.command /\ request'.bytes \in Seq(Bytes)
  BY SendsRequest DEF Linked, Sent
<1>2. cmd = "TYPE" /\ cmd' = "TYPE" /\ UNCHANGED <<storeVars, seen>> /\ seen = {}
  BY DEF TypeByte, Sends
<1>3. request.command = "TYPE" /\ ~Service!Complete(request) /\ Reply = <<>>
  BY <1>2, NotYet
<1>4. Service!Complete(request') <=> Sent' = NameLength
  BY <1>1, <1>3, CompleteCases
<1>5. CASE read_pos + 1 < NameLength
  <2>1. Reply' = <<>> /\ UNCHANGED status_1e
    BY <1>1, <1>5, Sizes, ReplyValueAfter DEF TypeByte
  <2>. QED BY <1>1, <1>2, <1>4, <1>5, <2>1, Sizes, SendsMore
<1>6. CASE read_pos + 1 = NameLength
  <2>1. /\ status' = "data" /\ data_len' = InfoLength /\ data_pos' = 0
        /\ IF Lookup(key')
           THEN key_info' = <<Len(content[key'])>> \o type[key'] \o <<0>> /\ UNCHANGED status_1e
           ELSE NotFound
    BY <1>1, <1>6, Sizes DEF TypeByte
  <2>2. key' \in [1..NameLength -> Bytes] /\ key_info' \in [1..InfoLength -> Bytes]
    BY DEF PortIInv, TypeOK
  <2>3. /\ \A i \in 1..NameLength : request'.bytes[i] \in NameBytes /\ key'[i] = request'.bytes[i]
        /\ Len(request'.bytes) = NameLength
    <3>1. NameLength <= Sent'
      BY <1>1, <1>6, Sizes
    <3>. QED BY <1>1, <1>2, <1>6, <3>1, Sizes DEF PortIInv, Linked, KeyInv
  <2>4. request'.bytes = key' /\ key' \in Names
    <3>1. request'.bytes \in [1..NameLength -> Bytes]
      BY <1>1, <2>3, SequenceIsFunction
    <3>2. \A i \in 1..NameLength : key'[i] \in NameBytes
      BY <2>3
    <3>. QED BY <2>2, <2>3, <3>1, <3>2 DEF Names
  <2>5. Reply' = key_info'
    <3>1. Reply' = SubSeq(key_info', 1, InfoLength)
      <4>1. 0 + 1 = 1
        OBVIOUS
      <4>. QED BY <1>2, <2>1, <4>1, ReplyValueAfter
    <3>. QED BY <2>2, <3>1, Sizes, BufferIsSequence
  <2>6. UNCHANGED <<table, content, type, seen>>
    BY <1>2 DEF storeVars
  <2>7. Service!AnswerType(request'.bytes)
    <3>1. request'.bytes \in Service!Registered <=> Lookup(key')
      BY <2>4 DEF Service!Registered, Lookup, Present
    <3>2. CASE Lookup(key')
      BY <2>1, <2>4, <2>5, <2>6, <3>1, <3>2 DEF Service!AnswerType, Service!Info
    <3>3. CASE ~Lookup(key')
      <4>1. Len(Reply') = InfoLength
        BY <2>2, <2>5, Sizes, BufferIsSequence
      <4>2. Len(Service!Info(key')) = InfoLength
        <5>1. Service!Info(key') \in [1..InfoLength -> Bytes]
          BY <2>4, InfoTypes DEF Service!Info
        <5>. QED BY <5>1, Sizes, BufferIsSequence
      <4>3. status_1e' = 1
        BY <2>1, <3>3 DEF NotFound
      <4>. QED BY <2>4, <2>6, <3>1, <3>3, <4>1, <4>2, <4>3 DEF Service!AnswerType
    <3>. QED BY <3>2, <3>3
  <2>. QED BY <1>1, <1>3, <1>4, <1>6, <2>7 DEF Sends, Service!Send
<1>7. read_pos < NameLength
  BY DEF TypeByte, NameByte
<1>. QED BY <1>1, <1>5, <1>6, <1>7, Sizes

LEMMA WriteDataRefined ==
  ASSUME TypeOK, Linked, PortIInv', WriteData PROVE \E b \in Bytes : Service!Send(b)
<1>1. PICK b \in BytesToSend :
        Sends(b) /\ (ReadKeyByte(b) \/ WriteKeyByte(b) \/ IndexByte(b) \/ TypeByte(b))
  BY SendsByte
<1>2. b \in Bytes
  BY SendsBytes
<1>3. Service!Send(b)
  BY <1>1, ReadKeyByteRefined, WriteKeyByteRefined, IndexByteRefined, TypeByteRefined
<1>. QED BY <1>2, <1>3

LEMMA StepRefined == PortIInv /\ PortIInv' /\ [Next]_vars => [Service!ServiceNext]_(Service!serviceVars)
<1>. SUFFICES ASSUME TypeOK, Linked, PortIInv', [Next]_vars
              PROVE  [Service!ServiceNext]_(Service!serviceVars)
  BY DEF PortIInv
<1>1. ASSUME NEW c \in Commands, WriteCommand(c) PROVE Service!ServiceNext
  BY <1>1, WriteCommandRefined DEF Service!ServiceNext, Commands, Service!Commands
<1>2. CASE WriteData
  BY <1>2, WriteDataRefined DEF Service!ServiceNext
<1>3. CASE ReadData
  BY <1>3, ReadDataRefined DEF Service!ServiceNext
<1>4. CASE ReadErrorPort
  BY <1>4, ReadErrorPortRefined DEF Service!ServiceNext
<1>5. CASE StoreChanges
  BY <1>5, StoreChangesRefined DEF Service!ServiceNext
<1>7. CASE FillData
  BY <1>7, FillDataRefined DEF Service!ServiceNext
<1>6. CASE UNCHANGED vars
  BY <1>6 DEF vars, storeVars, registers, Service!serviceVars, Reply
<1>. QED BY <1>1, <1>2, <1>3, <1>4, <1>5, <1>6, <1>7 DEF Next

(* ImplementsSMCService: to the driver every command takes effect with the *)
(* bytes sent since it came, INDEX, TYPE and WRITE in one step, and a READ *)
(* returns the value the key has or, if others store values of the same    *)
(* size while it is copied without the lock, bytes of those values; for    *)
(* names, values and buffers of any length and any number of keys.         *)
THEOREM PortRefinement == Spec => ImplementsSMCService
<1>1. Spec => []PortIInv
  BY IInvHolds
<1>. QED BY <1>1, InitRefined, StepRefined, PTL DEF Spec, ImplementsSMCService, Service!ServiceSpec
================================================================================
