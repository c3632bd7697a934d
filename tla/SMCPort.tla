-------------------------------- MODULE SMCPort --------------------------------
(***************************************************************************)
(* The emulated I/O ports of FakeSMCDevice: the registers of               *)
(* AppleSMCStatus, driven byte by byte by the AppleSMC driver while        *)
(* plug-ins and other clients change the key store.  The driver (it is not *)
(* part of the repository) sends argument bytes while the status asks for  *)
(* them and takes bytes while the status offers them; it may give a        *)
(* command up at any moment by sending the next one.                       *)
(***************************************************************************)
EXTENDS Integers, Sequences, FiniteSets

CONSTANTS ByteRange,    \* 256
          NameLength,   \* 4: a key name; also the digits of an index
          MaxLength,    \* 32: the longest value the driver transfers
          BufferSize,   \* 255: the bytes of AppleSMCStatus.value
          TypeLength,   \* 4: the bytes of a type name
          NameBytes,    \* bound: the bytes the driver sends for a name
          DataBytes,    \* bound: the bytes values consist of
          Types,        \* the type names
          DefaultType,  \* the type FakeSMCKey::init gives to a size
          Preloaded,    \* the keys there are at first
          MaxKeys,      \* bound: the keys there are in the end
          MaxHeld       \* bound: the values a key holds while a READ of it is answered

Bytes == 0..(ByteRange - 1)

Names == [1..NameLength -> NameBytes]

Values == UNION {[1..len -> DataBytes] : len \in 1..MaxLength}

Present(s) == {s[i] : i \in 1..Len(s)}

ASSUME PortAssumption ==
  /\ ByteRange \in Nat /\ NameLength \in Nat \ {0} /\ TypeLength \in Nat /\ MaxKeys \in Nat /\ MaxHeld \in Nat
  /\ MaxLength \in 1..BufferSize /\ BufferSize \in Bytes
  /\ NameLength + MaxLength < ByteRange /\ TypeLength + 2 < ByteRange
  /\ NameBytes \subseteq Bytes /\ DataBytes \subseteq Bytes /\ 0 \in DataBytes
  /\ Types \subseteq [1..TypeLength -> Bytes]
  /\ DefaultType \in [1..BufferSize -> Types]
  /\ Preloaded \in Seq(Names) /\ Len(Preloaded) <= MaxKeys
  /\ \A i, j \in 1..Len(Preloaded) : Preloaded[i] = Preloaded[j] => i = j

(* What is used of powers: those of the digits of an index. *)
ASSUME PowerAssumption ==
  /\ ByteRange^0 = 1
  /\ \A n \in 0..NameLength : ByteRange^n \in Nat \ {0} /\ ByteRange^(n + 1) = ByteRange * ByteRange^n

VARIABLES
  table,      \* the names of the keys in array order
  content,    \* FakeSMCKey::value and size of each name
  type,       \* FakeSMCKey::type
  cmd, status, key, read_pos, data_len, data_pos, value, status_1e, key_index, key_info,
              \* struct AppleSMCStatus
  seen,       \* what the key of a READ has held since it was looked up; {} when
              \* no READ is being answered
  request,    \* history: the command, the bytes the driver has sent since, and
              \* the number they form
  abandoned   \* history: the driver has given up a command

storeVars == <<table, content, type>>
registers == <<cmd, status, key, read_pos, data_len, data_pos, value, status_1e, key_index, key_info>>
vars == <<storeVars, registers, seen, request, abandoned>>

InfoLength == TypeLength + 2

(* The values of status: a command has come (0x0c), an argument byte has   *)
(* come (0x04), data is to be transferred (0x05), nothing is (0x00).       *)
Statuses == {"accepted", "more", "data", "done"}

Commands == {"READ", "WRITE", "INDEX", "TYPE", "OTHER"}

Zero(n) == [i \in 1..n |-> 0]
--------------------------------------------------------------------------------
Init ==
  /\ table = Preloaded
  /\ content = [n \in Names |-> <<0>>]
  /\ type = [n \in Names |-> DefaultType[1]]
  /\ cmd = "OTHER"
  /\ status = "done"
  /\ key = Zero(NameLength)
  /\ read_pos = 0
  /\ data_len = 0
  /\ data_pos = 0
  /\ value = Zero(BufferSize)
  /\ status_1e = 0
  /\ key_index = 0
  /\ key_info = Zero(InfoLength)
  /\ seen = {}
  /\ request = [command |-> "OTHER", bytes |-> <<>>, number |-> 0]
  /\ abandoned = FALSE

(* addKeyWithValue: a new value for a key, or a new key.  Plug-ins name    *)
(* the type; for the port FakeSMCKey::init derives it from the size.       *)
SetKey(n, v, t) ==
  /\ content' = [content EXCEPT ![n] = v]
  /\ IF n \in Present(table)
     THEN UNCHANGED <<table, type>>
     ELSE /\ Len(table) < MaxKeys
          /\ table' = Append(table, n)
          /\ type' = [type EXCEPT ![n] = t]

(* A plug-in registers a key or sets a value, a handler delivers a new     *)
(* one, or user space writes: SMCKeyStore has the steps.  It may happen    *)
(* while a READ of the same key is being answered.                         *)
StoreChanges ==
  /\ \E n \in Names, v \in Values, t \in Types :
       /\ SetKey(n, v, t)
       /\ seen' = IF seen # {} /\ n = key THEN seen \cup {v} ELSE seen
  /\ Cardinality(seen') <= MaxHeld
  /\ UNCHANGED <<registers, request, abandoned>>
--------------------------------------------------------------------------------
(* Mutant: data_pos is not reset. *)
KeepDataPos(c) ==
  /\ cmd' = c
  /\ status' = IF c = "OTHER" THEN status ELSE "accepted"
  /\ read_pos' = 0
  /\ key_index' = 0
  /\ UNCHANGED <<key, data_len, data_pos, value, status_1e, key_info>>

(* applesmc_io_cmd_writeb.  An unknown command leaves status alone. *)
Accept(c) ==
  /\ cmd' = c
  /\ status' = IF c = "OTHER" THEN status ELSE "accepted"
  /\ read_pos' = 0
  /\ data_pos' = 0
  /\ key_index' = 0
  /\ UNCHANGED <<key, data_len, value, status_1e, key_info>>

WriteCommand(c) ==
  /\ seen = {}
  /\ Accept(c)
  /\ request' = [command |-> c, bytes |-> <<>>, number |-> 0]
  /\ abandoned' = (abandoned \/ status # "done")
  /\ UNCHANGED <<storeVars, seen>>
--------------------------------------------------------------------------------
NotFound == status_1e' = 1

Lookup(n) == n \in Present(table)

(* read_pos is one byte. *)
Advance == read_pos' = (read_pos + 1) % ByteRange

(* A byte of the key name; the command says what the last one brings.      *)
NameByte(b) ==
  /\ read_pos < NameLength
  /\ key' = [key EXCEPT ![read_pos + 1] = b]

ReadKeyByte(b) ==
  /\ cmd = "READ"
  /\ \/ /\ NameByte(b)
        /\ status' = "more"
        /\ UNCHANGED <<data_len, data_pos, status_1e, seen>>
     \/ /\ read_pos = NameLength
        /\ data_len' = b
        /\ status' = "data"
        /\ data_pos' = 0
        /\ IF Lookup(key)
           THEN seen' = {content[key]} /\ UNCHANGED status_1e
           ELSE NotFound /\ UNCHANGED seen
        /\ UNCHANGED key
  /\ Advance
  /\ UNCHANGED <<storeVars, cmd, value, key_index, key_info>>

SameSize(values) == \A v, w \in values : Len(v) = Len(w)

(* applesmc_fill_data once it has the key: the lock is free again, and the *)
(* value, whatever length was asked for, is copied while others store new  *)
(* ones into the same bytes or, if the size changes, free them.  The       *)
(* driver waits in its write of the length.                                *)
FillData ==
  /\ seen # {}
  /\ seen' = {}
  /\ \E v \in seen : \E copy \in [1..Len(v) -> Bytes] :
       /\ SameSize(seen) => \A i \in 1..Len(v) : copy[i] \in {w[i] : w \in seen}
       /\ value' = [i \in 1..BufferSize |-> IF i <= Len(v) THEN copy[i] ELSE value[i]]
  /\ UNCHANGED <<storeVars, request, abandoned>>
  /\ UNCHANGED <<cmd, status, key, read_pos, data_len, data_pos, status_1e, key_index, key_info>>

(* bzero(s->value, 255) behind a complete transfer.  Mutant: only the      *)
(* bytes that were transferred.                                            *)
ClearTransferred(v) == [i \in 1..BufferSize |-> IF i <= data_len THEN 0 ELSE v[i]]

Cleared(v) == Zero(BufferSize)

WriteKeyByte(b) ==
  /\ cmd = "WRITE"
  /\ \/ /\ NameByte(b)
        /\ status' = "more"
        /\ UNCHANGED <<storeVars, data_len, data_pos, value>>
     \/ /\ read_pos = NameLength
        /\ status' = "data"
        /\ data_pos' = 0
        /\ data_len' = b
        /\ UNCHANGED <<storeVars, key, value>>
     \/ /\ read_pos > NameLength /\ data_pos < data_len
        /\ data_pos' = data_pos + 1
        /\ LET stored == [value EXCEPT ![data_pos + 1] = b]
           IN IF data_pos + 1 = data_len
              THEN /\ status' = "done"
                   /\ SetKey(key, SubSeq(stored, 1, data_len), DefaultType[data_len])
                   /\ value' = Cleared(stored)
              ELSE status' = "data" /\ value' = stored /\ UNCHANGED storeVars
        /\ UNCHANGED <<key, data_len>>
     \/ /\ read_pos > NameLength /\ data_pos >= data_len
        /\ UNCHANGED <<storeVars, status, key, data_len, data_pos, value>>
  /\ Advance
  /\ UNCHANGED <<cmd, status_1e, key_index, key_info, seen>>

(* The index comes with its most significant byte first.  Mutant: last. *)
LittleEndian(pos) == ByteRange^pos

Weight(pos) == ByteRange^(NameLength - 1 - pos)

(* applesmc_get_key_by_index at the last digit. *)
IndexByte(b) ==
  LET index == key_index + b * Weight(read_pos)
  IN /\ cmd = "INDEX"
     /\ read_pos < NameLength
     /\ key_index' = index
     /\ read_pos' = read_pos + 1
     /\ \/ /\ read_pos + 1 < NameLength
           /\ status' = "more"
           /\ UNCHANGED <<key, status_1e>>
        \/ /\ read_pos + 1 = NameLength /\ index < Len(table)
           /\ status' = "data"
           /\ key' = table[index + 1]
           /\ UNCHANGED status_1e
        \/ /\ read_pos + 1 = NameLength /\ index >= Len(table)
           /\ status' = "done"
           /\ NotFound
           /\ UNCHANGED key
     /\ UNCHANGED <<storeVars, cmd, data_len, data_pos, value, key_info, seen>>

(* applesmc_fill_info at the last byte of the name.  The size is read      *)
(* behind the lookup, in one byte: keys are never removed, and the type    *)
(* never changes.                                                          *)
TypeByte(b) ==
  /\ cmd = "TYPE"
  /\ NameByte(b)
  /\ Advance
  /\ \/ /\ read_pos + 1 < NameLength
        /\ status' = "more"
        /\ UNCHANGED <<data_len, data_pos, status_1e, key_info>>
     \/ /\ read_pos + 1 = NameLength
        /\ status' = "data"
        /\ data_len' = InfoLength
        /\ data_pos' = 0
        /\ IF Lookup(key')
           THEN key_info' = <<Len(content[key'])>> \o type[key'] \o <<0>> /\ UNCHANGED status_1e
           ELSE NotFound /\ UNCHANGED key_info
  /\ UNCHANGED <<storeVars, cmd, value, key_index, seen>>

(* The bytes the driver may send where it is: names, lengths, data. *)
BytesToSend ==
  CASE cmd \in {"READ", "WRITE"} /\ read_pos = NameLength -> 0..MaxLength
    [] cmd = "WRITE" /\ read_pos > NameLength -> DataBytes
    [] OTHER -> NameBytes

(* applesmc_io_data_writeb; the driver sends at most MaxLength bytes of    *)
(* data, also if it has announced none.                                    *)
WriteData ==
  /\ seen = {}
  /\ status \in {"accepted", "more"} \/ (status = "data" /\ cmd = "WRITE")
  /\ Len(request.bytes) < NameLength + 1 + MaxLength
  /\ \E b \in BytesToSend :
       /\ ReadKeyByte(b) \/ WriteKeyByte(b) \/ IndexByte(b) \/ TypeByte(b)
       /\ request' = [request EXCEPT !.bytes = Append(@, b), !.number = ByteRange * @ + b]
  /\ UNCHANGED abandoned
--------------------------------------------------------------------------------
(* applesmc_io_data_readb, while the status offers data.  In the middle of *)
(* a WRITE this ends the command.                                          *)
ReadValueByte ==
  /\ cmd = "READ"
  /\ data_pos < data_len
  /\ data_pos' = data_pos + 1
  /\ IF data_pos + 1 = data_len
     THEN status' = "done" /\ value' = Cleared(value)
     ELSE UNCHANGED <<status, value>>
  /\ UNCHANGED <<key_info, abandoned>>

ReadNameByte ==
  /\ cmd = "INDEX"
  /\ data_pos < NameLength
  /\ data_pos' = data_pos + 1
  /\ status' = IF data_pos + 1 = NameLength THEN "done" ELSE status
  /\ UNCHANGED <<value, key_info, abandoned>>

ReadInfoByte ==
  /\ cmd = "TYPE"
  /\ data_pos < data_len
  /\ data_pos' = data_pos + 1
  /\ IF data_pos + 1 = data_len
     THEN status' = "done" /\ key_info' = Zero(InfoLength)
     ELSE UNCHANGED <<status, key_info>>
  /\ UNCHANGED <<value, abandoned>>

EndWrite ==
  /\ cmd = "WRITE"
  /\ status' = "done"
  /\ abandoned' = TRUE
  /\ UNCHANGED <<data_pos, value, key_info>>

ReadData ==
  /\ seen = {}
  /\ status = "data"
  /\ ReadValueByte \/ ReadNameByte \/ ReadInfoByte \/ EndWrite
  /\ UNCHANGED <<storeVars, cmd, key, read_pos, data_len, status_1e, key_index, seen, request>>

(* ioRead8 of the error port: the error is forgotten. *)
ReadErrorPort ==
  /\ seen = {}
  /\ status_1e # 0
  /\ status_1e' = 0
  /\ UNCHANGED <<storeVars, cmd, status, key, read_pos, data_len, data_pos, value, key_index, key_info>>
  /\ UNCHANGED <<seen, request, abandoned>>
--------------------------------------------------------------------------------
Next ==
  \/ \E c \in Commands : WriteCommand(c)
  \/ WriteData \/ FillData \/ ReadData \/ ReadErrorPort \/ StoreChanges

Spec == Init /\ [][Next]_vars
--------------------------------------------------------------------------------
TypeOK ==
  /\ table \in Seq(Names)
  /\ content \in [Names -> Values]
  /\ type \in [Names -> Types]
  /\ cmd \in Commands /\ status \in Statuses
  /\ key \in [1..NameLength -> Bytes]
  /\ read_pos \in Bytes
  /\ data_len \in Bytes /\ data_pos \in Bytes
  /\ value \in [1..BufferSize -> Bytes]
  /\ status_1e \in {0, 1}
  /\ key_index \in 0..(ByteRange^NameLength - 1)
  /\ key_info \in [1..InfoLength -> Bytes]
  /\ seen \subseteq Values

(* As long as the driver carries its commands to their end, the buffer is  *)
(* empty when a command starts: what a READ returns beyond the end of a    *)
(* key, or for a key that is not there, are zeros.                         *)
CleanBuffer == ~abandoned /\ status = "done" => value = Zero(BufferSize)

(* The positions stay inside the buffers, and the buffer is clean. *)
PortInv == TypeOK /\ CleanBuffer

(* The bytes the driver is still going to take. *)
Reply ==
  IF seen # {} THEN <<>> ELSE
  CASE status = "data" /\ cmd = "READ"  -> SubSeq(value, data_pos + 1, data_len)
    [] status = "data" /\ cmd = "INDEX" -> SubSeq(key, data_pos + 1, NameLength)
    [] status = "data" /\ cmd = "TYPE"  -> SubSeq(key_info, data_pos + 1, data_len)
    [] OTHER -> <<>>

Service == INSTANCE SMCService
             WITH Base <- ByteRange, pending <- seen, reply <- Reply, error <- (status_1e # 0)

(* To the driver every command takes effect with the bytes it has sent     *)
(* since that command and no others, whatever it gave up before: INDEX,    *)
(* TYPE and WRITE in one step.  A READ (applesmc_fill_data copies without  *)
(* the lock) returns the value the key has, if nobody stores one while it  *)
(* is answered; a mixture of the values stored meanwhile if they are of    *)
(* one size; and otherwise any bytes.                                      *)
ImplementsSMCService == Service!ServiceSpec
================================================================================
