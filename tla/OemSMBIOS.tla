------------------------------- MODULE OemSMBIOS -------------------------------
(***************************************************************************)
(* OemSMBIOS decodes the table in which the BIOS describes the machine and *)
(* puts the names it finds at the root of the registry; then it registers  *)
(* itself.  A Super I/O monitor, which starts at any time, needs the names *)
(* of the mainboard to choose its configuration: if none is there it waits *)
(* for OemSMBIOS, ten seconds at most.                                     *)
(*                                                                         *)
(* Each structure of the table has a header of four bytes (type, length,   *)
(* handle), numbers of strings, and then these strings; 0 ends a string    *)
(* and another 0 the structure.  The strings of one structure are taken at *)
(* once; oem-serial-number, the serial number in another format, is left   *)
(* out.                                                                    *)
(***************************************************************************)
EXTENDS Integers, Sequences, FiniteSets, SequencesExt

CONSTANTS Tables,    \* what BIOSes write: sequences of structures
          Padding    \* how many zeros may follow

Space == 32

Header == 4

(* Printable characters; what is in the header, the numbers of strings, and *)
(* the strings.                                                            *)
Chars == 32..126

SMBStructures ==
  [type : 0..255, handle : Seq(0..255), refs : Seq(Nat), strings : Seq(Seq(Chars))]

ASSUME TablesAssumption ==
  /\ Padding \subseteq Nat
  /\ Tables \subseteq Seq(SMBStructures)
  /\ \A table \in Tables : \A i \in 1..Len(table) :
       LET s == table[i]
       IN /\ Len(s.handle) = 2 /\ Header + Len(s.refs) < 256
          /\ \A j \in 1..Len(s.refs) : s.refs[j] \in 0..Len(s.strings)
          /\ \A j \in 1..Len(s.strings) : s.strings[j] # <<>>

VARIABLES
  structures, padding,   \* what the BIOS has written
  structureCount, nextByte,
  root,                  \* the properties of the root, <<>>: not there
  serialKnown,           \* the platform driver has set the serial number
  registered,            \* OemSMBIOS is
  monitor,               \* SuperIOMonitor: where it is, vendor and product
  missed                 \* history: it did not meet OemSMBIOS registered

smbiosVars == <<structures, padding, structureCount, nextByte, root, serialKnown, registered,
                monitor, missed>>

Properties == {"oem-manufacturer", "oem-product-name", "oem-version", "serial-number",
               "oem-mb-manufacturer", "oem-mb-product"}

(* Type 1 is the system, type 2 the mainboard. *)
PropertiesOf(type) ==
  CASE type = 1 -> <<"oem-manufacturer", "oem-product-name", "oem-version", "serial-number">>
    [] type = 2 -> <<"oem-mb-manufacturer", "oem-mb-product">>
    [] OTHER    -> <<>>
--------------------------------------------------------------------------------
Bytes(s) ==
  <<s.type, Header + Len(s.refs)>> \o s.handle \o s.refs
  \o FlattenSeq([i \in 1..Len(s.strings) |-> Append(s.strings[i], 0)])
  \o (IF s.strings = <<>> THEN <<0, 0>> ELSE <<0>>)

(* The bytes are counted from 0. *)
Table ==
  LET bytes == FlattenSeq([i \in 1..Len(structures) |-> Bytes(structures[i])])
               \o [i \in 1..padding |-> 0]
  IN [p \in 0..Len(bytes) - 1 |-> bytes[p + 1]]

TableEnd(table) == Cardinality(DOMAIN table)

SMBIOSInit ==
  /\ structures \in Tables /\ padding \in Padding
  /\ structureCount = Len(structures) /\ nextByte = 0
  /\ root = [n \in Properties |-> <<>>]
  /\ serialKnown \in BOOLEAN
  /\ registered = FALSE
  /\ monitor = [step |-> "start", vendor |-> <<>>, product |-> <<>>] /\ missed = FALSE

(* The number of characters is a UInt8. *)
Counted(length) == length % 256

(* SMBPackedStrings::stringAtIndex, as setStringProperty uses it: the      *)
(* string up to the index-th zero, without leading spaces.  One for which  *)
(* no characters are counted is not set, neither a blank one nor one of    *)
(* 256 characters; the others are set up to their zero.  The limit is the  *)
(* end of the table, so that a number beyond the strings would reach into  *)
(* the next structure; what BIOSes write has none (TablesAssumption).      *)
StringAtIndex(table, start, index) ==
  LET zeros == {p \in start .. TableEnd(table) - 1 : table[p] = 0}
      Zero(n) == CHOOSE p \in zeros : Cardinality({q \in zeros : q < p}) = n - 1
      first == IF index = 1 THEN start ELSE Zero(index - 1) + 1
      chars == {p \in first .. Zero(index) - 1 : table[p] # Space}
      begin == CHOOSE p \in chars : \A q \in chars : p <= q
  IN IF index = 0 \/ Cardinality(zeros) < index \/ chars = {} THEN <<>>
     ELSE IF Counted(Zero(index) - begin) = 0 THEN <<>>
     ELSE [i \in 1 .. Zero(index) - begin |-> table[begin + i - 1]]

(* processSMBIOSStructureType1 and 2.  A serial number stays. *)
Processed(table, at) ==
  LET names == IF table[at + 1] < 8 THEN <<>> ELSE PropertiesOf(table[at])
      Value(i) == StringAtIndex(table, at + table[at + 1], table[at + Header + i - 1])
      Sets(i, n) == names[i] = n /\ Value(i) # <<>>
                    /\ (n = "serial-number" => ~serialKnown /\ root[n] = <<>>)
  IN [n \in Properties |->
       IF \E i \in 1..Len(names) : Sets(i, n)
       THEN Value(CHOOSE i \in 1..Len(names) : Sets(i, n)) ELSE root[n]]

(* Mutant of AfterStrings: the second zero is not skipped. *)
AtLastZero(table, at) ==
  LET ends == {p \in at .. TableEnd(table) - Header - 1 : table[p] = 0 /\ table[p + 1] = 0}
  IN IF ends = {} THEN TableEnd(table) ELSE 1 + CHOOSE p \in ends : \A q \in ends : p <= q

(* Behind the double zero; nothing follows when it is at the very end. *)
AfterStrings(table, at) ==
  LET ends == {p \in at .. TableEnd(table) - Header - 1 : table[p] = 0 /\ table[p + 1] = 0}
  IN IF ends = {} THEN TableEnd(table) ELSE 2 + CHOOSE p \in ends : \A q \in ends : p <= q

(* A header and the bytes it announces must be in the table. *)
MoreStructures(table) ==
  /\ structureCount > 0 /\ TableEnd(table) > nextByte + Header
  /\ table[nextByte + 1] <= TableEnd(table) - nextByte

DecodeStructure ==
  /\ ~registered
  /\ MoreStructures(Table)
  /\ root' = Processed(Table, nextByte)
  /\ nextByte' = AfterStrings(Table, nextByte + Table[nextByte + 1])
  /\ structureCount' = structureCount - 1
  /\ UNCHANGED <<structures, padding, serialKnown, registered, monitor, missed>>

(* start fails when no table has been found. *)
RegisterSMBIOS ==
  /\ ~registered /\ structures # <<>>
  /\ ~MoreStructures(Table)
  /\ registered' = TRUE
  /\ UNCHANGED <<structures, padding, structureCount, nextByte, root, serialKnown, monitor, missed>>
--------------------------------------------------------------------------------
(* SuperIOMonitor::start.  One name is enough for not waiting; the wait    *)
(* ends with OemSMBIOS or after ten seconds.                               *)
NothingSet ==
  \A n \in {"oem-product-name", "oem-manufacturer", "oem-mb-product", "oem-mb-manufacturer"} :
    root[n] = <<>>

MonitorStarts ==
  /\ monitor.step = "start"
  /\ monitor' = [monitor EXCEPT !.step = IF NothingSet THEN "wait" ELSE "vendor"]
  /\ missed' = (~NothingSet /\ ~registered)
  /\ UNCHANGED <<structures, padding, structureCount, nextByte, root, serialKnown, registered>>

WaitForSMBIOS ==
  /\ monitor.step = "wait"
  /\ monitor' = [monitor EXCEPT !.step = "vendor"]
  /\ missed' = ~registered
  /\ UNCHANGED <<structures, padding, structureCount, nextByte, root, serialKnown, registered>>

(* startPlugin: the mainboard's name, or else that of the system. *)
NameFrom(board, system) == IF root[board] # <<>> THEN root[board] ELSE root[system]

ReadVendor ==
  /\ monitor.step = "vendor"
  /\ monitor' = [monitor EXCEPT !.step = "product",
                   !.vendor = NameFrom("oem-mb-manufacturer", "oem-manufacturer")]
  /\ UNCHANGED <<structures, padding, structureCount, nextByte, root, serialKnown, registered, missed>>

ReadProduct ==
  /\ monitor.step = "product"
  /\ monitor' = [monitor EXCEPT !.step = "configured",
                   !.product = NameFrom("oem-mb-product", "oem-product-name")]
  /\ UNCHANGED <<structures, padding, structureCount, nextByte, root, serialKnown, registered, missed>>
--------------------------------------------------------------------------------
SMBIOSNext ==
  \/ DecodeStructure \/ RegisterSMBIOS
  \/ MonitorStarts \/ WaitForSMBIOS \/ ReadVendor \/ ReadProduct

SMBIOSSpec == SMBIOSInit /\ [][SMBIOSNext]_smbiosVars
--------------------------------------------------------------------------------
SMBIOSTypeOK ==
  /\ structureCount \in 0..Len(structures) /\ nextByte \in 0..TableEnd(Table)
  /\ \A n \in Properties : root[n] \in Seq(Chars)
  /\ {serialKnown, registered, missed} \subseteq BOOLEAN
  /\ monitor.step \in {"start", "wait", "vendor", "product", "configured"}

(* 0 when a string is blank. *)
FirstChar(s) == SelectInSeq(s, LAMBDA c : c # Space)

(* A string that is not blank, and whose characters, from the first that   *)
(* is not a space, are no multiple of 256.                                 *)
Kept(s) == FirstChar(s) # 0 /\ (Len(s) - FirstChar(s) + 1) % 256 # 0

(* The j-th string of the i-th structure belongs to n and is kept. *)
Named(n, i, j) ==
  LET s == structures[i]
  IN /\ Len(s.refs) >= 4 /\ PropertiesOf(s.type)[j] = n
     /\ s.refs[j] # 0 /\ Kept(s.strings[s.refs[j]])

(* What was written under a name: by the last structure that has it, for   *)
(* the serial number by the first.                                         *)
Written(n) ==
  LET places == {a \in (1..Len(structures)) \X (1..4) :
                   a[2] <= Len(PropertiesOf(structures[a[1]].type)) /\ Named(n, a[1], a[2])}
      chosen == CHOOSE a \in places : \A b \in places :
                  IF n = "serial-number" THEN a[1] <= b[1] ELSE a[1] >= b[1]
      s == structures[chosen[1]].strings[structures[chosen[1]].refs[chosen[2]]]
  IN IF places = {} \/ (n = "serial-number" /\ serialKnown) THEN <<>>
     ELSE SubSeq(s, FirstChar(s), Len(s))

(* The table is decoded as it was written, whatever structures, blank      *)
(* strings, unused numbers and zeros within structures it has, but for     *)
(* strings whose characters are a multiple of 256, which are taken for     *)
(* none; and a Super I/O monitor that has met OemSMBIOS registered has the *)
(* complete names, those of the mainboard if it has any.  A monitor that   *)
(* starts while the table is decoded, or that has waited for ten seconds,  *)
(* may have others.                                                        *)
BoardKnown ==
  /\ registered => \A n \in Properties : root[n] = Written(n)
  /\ monitor.step = "configured" /\ ~missed =>
       /\ monitor.vendor = IF Written("oem-mb-manufacturer") # <<>>
                           THEN Written("oem-mb-manufacturer") ELSE Written("oem-manufacturer")
       /\ monitor.product = IF Written("oem-mb-product") # <<>>
                            THEN Written("oem-mb-product") ELSE Written("oem-product-name")
================================================================================
