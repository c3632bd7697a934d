----------------------------- MODULE FanAllocation -----------------------------
(***************************************************************************)
(* How the plug-ins share out the fan indices.  The start method of every  *)
(* plug-in walks over the fan inputs of its chip and calls addTachometer   *)
(* for each: under the explicit lock of the storage it reads FNum, calls   *)
(* its handler key F<n>Ac and, some of them, labels F<n>ID, and writes     *)
(* FNum + 1.  Plug-ins start on threads of their own, and AppleSMC and its *)
(* clients read the keys at any moment, without that lock.                 *)
(*                                                                         *)
(* The calls into FakeSMCDevice are the operations of KeyTable, which      *)
(* SMCKeyStore implements; this module adds the value of FNum.             *)
(***************************************************************************)
EXTENDS Integers, FiniteSets, Sequences

CONSTANTS Plugins,       \* the plug-ins that report fans
          Kind,          \* which code each of them runs
          Inputs,        \* the fan inputs of all their chips
          PluginOf,      \* whose chip an input belongs to
          ByteValues,    \* 256: FNum is one byte
          HexDigits,     \* 16: above, "F%XAc" has two digits and snprintf cuts
          DecDigits,     \* 10: the same for "F%dMn"
          CountModulus,  \* 256: the range of the published number of keys
          Preloaded,     \* the keys of the store before any plug-in starts
          Nobody, NoInput

Kinds == {"SuperIO", "ACPI", "NVClock", "GeForce", "Andigilog"}

Indices == 0..(ByteValues - 1)

(* snprintf(name, 5, "F%X..", i): what does not fit into four characters   *)
(* is cut off, so that F<i>Mn and F<i>Mx become the same name.             *)
Cut(k) == IF k = "Ac" THEN "A" ELSE IF k = "ID" THEN "I" ELSE "M"

Name(k, i) ==
  LET digits == IF k \in {"Mn", "Mx"} THEN DecDigits ELSE HexDigits
  IN IF i < digits THEN <<k, i>> ELSE <<Cut(k), i>>

FanKeys == {Name(k, i) : k \in {"Ac", "ID", "Mn", "Mx"}, i \in Indices}

KeyNames == FanKeys \cup {Preloaded[i] : i \in 1..Len(Preloaded)}

ASSUME FanAssumption ==
  /\ Nobody \notin Plugins /\ NoInput \notin Inputs
  /\ Kind \in [Plugins -> Kinds]
  /\ PluginOf \in [Inputs -> Plugins]
  /\ IsFiniteSet(Inputs)
  /\ ByteValues \in Nat /\ Cardinality(Inputs) < ByteValues
  /\ HexDigits \in Nat /\ DecDigits \in Nat
  /\ CountModulus \in Nat \ {0}
  /\ Preloaded \in Seq(KeyNames)
  /\ \A i \in 1..Len(Preloaded) : Preloaded[i] \notin FanKeys
  /\ \A i, j \in 1..Len(Preloaded) : Preloaded[i] = Preloaded[j] => i = j

VARIABLES
  table, ownerOf, count,  \* the store: see KeyTable
  fnum,       \* the value of "FNum"
  label,      \* the input whose caption each F<n>ID holds
  lockOwner,  \* the plug-in inside lockStorageProvider .. unlockStorageProvider
  step,       \* where in addTachometer each plug-in is
  todo,       \* the inputs whose plug-in has not come to them yet
  input,      \* the argument of addTachometer
  index,      \* its local variable length, read from FNum
  sensors,    \* the sensors collection of each plug-in
  measured,   \* Measures of Andigilog: its fans in the order of config.num_fan
  fanOffset   \* config.fan_offset of Andigilog

storeVars == <<table, ownerOf, count>>
vars == <<storeVars, fnum, label, lockOwner, step, todo, input, index, sensors, measured, fanOffset>>

Store == INSTANCE KeyTable
           WITH Names <- KeyNames, Handlers <- Plugins, NoHandler <- Nobody

LockedSteps == {"count", "record", "register", "label", "number", "minimum", "maximum", "unlock"}

Steps == {"idle", "lateLabel"} \cup LockedSteps
--------------------------------------------------------------------------------
Init ==
  /\ table = Preloaded
  /\ ownerOf = [n \in KeyNames |-> Nobody]
  /\ count = Len(Preloaded) % CountModulus
  /\ fnum = 0
  /\ label = [i \in Indices |-> NoInput]
  /\ lockOwner = Nobody
  /\ step = [p \in Plugins |-> "idle"]
  /\ todo = Inputs
  /\ input = [p \in Plugins |-> NoInput]
  /\ index = [p \in Plugins |-> 0]
  /\ sensors = [p \in Plugins |-> [i \in Indices |-> NoInput]]
  /\ measured = [p \in Plugins |-> <<>>]
  /\ fanOffset = [p \in Plugins |-> -1]

Goto(p, s) == step' = [step EXCEPT ![p] = s]

(* kFakeSMCAddKeyHandler: a new key, or the handler of an old one.         *)
AddKeyHandler(n, p) == Store!Register(n, p) \/ Store!TakeOver(n, p)

(* kFakeSMCAddKeyValue on F<i>ID: the caption of input f.                  *)
AddLabel(i, f) ==
  /\ IF Name("ID", i) \in Store!Registered
     THEN UNCHANGED storeVars
     ELSE Store!Register(Name("ID", i), Nobody)
  /\ label' = [label EXCEPT ![i] = f]
--------------------------------------------------------------------------------
(* Mutant: the storage is not locked against the other plug-ins. *)
AlwaysAvailable == TRUE

LockAvailable == lockOwner = Nobody

(* The plug-in comes to one of its inputs and locks the storage. *)
LockStorage(p) ==
  /\ step[p] = "idle"
  /\ LockAvailable
  /\ lockOwner' = p
  /\ \E f \in todo : /\ PluginOf[f] = p
                     /\ todo' = todo \ {f}
                     /\ input' = [input EXCEPT ![p] = f]
                     /\ measured' = IF Kind[p] = "Andigilog"
                                    THEN [measured EXCEPT ![p] = Append(@, f)]
                                    ELSE measured
  /\ Goto(p, "count")
  /\ UNCHANGED <<storeVars, fnum, label, index, sensors, fanOffset>>

(* Mutant: FNum is raised before the key exists. *)
ReserveIndex(p) ==
  /\ step[p] = "count"
  /\ index' = [index EXCEPT ![p] = fnum]
  /\ fnum' = fnum + 1
  /\ Goto(p, IF Kind[p] = "SuperIO" THEN "record" ELSE "register")
  /\ UNCHANGED <<storeVars, label, lockOwner, todo, input, sensors, measured, fanOffset>>

(* kFakeSMCGetKeyValue of FNum and the bcopy of its first byte. *)
GetCount(p) ==
  /\ step[p] = "count"
  /\ index' = [index EXCEPT ![p] = fnum]
  /\ Goto(p, IF Kind[p] = "SuperIO" THEN "record" ELSE "register")
  /\ UNCHANGED <<storeVars, fnum, label, lockOwner, todo, input, sensors, measured, fanOffset>>

(* SuperIOMonitor looks into sensors and adds to it before the key is      *)
(* registered, the other plug-ins add to it afterwards.                    *)
RecordSensor(p) ==
  /\ step[p] = "record"
  /\ IF Kind[p] = "SuperIO" /\ sensors[p][index[p]] # NoInput
     THEN Goto(p, "unlock") /\ UNCHANGED sensors
     ELSE /\ sensors' = [sensors EXCEPT ![p][index[p]] = input[p]]
          /\ Goto(p, IF Kind[p] = "SuperIO" THEN "register" ELSE "label")
  /\ UNCHANGED <<storeVars, fnum, label, lockOwner, todo, input, index, measured, fanOffset>>

RegisterSpeed(p) ==
  /\ step[p] = "register"
  /\ AddKeyHandler(Name("Ac", index[p]), p)
  /\ Goto(p, IF Kind[p] = "SuperIO" THEN "label" ELSE "record")
  /\ UNCHANGED <<fnum, label, lockOwner, todo, input, index, sensors, measured, fanOffset>>

(* Mutant: fan_offset follows every fan. *)
LastFan(p) == fanOffset' = [fanOffset EXCEPT ![p] = index[p]]

(* Andigilog remembers the index of its first fan. *)
FirstFan(p) ==
  fanOffset' = IF fanOffset[p] < 0 THEN [fanOffset EXCEPT ![p] = index[p]] ELSE fanOffset

(* F<n>ID: always with Andigilog, with SuperIOMonitor and ACPISensors if   *)
(* there is a caption, later with NVClockX, never with GeForceSensors.     *)
Label(p) ==
  /\ step[p] = "label"
  /\ \/ /\ Kind[p] \in {"Andigilog", "SuperIO", "ACPI"}
        /\ AddLabel(index[p], input[p])
     \/ /\ Kind[p] # "Andigilog"
        /\ UNCHANGED <<storeVars, label>>
  /\ IF Kind[p] = "Andigilog" THEN FirstFan(p) ELSE UNCHANGED fanOffset
  /\ Goto(p, "number")
  /\ UNCHANGED <<fnum, lockOwner, todo, input, index, sensors, measured>>

(* Mutant: length is stored before it is incremented. *)
KeepCount(p) ==
  /\ step[p] = "number"
  /\ fnum' = index[p]
  /\ Goto(p, IF Kind[p] = "Andigilog" THEN "minimum" ELSE "unlock")
  /\ UNCHANGED <<storeVars, label, lockOwner, todo, input, index, sensors, measured, fanOffset>>

(* kFakeSMCSetKeyValue of FNum: length + 1, a UInt8. *)
SetCount(p) ==
  /\ step[p] = "number"
  /\ fnum' = (index[p] + 1) % ByteValues
  /\ Goto(p, IF Kind[p] = "Andigilog" THEN "minimum" ELSE "unlock")
  /\ UNCHANGED <<storeVars, label, lockOwner, todo, input, index, sensors, measured, fanOffset>>

(* Andigilog goes on with F<n>Mn and F<n>Mx. *)
RegisterLimits(p) ==
  /\ \/ step[p] = "minimum" /\ AddKeyHandler(Name("Mn", index[p]), p) /\ Goto(p, "maximum")
     \/ step[p] = "maximum" /\ AddKeyHandler(Name("Mx", index[p]), p) /\ Goto(p, "unlock")
  /\ UNCHANGED <<fnum, label, lockOwner, todo, input, index, sensors, measured, fanOffset>>

(* Mutant: the storage stays locked. *)
LeaveLocked(p) ==
  /\ step[p] = "unlock"
  /\ Goto(p, IF Kind[p] = "NVClock" THEN "lateLabel" ELSE "idle")
  /\ UNCHANGED <<storeVars, fnum, label, lockOwner, todo, input, index, sensors, measured, fanOffset>>

UnlockStorage(p) ==
  /\ step[p] = "unlock"
  /\ lockOwner' = Nobody
  /\ Goto(p, IF Kind[p] = "NVClock" THEN "lateLabel" ELSE "idle")
  /\ UNCHANGED <<storeVars, fnum, label, todo, input, index, sensors, measured, fanOffset>>

(* Mutant: the index is taken from FNum again, after the unlock. *)
LabelLastFan(p) ==
  /\ step[p] = "lateLabel"
  /\ lockOwner = Nobody
  /\ AddLabel(fnum - 1, input[p])
  /\ Goto(p, "idle")
  /\ UNCHANGED <<fnum, lockOwner, todo, input, index, sensors, measured, fanOffset>>

(* NVClockX labels its fan with the index that addTachometer returned.     *)
LateLabel(p) ==
  /\ step[p] = "lateLabel"
  /\ lockOwner = Nobody
  /\ AddLabel(index[p], input[p])
  /\ Goto(p, "idle")
  /\ UNCHANGED <<fnum, lockOwner, todo, input, index, sensors, measured, fanOffset>>
--------------------------------------------------------------------------------
AddTachometer(p) ==
  \/ GetCount(p) \/ RecordSensor(p) \/ RegisterSpeed(p) \/ Label(p)
  \/ SetCount(p) \/ RegisterLimits(p) \/ UnlockStorage(p)

(* All plug-ins have started: the system may rest. *)
Next == \E p \in Plugins : LockStorage(p) \/ AddTachometer(p) \/ LateLabel(p)

Spec == Init /\ [][Next]_vars

(* A plug-in's start keeps running, and the lock of the storage is a mutex *)
(* that serves everybody who waits for it.                                 *)
Fairness ==
  \A p \in Plugins : SF_vars(LockStorage(p) \/ AddTachometer(p) \/ LateLabel(p))

FairSpec == Spec /\ Fairness
--------------------------------------------------------------------------------
TypeOK ==
  /\ table \in Seq(KeyNames)
  /\ ownerOf \in [KeyNames -> Plugins \cup {Nobody}]
  /\ count \in 0..(CountModulus - 1)
  /\ fnum \in Indices
  /\ label \in [Indices -> Inputs \cup {NoInput}]
  /\ lockOwner \in Plugins \cup {Nobody}
  /\ step \in [Plugins -> Steps]
  /\ todo \subseteq Inputs
  /\ input \in [Plugins -> Inputs \cup {NoInput}]
  /\ index \in [Plugins -> Indices]
  /\ sensors \in [Plugins -> [Indices -> Inputs \cup {NoInput}]]
  /\ measured \in [Plugins -> Seq(Inputs)]
  /\ fanOffset \in [Plugins -> Indices \cup {-1}]

Owner(i) == ownerOf[Name("Ac", i)]

(* The input that answers when the handler of F<i>Ac is asked. *)
Behind(i) == IF Owner(i) = Nobody THEN NoInput ELSE sensors[Owner(i)][i]

(* Even for a reader that takes no lock, FNum never counts a fan whose key *)
(* is not registered, has no handler, or whose handler does not know it.   *)
CountNeverAhead ==
  \A i \in 0..(fnum - 1) : /\ Name("Ac", i) \in Store!Registered
                           /\ Behind(i) # NoInput

(* Whenever the storage is unlocked, the fans whose plug-in has come to    *)
(* them are exactly the fans 0 .. FNum - 1, each once.                     *)
FansNumbered ==
  lockOwner = Nobody =>
    /\ fnum = Cardinality(Inputs \ todo)
    /\ {Behind(i) : i \in 0..(fnum - 1)} = Inputs \ todo
    /\ \A i \in Indices : Name("Ac", i) \in Store!Registered <=> i < fnum

(* A caption is only ever seen on the fan it describes. *)
LabelsFit == \A i \in Indices : label[i] # NoInput => label[i] = Behind(i)

(* The fan that the callback of Andigilog reads for F<i>Ac: it has the     *)
(* number i - fan_offset among its fans.                                   *)
Answering(p, i) ==
  LET k == i - fanOffset[p] + 1
  IN IF k \in 1..Len(measured[p]) THEN measured[p][k] ELSE NoInput

OwnFans(p) == {i \in Indices : Owner(i) = p}

InOneRun(S) == \A i, j \in S : \A k \in i..j : k \in S

(* Andigilog answers for the right fan as long as no other plug-in gets an *)
(* index between two of its fans (it also takes the index in the name for  *)
(* a decimal digit: strtol(&key[1], NULL, 10)).                            *)
RunsAnswered ==
  \A p \in Plugins :
    /\ Kind[p] = "Andigilog" /\ lockOwner = Nobody
    /\ InOneRun(OwnFans(p)) /\ OwnFans(p) \subseteq 0..(DecDigits - 1)
    =>
      \A i \in OwnFans(p) : Answering(p, i) = Behind(i)

(* "Return real states" (Andigilog.cpp:410): bit i of "FS! ", pwm_mode     *)
(* shifted by fan_offset, is the state of the fan that is read as F<i>Ac.  *)
(* It is not once another plug-in has got an index between its fans.       *)
RealStatesReturned ==
  \A p \in Plugins :
    Kind[p] = "Andigilog" /\ lockOwner = Nobody =>
      \A pwmMode \in SUBSET (1..Len(measured[p])) :
        LET bits == {k - 1 + fanOffset[p] : k \in pwmMode}
        IN \A i \in Indices :
             i \in bits <=> Owner(i) = p /\ \E k \in pwmMode : measured[p][k] = Behind(i)

(* A fan is never taken away from the plug-in that registered it. *)
FansKept ==
  [][\A i \in Indices : Owner(i) # Nobody => Owner(i)' = Owner(i)]_vars

(* Every fan is numbered in the end. *)
AllFansNumbered == <>[](fnum = Cardinality(Inputs))

Fans == INSTANCE FanTable WITH fans <- [i \in 1..fnum |-> Behind(i - 1)]

(* The plug-ins together implement one table in which a fan appears in one *)
(* step.                                                                   *)
ImplementsFanTable == Fans!TableSpec
--------------------------------------------------------------------------------
Registered(i) == Name("Ac", i) \in Store!Registered

(* How far addTachometer has come: the key exists, the sensor is recorded, *)
(* FNum is raised.                                                         *)
Keyed(p) == step[p] \in {"label", "number"} \/ (step[p] = "record" /\ Kind[p] # "SuperIO")

Recorded(p) == step[p] \in {"label", "number"} \/ (step[p] = "register" /\ Kind[p] = "SuperIO")

Uncounted(p) == step[p] \in {"count", "record", "register", "label", "number"}

Counted(p) == step[p] \in {"minimum", "maximum", "unlock", "lateLabel"}

(* The inputs that FNum counts. *)
Settled == {f \in Inputs \ todo : \A p \in Plugins : Uncounted(p) => input[p] # f}

(* The inductive invariant: the storage is locked while a fan is between   *)
(* key and count, so that at most one fan is, and its index is FNum.       *)
LockInv ==
  \A p \in Plugins :
    /\ step[p] \in LockedSteps <=> lockOwner = p
    /\ step[p] # "idle" => input[p] \in Inputs \ todo /\ PluginOf[input[p]] = p
    /\ Uncounted(p) /\ step[p] # "count" => index[p] = fnum
    /\ Counted(p) => index[p] < fnum

KeyInv ==
  /\ \A i \in Indices :
       /\ Registered(i) <=> i < fnum \/ (i = fnum /\ \E p \in Plugins : Keyed(p))
       /\ Registered(i) <=> Owner(i) # Nobody
  /\ \A p \in Plugins : Keyed(p) \/ Counted(p) => Owner(index[p]) = p

SensorInv ==
  \A p \in Plugins :
    /\ Recorded(p) \/ Counted(p) => sensors[p][index[p]] = input[p]
    /\ \A i \in Indices :
         sensors[p][i] # NoInput =>
           \/ i < fnum /\ Owner(i) = p
           \/ i = fnum /\ Recorded(p)

CountInv ==
  /\ fnum = Cardinality(Settled)
  /\ {Behind(i) : i \in 0..(fnum - 1)} = Settled

FanInv == LockInv /\ KeyInv /\ SensorInv /\ CountInv /\ LabelsFit
================================================================================
