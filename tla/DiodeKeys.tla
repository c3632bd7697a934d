------------------------------- MODULE DiodeKeys -------------------------------
(***************************************************************************)
(* How the graphics and chipset sensors share out the keys TG<i>D.  Each   *)
(* of them tries i = 0, 1, ... until it meets a key that is not there and  *)
(* registers it.  RadeonX and X3100 do so under the explicit lock of the   *)
(* storage, IntelTMC without it; GeForceSensors asks for five keys of each *)
(* index, without the lock, and registers its own much later.              *)
(***************************************************************************)
EXTENDS Integers, Sequences, FiniteSets

CONSTANTS Cards,         \* the plug-in objects, one for each device
          Kind,          \* "Locked" (RadeonX, X3100), "Unlocked" (IntelTMC), "GeForce"
          Features,      \* the kinds of keys that a GeForce card registers
          Slots,         \* 16: indices that are tried
          Preloaded,     \* keys that other plug-ins or the property list have added
          CountModulus,  \* 256
          Nobody, NoNumber

Indices == 0..(Slots - 1)

(* TG<i>D, TG<i>H, TG<i>P, VC<i>G and CG<i>C, in the order in which        *)
(* getVacantGPUIndex asks for them.                                        *)
GPUKeys == <<"D", "H", "P", "V", "C">>

KeyKinds == {GPUKeys[k] : k \in 1..5}

KeyNames == KeyKinds \X Indices

ASSUME DiodeAssumption ==
  /\ Nobody \notin Cards /\ NoNumber \notin Indices
  /\ Kind \in [Cards -> {"Locked", "Unlocked", "GeForce"}]
  /\ Features \in [Cards -> Seq(KeyKinds)]
  /\ \A c \in Cards : Kind[c] = "GeForce" <=> Features[c] # <<>>
  /\ \A c \in Cards : Len(Features[c]) <= 5
  /\ Slots \in Nat \ {0}
  /\ CountModulus \in Nat \ {0}
  /\ Preloaded \in Seq(KeyNames)
  /\ \A i, j \in 1..Len(Preloaded) : Preloaded[i] = Preloaded[j] => i = j

VARIABLES
  table, ownerOf, count,  \* the store: see KeyTable
  lockOwner,   \* the card inside lockStorageProvider .. unlockStorageProvider
  step,        \* where in start each card is
  slot,        \* the loop variable i; later card_index of GeForce
  asked,       \* which of the keys of i GeForce asks for; later which it adds
  sensors,     \* the dictionary sensors of each card: key name -> index
  numCard      \* numCard of the others

storeVars == <<table, ownerOf, count>>
vars == <<storeVars, lockOwner, step, slot, asked, sensors, numCard>>

Store == INSTANCE KeyTable
           WITH Names <- KeyNames, Handlers <- Cards, NoHandler <- Nobody

Steps == {"absent", "idle", "scan", "add", "record", "again", "unlock", "done"}
--------------------------------------------------------------------------------
(* Which of the cards the machine has is part of the initial state. *)
Init ==
  /\ table = Preloaded
  /\ ownerOf = [n \in KeyNames |-> Nobody]
  /\ count = Len(Preloaded) % CountModulus
  /\ lockOwner = Nobody
  /\ step \in [Cards -> {"absent", "idle"}]
  /\ slot = [c \in Cards |-> 0]
  /\ asked = [c \in Cards |-> 1]
  /\ sensors = [c \in Cards |-> [n \in KeyNames |-> NoNumber]]
  /\ numCard = [c \in Cards |-> 0]

Goto(c, s) == step' = [step EXCEPT ![c] = s]

Diode(i) == <<"D", i>>

(* The name the card is about to add: the one its scan has stopped at. *)
Target(c) == IF Kind[c] = "GeForce" THEN <<Features[c][asked[c]], slot[c]>> ELSE Diode(slot[c])

(* Every call into the store waits while another card has it locked.       *)
(* Mutant: it does not.                                                    *)
AlwaysOpen(c) == TRUE

StoreOpen(c) == lockOwner \in {Nobody, c}

AddKeyHandler(n, c) == Store!Register(n, c) \/ Store!TakeOver(n, c)
--------------------------------------------------------------------------------
(* The loop begins, with or without the lock.  Mutant: without. *)
BeginUnlocked(c) == UNCHANGED lockOwner

TakeLock(c) == lockOwner' = IF Kind[c] = "Locked" THEN c ELSE lockOwner

Begin(c) ==
  /\ step[c] = "idle"
  /\ Kind[c] = "Locked" => lockOwner = Nobody
  /\ TakeLock(c)
  /\ Goto(c, "scan")
  /\ UNCHANGED <<storeVars, slot, asked, sensors, numCard>>

(* kFakeSMCGetKeyValue succeeds: the key is there, the next index is       *)
(* tried.  After the last one name still holds that last key, and the      *)
(* plug-ins without a vacant index register it all the same;               *)
(* getVacantGPUIndex returns false, which is index 0.                      *)
Occupied(c, n) ==
  /\ n \in Store!Registered
  /\ asked' = [asked EXCEPT ![c] = 1]
  /\ IF slot[c] < Slots - 1
     THEN slot' = [slot EXCEPT ![c] = @ + 1] /\ UNCHANGED step
     ELSE IF Kind[c] = "GeForce"
          THEN slot' = [slot EXCEPT ![c] = 0] /\ Goto(c, "add")
          ELSE UNCHANGED slot /\ Goto(c, "again")

(* The key is not there: GeForce asks for the next one of the same index.  *)
Vacant(c, n) ==
  /\ n \notin Store!Registered
  /\ IF Kind[c] = "GeForce" /\ asked[c] < 5
     THEN asked' = [asked EXCEPT ![c] = @ + 1] /\ UNCHANGED step
     ELSE asked' = [asked EXCEPT ![c] = 1] /\ Goto(c, "add")
  /\ UNCHANGED slot

Scan(c) ==
  /\ step[c] = "scan"
  /\ StoreOpen(c)
  /\ LET n == IF Kind[c] = "GeForce" THEN <<GPUKeys[asked[c]], slot[c]>> ELSE Diode(slot[c])
     IN Occupied(c, n) \/ Vacant(c, n)
  /\ UNCHANGED <<storeVars, lockOwner, sensors, numCard>>

(* addSensor: the handler, ... *)
AddSensor(c) ==
  /\ step[c] = "add"
  /\ StoreOpen(c)
  /\ AddKeyHandler(Target(c), c)
  /\ Goto(c, "record")
  /\ UNCHANGED <<lockOwner, slot, asked, sensors, numCard>>

(* Mutant of RecordSensor: numCard is not set. *)
ForgetNumber(c) ==
  /\ step[c] = "record"
  /\ Kind[c] # "GeForce"
  /\ sensors' = [sensors EXCEPT ![c][Target(c)] = slot[c]]
  /\ Goto(c, "again")
  /\ UNCHANGED <<storeVars, lockOwner, slot, asked, numCard>>

(* ... and the entry in sensors.  GeForce goes on with its next key, the   *)
(* others set numCard and leave the loop.                                  *)
RecordSensor(c) ==
  /\ step[c] = "record"
  /\ IF Kind[c] = "GeForce"
     THEN /\ sensors' = [sensors EXCEPT ![c][Target(c)] = 0]
          /\ IF asked[c] < Len(Features[c])
             THEN asked' = [asked EXCEPT ![c] = @ + 1] /\ Goto(c, "add")
             ELSE UNCHANGED asked /\ Goto(c, "done")
          /\ UNCHANGED numCard
     ELSE /\ sensors' = [sensors EXCEPT ![c][Target(c)] = slot[c]]
          /\ numCard' = [numCard EXCEPT ![c] = slot[c]]
          /\ Goto(c, "again")
          /\ UNCHANGED asked
  /\ UNCHANGED <<storeVars, lockOwner, slot>>

(* kFakeSMCAddKeyHandler once more, with the name the loop ended with. *)
AddAgain(c) ==
  /\ step[c] = "again"
  /\ StoreOpen(c)
  /\ AddKeyHandler(Diode(slot[c]), c)
  /\ Goto(c, IF Kind[c] = "Locked" THEN "unlock" ELSE "done")
  /\ UNCHANGED <<lockOwner, slot, asked, sensors, numCard>>

Unlock(c) ==
  /\ step[c] = "unlock"
  /\ lockOwner' = Nobody
  /\ Goto(c, "done")
  /\ UNCHANGED <<storeVars, slot, asked, sensors, numCard>>
--------------------------------------------------------------------------------
Start(c) == Begin(c) \/ Scan(c) \/ AddSensor(c) \/ RecordSensor(c) \/ AddAgain(c) \/ Unlock(c)

(* All cards have started: the system may rest. *)
Next == \E c \in Cards : Start(c)

Spec == Init /\ [][Next]_vars
--------------------------------------------------------------------------------
TypeOK ==
  /\ table \in Seq(KeyNames)
  /\ ownerOf \in [KeyNames -> Cards \cup {Nobody}]
  /\ count \in 0..(CountModulus - 1)
  /\ lockOwner \in Cards \cup {Nobody}
  /\ step \in [Cards -> Steps]
  /\ slot \in [Cards -> Indices]
  /\ asked \in [Cards -> 1..5]
  /\ sensors \in [Cards -> [KeyNames -> Indices \cup {NoNumber}]]
  /\ numCard \in [Cards -> Indices]

(* "try to find empty key" (RadeonX.cpp:77, IntelTMC.cpp:122): the key     *)
(* that a card is about to register is still empty.  IntelTMC finds a key  *)
(* empty and registers it when it no longer is.                            *)
FoundKeysAreEmpty ==
  \A c \in Cards :
    step[c] = "add" /\ Kind[c] # "GeForce" => Diode(slot[c]) \notin Store!Registered

(* RadeonX and X3100 hold the lock from the scan to the registration, and  *)
(* the lock also stops the cards that do not take it: the key that their   *)
(* scan has found empty is empty when they register it.                    *)
LockedFindsAreEmpty ==
  \A c \in Cards :
    step[c] = "add" /\ Kind[c] = "Locked" => Diode(slot[c]) \notin Store!Registered

(* All the cards of the machine lock the storage. *)
LockingMachine == \A c \in Cards : step[c] # "absent" => Kind[c] = "Locked"

(* In such a machine, as long as there is an index for every card, a card  *)
(* that has a diode key keeps it.                                          *)
DiodesKept ==
  [][LockingMachine =>
       \A n \in KeyNames : ownerOf[n] # Nobody => ownerOf'[n] = ownerOf[n]]_vars

(* In such a machine every card that has started answers for a key of its  *)
(* own, and with itself: the callback compares the recorded index with     *)
(* numCard.                                                                *)
StartedCardsAnswer ==
  LockingMachine => \A c \in Cards :
    step[c] = "done" /\ Kind[c] # "GeForce" =>
      /\ ownerOf[Diode(numCard[c])] = c
      /\ sensors[c][Diode(numCard[c])] = numCard[c]
================================================================================
