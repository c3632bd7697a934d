--------------------------- MODULE DiodeKeys_proofs ---------------------------
(***************************************************************************)
(* Proofs about DiodeKeys, for any number of cards and indices.            *)
(***************************************************************************)
EXTENDS DiodeKeys, FiniteSetTheorems, TLAPS

(* A GeForce card registers keys that it has. *)
HasFeature ==
  \A c \in Cards :
    Kind[c] = "GeForce" /\ step[c] \in {"add", "record"} => asked[c] <= Len(Features[c])

(* A card that locks the storage owns the lock from its first look at the  *)
(* keys to its last call; nobody else ever does.                           *)
LockHeld ==
  \A c \in Cards :
    /\ step[c] = "unlock" => Kind[c] = "Locked"
    /\ lockOwner = c <=> /\ Kind[c] = "Locked"
                         /\ step[c] \in {"scan", "add", "record", "again", "unlock"}

Basic == TypeOK /\ HasFeature

DiodeInv == Basic /\ LockHeld /\ LockedFindsAreEmpty

LEMMA KeyNameTypes ==
  /\ \A i \in Indices : Diode(i) \in KeyNames
  /\ \A k \in 1..5, i \in Indices : <<GPUKeys[k], i>> \in KeyNames
<1>1. GPUKeys[1] = "D"
  BY DEF GPUKeys
<1>. QED BY <1>1 DEF KeyNames, KeyKinds, Diode

LEMMA TargetType ==
  ASSUME Basic, NEW c \in Cards, step[c] \in {"add", "record"}
  PROVE  Target(c) \in KeyNames
<1>1. CASE Kind[c] = "GeForce"
  <2>1. Features[c] \in Seq(KeyKinds) /\ asked[c] \in 1..5 /\ asked[c] <= Len(Features[c])
    BY <1>1, DiodeAssumption DEF Basic, HasFeature, TypeOK
  <2>2. Features[c][asked[c]] \in KeyKinds
    BY <2>1
  <2>. QED BY <1>1, <2>2 DEF Target, KeyNames, Basic, TypeOK
<1>2. CASE Kind[c] # "GeForce"
  BY <1>2, KeyNameTypes DEF Target, Basic, TypeOK
<1>. QED BY <1>1, <1>2

(* A call of AddKeyHandler leaves a well-typed store. *)
LEMMA AddKeyHandlerType ==
  ASSUME Basic, NEW c \in Cards, NEW n \in KeyNames, AddKeyHandler(n, c)
  PROVE  /\ table' \in Seq(KeyNames)
         /\ ownerOf' \in [KeyNames -> Cards \cup {Nobody}]
         /\ count' \in 0..(CountModulus - 1)
<1>1. CASE Store!Register(n, c)
  <2>1. table' \in Seq(KeyNames) /\ Len(table') \in Nat
    BY <1>1 DEF Store!Register, Basic, TypeOK
  <2>. QED BY <1>1, <2>1, DiodeAssumption DEF Store!Register, Basic, TypeOK
<1>2. CASE Store!TakeOver(n, c)
  BY <1>2 DEF Store!TakeOver, Basic, TypeOK
<1>. QED BY <1>1, <1>2 DEF AddKeyHandler

LEMMA BeginBasic == ASSUME Basic, NEW c \in Cards, Begin(c) PROVE Basic'
  BY DEF Basic, TypeOK, HasFeature, Begin, TakeLock, Goto, Steps, storeVars

LEMMA OccupiedBasic ==
  ASSUME Basic, NEW c \in Cards, NEW n, Occupied(c, n), step[c] = "scan",
         UNCHANGED <<storeVars, lockOwner, sensors, numCard>>
  PROVE  Basic'
<1>1. slot[c] \in Indices /\ 0 \in Indices /\ (slot[c] < Slots - 1 => slot[c] + 1 \in Indices)
  BY DiodeAssumption DEF Basic, TypeOK, Indices
<1>2. slot' \in [Cards -> Indices]
  BY <1>1 DEF Occupied, Basic, TypeOK
<1>3. step' \in [Cards -> Steps] /\ asked' \in [Cards -> 1..5]
  <2>1. step \in [Cards -> Steps] /\ "add" \in Steps /\ "again" \in Steps
    BY DEF Basic, TypeOK, Steps
  <2>2. asked' \in [Cards -> 1..5]
    BY DEF Occupied, Basic, TypeOK
  <2>. QED BY <2>1, <2>2 DEF Occupied, Goto
<1>4. HasFeature'
  <2>. SUFFICES ASSUME NEW d \in Cards, Kind[d] = "GeForce", step'[d] \in {"add", "record"}
                PROVE  asked'[d] <= Len(Features[d])
    BY DEF HasFeature
  <2>1. CASE d = c
    <3>1. Features[d] \in Seq(KeyKinds) /\ Features[d] # <<>>
      BY DiodeAssumption
    <3>2. Len(Features[d]) >= 1
      BY <3>1
    <3>. QED BY <2>1, <3>2 DEF Occupied, Basic, TypeOK
  <2>2. CASE d # c
    BY <2>2 DEF Occupied, Basic, HasFeature, TypeOK, Goto
  <2>. QED BY <2>1, <2>2
<1>. QED BY <1>2, <1>3, <1>4 DEF Basic, TypeOK, storeVars

LEMMA VacantBasic ==
  ASSUME Basic, NEW c \in Cards, NEW n, Vacant(c, n), step[c] = "scan",
         UNCHANGED <<storeVars, lockOwner, sensors, numCard>>
  PROVE  Basic'
<1>1. step' \in [Cards -> Steps] /\ asked' \in [Cards -> 1..5]
  <2>1. asked \in [Cards -> 1..5] /\ asked[c] \in 1..5 /\ step \in [Cards -> Steps] /\ "add" \in Steps
    BY DEF Basic, TypeOK, Steps
  <2>2. CASE Kind[c] = "GeForce" /\ asked[c] < 5
    <3>1. asked[c] + 1 \in 1..5
      BY <2>1, <2>2
    <3>. QED BY <2>1, <2>2, <3>1 DEF Vacant
  <2>3. CASE ~(Kind[c] = "GeForce" /\ asked[c] < 5)
    BY <2>1, <2>3 DEF Vacant, Goto
  <2>. QED BY <2>2, <2>3
<1>2. HasFeature'
  <2>. SUFFICES ASSUME NEW d \in Cards, Kind[d] = "GeForce", step'[d] \in {"add", "record"}
                PROVE  asked'[d] <= Len(Features[d])
    BY DEF HasFeature
  <2>1. CASE d = c
    <3>1. Features[d] \in Seq(KeyKinds) /\ Features[d] # <<>>
      BY DiodeAssumption
    <3>2. Len(Features[d]) >= 1
      BY <3>1
    <3>. QED BY <2>1, <3>2 DEF Vacant, Basic, TypeOK, Goto
  <2>2. CASE d # c
    BY <2>2 DEF Vacant, Basic, HasFeature, TypeOK, Goto
  <2>. QED BY <2>1, <2>2
<1>. QED BY <1>1, <1>2 DEF Basic, TypeOK, Vacant, storeVars

LEMMA AddSensorBasic == ASSUME Basic, NEW c \in Cards, AddSensor(c) PROVE Basic'
<1>1. Target(c) \in KeyNames
  BY TargetType DEF AddSensor
<1>2. /\ table' \in Seq(KeyNames)
      /\ ownerOf' \in [KeyNames -> Cards \cup {Nobody}]
      /\ count' \in 0..(CountModulus - 1)
  BY <1>1, AddKeyHandlerType DEF AddSensor
<1>3. HasFeature'
  BY DEF AddSensor, Basic, HasFeature, TypeOK, Goto
<1>. QED BY <1>2, <1>3 DEF AddSensor, Basic, TypeOK, Goto, Steps

LEMMA RecordSensorBasic == ASSUME Basic, NEW c \in Cards, RecordSensor(c) PROVE Basic'
<1>1. Target(c) \in KeyNames /\ slot[c] \in Indices /\ 0 \in Indices
  BY TargetType, DiodeAssumption DEF RecordSensor, Basic, TypeOK, Indices
<1>2. sensors' \in [Cards -> [KeyNames -> Indices \cup {NoNumber}]] /\ numCard' \in [Cards -> Indices]
  <2>. DEFINE Recorded(v) == [sensors[c] EXCEPT ![Target(c)] = v]
  <2>1. \A v \in Indices : Recorded(v) \in [KeyNames -> Indices \cup {NoNumber}]
    BY <1>1 DEF Basic, TypeOK
  <2>2. \E v \in Indices : sensors' = [sensors EXCEPT ![c] = Recorded(v)]
    BY <1>1 DEF RecordSensor
  <2>3. sensors' \in [Cards -> [KeyNames -> Indices \cup {NoNumber}]]
    BY <2>1, <2>2 DEF Basic, TypeOK
  <2>4. numCard' \in [Cards -> Indices]
    BY <1>1 DEF RecordSensor, Basic, TypeOK
  <2>. QED BY <2>3, <2>4
<1>3. step' \in [Cards -> Steps]
  BY DEF RecordSensor, Basic, TypeOK, Goto, Steps
<1>4. Len(Features[c]) \in Nat /\ Len(Features[c]) <= 5
  BY DiodeAssumption
<1>5. asked' \in [Cards -> 1..5]
  <2>1. asked \in [Cards -> 1..5] /\ asked[c] \in 1..5
    BY DEF Basic, TypeOK
  <2>2. asked[c] < Len(Features[c]) => asked[c] + 1 \in 1..5
    BY <1>4, <2>1
  <2>. QED BY <2>1, <2>2 DEF RecordSensor
<1>6. HasFeature'
  <2>. SUFFICES ASSUME NEW d \in Cards, Kind[d] = "GeForce", step'[d] \in {"add", "record"}
                PROVE  asked'[d] <= Len(Features[d])
    BY DEF HasFeature
  <2>0. asked \in [Cards -> 1..5] /\ asked[c] \in 1..5 /\ step \in [Cards -> Steps]
    BY DEF Basic, TypeOK
  <2>1. CASE d = c
    <3>1. Kind[c] = "GeForce" /\ asked[c] < Len(Features[c]) /\ asked' = [asked EXCEPT ![c] = @ + 1]
      BY <2>0, <2>1 DEF RecordSensor, Goto
    <3>. QED BY <1>4, <2>0, <2>1, <3>1
  <2>2. CASE d # c
    <3>1. step'[d] = step[d] /\ asked'[d] = asked[d]
      BY <2>0, <2>2 DEF RecordSensor, Goto
    <3>. QED BY <3>1 DEF Basic, HasFeature
  <2>. QED BY <2>1, <2>2
<1>. QED BY <1>2, <1>3, <1>5, <1>6 DEF RecordSensor, Basic, TypeOK, storeVars

LEMMA AddAgainBasic == ASSUME Basic, NEW c \in Cards, AddAgain(c) PROVE Basic'
<1>1. Diode(slot[c]) \in KeyNames
  BY KeyNameTypes DEF Basic, TypeOK
<1>2. /\ table' \in Seq(KeyNames)
      /\ ownerOf' \in [KeyNames -> Cards \cup {Nobody}]
      /\ count' \in 0..(CountModulus - 1)
  BY <1>1, AddKeyHandlerType DEF AddAgain
<1>3. HasFeature'
  BY DEF AddAgain, Basic, HasFeature, TypeOK, Goto
<1>. QED BY <1>2, <1>3 DEF AddAgain, Basic, TypeOK, Goto, Steps

LEMMA UnlockBasic == ASSUME Basic, NEW c \in Cards, Unlock(c) PROVE Basic'
  BY DEF Basic, TypeOK, HasFeature, Unlock, Goto, Steps, storeVars

LEMMA InitBasic == Init => Basic
<1>. SUFFICES ASSUME Init PROVE Basic
  OBVIOUS
<1>1. 0 \in Indices /\ 1 \in 1..5
  BY DiodeAssumption DEF Indices
<1>2. count \in 0..(CountModulus - 1)
  BY DiodeAssumption DEF Init
<1>. QED BY <1>1, <1>2, DiodeAssumption DEF Init, Basic, TypeOK, HasFeature, Steps

LEMMA NextBasic == ASSUME Basic, [Next]_vars PROVE Basic'
<1>1. CASE UNCHANGED vars
  <2>1. TypeOK'
    BY <1>1 DEF vars, storeVars, Basic, TypeOK
  <2>2. HasFeature'
    BY <1>1 DEF vars, Basic, HasFeature
  <2>. QED BY <2>1, <2>2 DEF Basic
<1>2. ASSUME NEW c \in Cards, Start(c) PROVE Basic'
  <2>1. CASE Begin(c)
    BY <2>1, BeginBasic
  <2>2. CASE Scan(c)
    BY <2>2, OccupiedBasic, VacantBasic DEF Scan
  <2>3. CASE AddSensor(c)
    BY <2>3, AddSensorBasic
  <2>4. CASE RecordSensor(c)
    BY <2>4, RecordSensorBasic
  <2>5. CASE AddAgain(c)
    BY <2>5, AddAgainBasic
  <2>6. CASE Unlock(c)
    BY <2>6, UnlockBasic
  <2>. QED BY <1>2, <2>1, <2>2, <2>3, <2>4, <2>5, <2>6 DEF Start
<1>. QED BY <1>1, <1>2 DEF Next

(* Every variable keeps its type: the loop never leaves the sixteen        *)
(* indices, and a card only registers keys it has.                         *)
THEOREM TypeCorrect == Spec => []TypeOK
<1>1. Init => Basic
  BY InitBasic
<1>2. Basic /\ [Next]_vars => Basic'
  BY NextBasic
<1>3. Basic => TypeOK
  BY DEF Basic
<1>. QED BY <1>1, <1>2, <1>3, PTL DEF Spec
--------------------------------------------------------------------------------
(* The lock changes hands only when a locking card begins or ends. *)
LEMMA LockHeldStep ==
  ASSUME Basic, LockHeld, [Next]_vars PROVE LockHeld'
<1>1. CASE UNCHANGED vars
  BY <1>1 DEF vars, LockHeld
<1>2. ASSUME NEW c \in Cards, Start(c) PROVE LockHeld'
  <2>. SUFFICES ASSUME NEW d \in Cards
                PROVE  /\ step'[d] = "unlock" => Kind[d] = "Locked"
                       /\ lockOwner' = d <=> /\ Kind[d] = "Locked"
                                             /\ step'[d] \in {"scan", "add", "record", "again", "unlock"}
    BY DEF LockHeld
  <2>0. step \in [Cards -> Steps] /\ Nobody \notin Cards
    BY DiodeAssumption DEF Basic, TypeOK
  <2>1. CASE Begin(c)
    BY <2>0, <2>1 DEF Begin, TakeLock, LockHeld, Goto
  <2>2. CASE Scan(c)
    BY <2>0, <2>2 DEF Scan, Occupied, Vacant, LockHeld, Goto
  <2>3. CASE AddSensor(c)
    BY <2>0, <2>3 DEF AddSensor, LockHeld, Goto
  <2>4. CASE RecordSensor(c)
    BY <2>0, <2>4 DEF RecordSensor, LockHeld, Goto
  <2>5. CASE AddAgain(c)
    BY <2>0, <2>5 DEF AddAgain, LockHeld, Goto
  <2>6. CASE Unlock(c)
    BY <2>0, <2>6 DEF Unlock, LockHeld, Goto
  <2>. QED BY <1>2, <2>1, <2>2, <2>3, <2>4, <2>5, <2>6 DEF Start
<1>. QED BY <1>1, <1>2 DEF Next

(* A registration by one card leaves the finds of the others that have the *)
(* lock alone: it has had to wait for the lock.                            *)
LEMMA FindsStep ==
  ASSUME DiodeInv, [Next]_vars PROVE LockedFindsAreEmpty'
<1>1. CASE UNCHANGED vars
  BY <1>1 DEF vars, storeVars, DiodeInv, LockedFindsAreEmpty, Store!Registered
<1>2. ASSUME NEW c \in Cards, Start(c) PROVE LockedFindsAreEmpty'
  <2>. SUFFICES ASSUME NEW d \in Cards, step'[d] = "add", Kind[d] = "Locked"
                PROVE  Diode(slot'[d]) \notin Store!Registered'
    BY DEF LockedFindsAreEmpty, Diode
  <2>0. step \in [Cards -> Steps] /\ slot \in [Cards -> Indices] /\ Nobody \notin Cards
    BY DiodeAssumption DEF DiodeInv, Basic, TypeOK
  <2>1. CASE Begin(c)
    BY <2>0, <2>1 DEF Begin, Goto, DiodeInv, LockedFindsAreEmpty, storeVars, Store!Registered
  <2>2. CASE Scan(c)
    <3>1. Store!Registered' = Store!Registered
      BY <2>2 DEF Scan, storeVars, Store!Registered
    <3>2. CASE d # c
      BY <2>0, <2>2, <3>1, <3>2 DEF Scan, Occupied, Vacant, Goto, DiodeInv, LockedFindsAreEmpty
    <3>3. CASE d = c
      BY <2>0, <2>2, <3>1, <3>3 DEF Scan, Occupied, Vacant, Goto
    <3>. QED BY <3>2, <3>3
  <2>3. CASE AddSensor(c)
    BY <2>0, <2>3 DEF AddSensor, StoreOpen, Goto, DiodeInv, LockHeld
  <2>4. CASE RecordSensor(c)
    <3>1. Store!Registered' = Store!Registered
      BY <2>4 DEF RecordSensor, storeVars, Store!Registered
    <3>. QED BY <2>0, <2>4, <3>1 DEF RecordSensor, Goto, DiodeInv, LockedFindsAreEmpty
  <2>5. CASE AddAgain(c)
    BY <2>0, <2>5 DEF AddAgain, StoreOpen, Goto, DiodeInv, LockHeld
  <2>6. CASE Unlock(c)
    BY <2>0, <2>6 DEF Unlock, Goto, DiodeInv, LockedFindsAreEmpty, storeVars, Store!Registered
  <2>. QED BY <1>2, <2>1, <2>2, <2>3, <2>4, <2>5, <2>6 DEF Start
<1>. QED BY <1>1, <1>2 DEF Next

THEOREM DiodeInvariant == Spec => []DiodeInv
<1>1. Init => DiodeInv
  <2>. SUFFICES ASSUME Init PROVE DiodeInv
    OBVIOUS
  <2>1. Nobody \notin Cards
    BY DiodeAssumption
  <2>2. \A c \in Cards : step[c] \in {"absent", "idle"} /\ lockOwner # c
    BY <2>1 DEF Init
  <2>3. LockHeld /\ LockedFindsAreEmpty
    BY <2>2 DEF LockHeld, LockedFindsAreEmpty
  <2>. QED BY <2>3, InitBasic DEF DiodeInv
<1>2. DiodeInv /\ [Next]_vars => DiodeInv'
  BY NextBasic, LockHeldStep, FindsStep DEF DiodeInv
<1>. QED BY <1>1, <1>2, PTL DEF Spec

(* A key that a card with the lock has found empty is empty when the card  *)
(* registers it, also against cards that do not lock.                      *)
THEOREM LockedFindsStayEmpty == Spec => []LockedFindsAreEmpty
<1>1. DiodeInv => LockedFindsAreEmpty
  BY DEF DiodeInv
<1>. QED BY <1>1, DiodeInvariant, PTL
--------------------------------------------------------------------------------
(* Machines whose cards all lock.  An index is taken by the keys there     *)
(* were at first, or by one of the cards; with an index for every card     *)
(* nobody looks at the last one in vain, whatever the order of the cards.  *)
LockingCards == {c \in Cards : Kind[c] = "Locked"}

TakenAtFirst == {i \in Indices : Diode(i) \in {Preloaded[k] : k \in 1..Len(Preloaded)}}

EnoughIndices ==
  /\ IsFiniteSet(Cards)
  /\ Cardinality(LockingCards) + Cardinality(TakenAtFirst) <= Slots

HasDiode == {c \in LockingCards : step[c] \in {"record", "again", "unlock", "done"}}

(* Every registered diode key was there at first or is a card's. *)
KeysOwned ==
  /\ \A i \in Indices :
       Diode(i) \in Store!Registered => i \in TakenAtFirst \/ \E c \in HasDiode : slot[c] = i
  /\ \A n \in KeyNames : ownerOf[n] # Nobody => n \in Store!Registered

(* What a card has registered is its own. *)
OwnDiode ==
  \A c \in LockingCards :
    /\ step[c] \in {"record", "again", "unlock", "done"} => ownerOf[Diode(slot[c])] = c
    /\ step[c] \in {"again", "unlock", "done"} =>
         numCard[c] = slot[c] /\ sensors[c][Diode(slot[c])] = slot[c]

(* A card has passed the keys below its index because they are there. *)
PassedTaken ==
  \A c \in LockingCards :
    step[c] \in {"idle", "scan"} =>
      \A i \in Indices : i < slot[c] => Diode(i) \in Store!Registered

LockingInv == LockingMachine => KeysOwned /\ OwnDiode /\ PassedTaken

SharingInv == DiodeInv /\ LockingInv

(* As long as a card is looking, there is a vacant index. *)
LEMMA SomeVacant ==
  ASSUME EnoughIndices, KeysOwned, NEW c \in LockingCards, step[c] = "scan"
  PROVE  \E i \in Indices : Diode(i) \notin Store!Registered
<1>. SUFFICES ASSUME \A i \in Indices : Diode(i) \in Store!Registered PROVE FALSE
  OBVIOUS
<1>1. /\ IsFiniteSet(LockingCards) /\ IsFiniteSet(Indices)
      /\ Cardinality(Indices) = Slots /\ Slots \in Nat
  <2>1. Slots \in Nat \ {0} /\ 0 \in Int /\ Slots - 1 \in Int /\ ~(0 > Slots - 1) /\ Slots - 1 - 0 + 1 = Slots
    BY DiodeAssumption
  <2>2. IsFiniteSet(Indices) /\ Cardinality(Indices) = Slots
    BY <2>1, FS_Interval DEF Indices
  <2>3. IsFiniteSet(LockingCards)
    BY FS_Subset DEF LockingCards, EnoughIndices
  <2>. QED BY <2>1, <2>2, <2>3
<1>2. IsFiniteSet(HasDiode) /\ Cardinality(HasDiode) < Cardinality(LockingCards)
  <2>1. HasDiode \in SUBSET (LockingCards \ {c})
    BY DEF HasDiode
  <2>2. /\ IsFiniteSet(LockingCards \ {c})
        /\ Cardinality(LockingCards \ {c}) = Cardinality(LockingCards) - 1
    BY <1>1, FS_RemoveElement
  <2>3. IsFiniteSet(HasDiode) /\ Cardinality(HasDiode) <= Cardinality(LockingCards \ {c})
    BY <2>1, <2>2, FS_Subset
  <2>4. Cardinality(LockingCards) \in Nat /\ Cardinality(HasDiode) \in Nat
    BY <1>1, <2>3, FS_CardinalityType
  <2>. QED BY <2>2, <2>3, <2>4
<1>. DEFINE later == Indices \ TakenAtFirst
            holder == [i \in later |-> CHOOSE d \in HasDiode : slot[d] = i]
<1>3. \A i \in later : holder[i] \in HasDiode /\ slot[holder[i]] = i
  BY DEF KeysOwned
<1>4. holder \in Injection(later, HasDiode)
  <2>1. holder \in [later -> HasDiode]
    BY <1>3
  <2>2. \A i, j \in later : holder[i] = holder[j] => i = j
    BY <1>3
  <2>. QED BY <2>1, <2>2 DEF Injection, IsInjective
<1>. HIDE DEF holder
<1>5. Cardinality(later) <= Cardinality(HasDiode)
  BY <1>2, <1>4, FS_Injection
<1>6. IsFiniteSet(TakenAtFirst) /\ Cardinality(later) = Slots - Cardinality(TakenAtFirst)
  <2>1. TakenAtFirst \in SUBSET Indices /\ Indices \cap TakenAtFirst = TakenAtFirst
    BY DEF TakenAtFirst
  <2>2. IsFiniteSet(TakenAtFirst)
    BY <1>1, <2>1, FS_Subset
  <2>3. Cardinality(later) = Cardinality(Indices) - Cardinality(Indices \cap TakenAtFirst)
    BY <1>1, FS_Difference
  <2>. QED BY <1>1, <2>1, <2>2, <2>3
<1>7. /\ Cardinality(TakenAtFirst) \in Nat /\ Cardinality(HasDiode) \in Nat
      /\ Cardinality(LockingCards) \in Nat
  BY <1>1, <1>2, <1>6, FS_CardinalityType
<1>. QED BY <1>1, <1>2, <1>5, <1>6, <1>7 DEF EnoughIndices

(* The key that a card is about to register is new; what it registers once *)
(* more is its own already.                                                *)
LEMMA RegistersItsOwn ==
  ASSUME SharingInv, LockingMachine, NEW c \in Cards, AddSensor(c) \/ AddAgain(c)
  PROVE  /\ c \in LockingCards /\ Diode(slot[c]) \in KeyNames
         /\ AddSensor(c) => /\ Diode(slot[c]) \notin Store!Registered
                            /\ Store!Registered' = Store!Registered \cup {Diode(slot[c])}
         /\ AddAgain(c) => Store!Registered' = Store!Registered
         /\ ownerOf' = [ownerOf EXCEPT ![Diode(slot[c])] = c]
         /\ ownerOf[Diode(slot[c])] \in {Nobody, c}
<1>1. c \in LockingCards
  BY DEF LockingMachine, LockingCards, AddSensor, AddAgain
<1>2. Diode(slot[c]) \in KeyNames
  BY KeyNameTypes DEF SharingInv, DiodeInv, Basic, TypeOK
<1>3. CASE AddSensor(c)
  <2>1. Diode(slot[c]) \notin Store!Registered
    BY <1>1, <1>3 DEF AddSensor, SharingInv, DiodeInv, LockedFindsAreEmpty, LockingCards
  <2>2. Target(c) = Diode(slot[c])
    BY <1>1 DEF Target, LockingCards
  <2>3. Store!Register(Diode(slot[c]), c)
    BY <1>3, <2>1, <2>2 DEF AddSensor, AddKeyHandler, Store!TakeOver
  <2>4. Store!Registered' = Store!Registered \cup {Diode(slot[c])}
    <3>1. table \in Seq(KeyNames) /\ table' = Append(table, Diode(slot[c]))
      BY <2>3 DEF Store!Register, SharingInv, DiodeInv, Basic, TypeOK
    <3>2. /\ Len(table) \in Nat /\ Len(table') = Len(table) + 1 /\ table'[Len(table) + 1] = Diode(slot[c])
          /\ \A k \in 1..Len(table) : table'[k] = table[k]
      BY <3>1
    <3>3. ASSUME NEW k \in 1..Len(table') PROVE table'[k] \in Store!Registered \cup {Diode(slot[c])}
      BY <3>2 DEF Store!Registered
    <3>4. ASSUME NEW k \in 1..Len(table) PROVE table[k] \in Store!Registered'
      <4>1. k \in 1..Len(table') /\ table[k] = table'[k]
        BY <3>2
      <4>. QED BY <4>1 DEF Store!Registered
    <3>5. Diode(slot[c]) \in Store!Registered'
      <4>1. Len(table) + 1 \in 1..Len(table')
        BY <3>2
      <4>. QED BY <3>2, <4>1 DEF Store!Registered
    <3>. QED BY <3>3, <3>4, <3>5 DEF Store!Registered
  <2>5. ownerOf[Diode(slot[c])] = Nobody
    BY <1>2, <2>1 DEF SharingInv, LockingInv, KeysOwned
  <2>6. ~AddAgain(c)
    BY <1>3 DEF AddSensor, AddAgain
  <2>. QED BY <1>1, <1>2, <2>1, <2>3, <2>4, <2>5, <2>6 DEF Store!Register
<1>4. CASE AddAgain(c)
  <2>1. ownerOf[Diode(slot[c])] = c /\ c # Nobody
    BY <1>1, <1>4, DiodeAssumption DEF AddAgain, SharingInv, LockingInv, OwnDiode, LockingCards
  <2>2. Diode(slot[c]) \in Store!Registered
    BY <1>2, <2>1 DEF SharingInv, LockingInv, KeysOwned
  <2>3. Store!TakeOver(Diode(slot[c]), c)
    BY <1>4, <2>2 DEF AddAgain, AddKeyHandler, Store!Register
  <2>4. Store!Registered' = Store!Registered
    BY <2>3 DEF Store!TakeOver, Store!Registered
  <2>5. ~AddSensor(c)
    BY <1>4 DEF AddSensor, AddAgain
  <2>. QED BY <1>1, <1>2, <2>1, <2>3, <2>4, <2>5 DEF Store!TakeOver
<1>. QED BY <1>3, <1>4

(* The cards that are absent stay absent. *)
LEMMA MachineConstant ==
  ASSUME Basic, NEW c \in Cards, Start(c) PROVE LockingMachine' => LockingMachine /\ c \in LockingCards
<1>0. step \in [Cards -> Steps]
  BY DEF Basic, TypeOK
<1>1. step[c] # "absent"
  BY DEF Start, Begin, Scan, AddSensor, RecordSensor, AddAgain, Unlock
<1>2. /\ step'[c] # "absent"
      /\ \A d \in Cards : d # c => step'[d] = step[d]
  <2>1. CASE Begin(c)
    BY <1>0, <2>1 DEF Begin, Goto
  <2>2. CASE Scan(c)
    BY <1>0, <1>1, <2>2 DEF Scan, Occupied, Vacant, Goto
  <2>3. CASE AddSensor(c) \/ RecordSensor(c)
    BY <1>0, <2>3 DEF AddSensor, RecordSensor, Goto
  <2>4. CASE AddAgain(c) \/ Unlock(c)
    BY <1>0, <2>4 DEF AddAgain, Unlock, Goto
  <2>. QED BY <2>1, <2>2, <2>3, <2>4 DEF Start
<1>. QED BY <1>1, <1>2 DEF LockingMachine, LockingCards

LEMMA BeginShares ==
  ASSUME SharingInv, LockingMachine, NEW c \in LockingCards, Begin(c)
  PROVE  KeysOwned' /\ OwnDiode' /\ PassedTaken'
<1>1. step \in [Cards -> Steps] /\ c \in Cards
  BY DEF SharingInv, DiodeInv, Basic, TypeOK, LockingCards
<1>2. Store!Registered' = Store!Registered /\ HasDiode' = HasDiode
      /\ UNCHANGED <<ownerOf, slot, sensors, numCard>>
  BY <1>1 DEF Begin, storeVars, Store!Registered, HasDiode, LockingCards, Goto
<1>3. KeysOwned'
  BY <1>2 DEF SharingInv, LockingInv, KeysOwned
<1>4. OwnDiode'
  BY <1>1, <1>2 DEF Begin, Goto, SharingInv, LockingInv, OwnDiode, LockingCards
<1>5. PassedTaken'
  BY <1>1, <1>2 DEF Begin, Goto, SharingInv, LockingInv, PassedTaken, LockingCards
<1>. QED BY <1>3, <1>4, <1>5

LEMMA ScanShares ==
  ASSUME EnoughIndices, SharingInv, LockingMachine, NEW c \in LockingCards, Scan(c)
  PROVE  KeysOwned' /\ OwnDiode' /\ PassedTaken'
<1>1. /\ step \in [Cards -> Steps] /\ slot \in [Cards -> Indices] /\ c \in Cards /\ Kind[c] = "Locked"
      /\ step[c] = "scan" /\ Slots \in Nat \ {0}
  BY DiodeAssumption DEF SharingInv, DiodeInv, Basic, TypeOK, LockingCards, Scan
<1>2. Store!Registered' = Store!Registered /\ UNCHANGED <<ownerOf, sensors, numCard>>
  BY DEF Scan, storeVars, Store!Registered
<1>3. KeysOwned /\ OwnDiode /\ PassedTaken
  BY DEF SharingInv, LockingInv
<1>4. CASE Diode(slot[c]) \in Store!Registered
  <2>1. \A i \in Indices : i <= slot[c] => Diode(i) \in Store!Registered
    <3>. SUFFICES ASSUME NEW i \in Indices, i <= slot[c] PROVE Diode(i) \in Store!Registered
      OBVIOUS
    <3>1. slot[c] \in Indices
      BY <1>1
    <3>2. i = slot[c] \/ i < slot[c]
      BY <3>1 DEF Indices
    <3>. QED BY <1>1, <1>3, <1>4, <3>2 DEF PassedTaken
  <2>2. PICK i \in Indices : Diode(i) \notin Store!Registered
    BY <1>1, <1>3, SomeVacant
  <2>3. slot[c] < Slots - 1
    <3>1. ~(i <= slot[c]) /\ slot[c] \in Indices
      BY <1>1, <2>1, <2>2
    <3>. QED BY <1>1, <3>1 DEF Indices
  <2>4. slot' = [slot EXCEPT ![c] = @ + 1] /\ UNCHANGED step
    BY <1>1, <1>4, <2>3 DEF Scan, Occupied, Vacant
  <2>5. HasDiode' = HasDiode /\ c \notin HasDiode
    BY <1>1, <2>4 DEF HasDiode
  <2>6. \A d \in HasDiode : slot'[d] = slot[d]
    BY <1>1, <2>4, <2>5 DEF HasDiode, LockingCards
  <2>7. KeysOwned'
    BY <1>2, <1>3, <2>5, <2>6 DEF KeysOwned
  <2>8. OwnDiode'
    <3>. SUFFICES ASSUME NEW d \in LockingCards, step'[d] \in {"record", "again", "unlock", "done"}
                  PROVE  /\ ownerOf'[Diode(slot'[d])] = d
                         /\ step'[d] \in {"again", "unlock", "done"} =>
                              numCard'[d] = slot'[d] /\ sensors'[d][Diode(slot'[d])] = slot'[d]
      BY DEF OwnDiode, Diode
    <3>1. d \in HasDiode /\ step'[d] = step[d]
      BY <2>4 DEF HasDiode
    <3>. QED BY <1>2, <1>3, <2>6, <3>1 DEF OwnDiode
  <2>9. PassedTaken'
    <3>. SUFFICES ASSUME NEW d \in LockingCards, step'[d] \in {"idle", "scan"},
                         NEW j \in Indices, j < slot'[d]
                  PROVE  Diode(j) \in Store!Registered
      BY <1>2 DEF PassedTaken, Diode
    <3>1. CASE d = c
      <4>1. slot'[d] = slot[c] + 1 /\ slot[c] \in Indices
        BY <1>1, <2>4, <3>1
      <4>2. j <= slot[c]
        BY <4>1 DEF Indices
      <4>. QED BY <2>1, <4>2
    <3>2. CASE d # c
      BY <1>1, <1>3, <2>4, <3>2 DEF PassedTaken, LockingCards
    <3>. QED BY <3>1, <3>2
  <2>. QED BY <2>7, <2>8, <2>9
<1>5. CASE Diode(slot[c]) \notin Store!Registered
  <2>1. step' = [step EXCEPT ![c] = "add"] /\ UNCHANGED slot
    BY <1>1, <1>5 DEF Scan, Occupied, Vacant, Goto
  <2>2. HasDiode' = HasDiode
    BY <1>1, <2>1 DEF HasDiode, LockingCards
  <2>3. KeysOwned'
    BY <1>2, <1>3, <2>1, <2>2 DEF KeysOwned
  <2>4. OwnDiode' /\ PassedTaken'
    BY <1>1, <1>2, <1>3, <2>1 DEF OwnDiode, PassedTaken, LockingCards
  <2>. QED BY <2>3, <2>4
<1>. QED BY <1>4, <1>5

LEMMA AddShares ==
  ASSUME SharingInv, LockingMachine, NEW c \in LockingCards, AddSensor(c) \/ AddAgain(c)
  PROVE  KeysOwned' /\ OwnDiode' /\ PassedTaken'
<1>. DEFINE n == Diode(slot[c])
<1>1. /\ step \in [Cards -> Steps] /\ slot \in [Cards -> Indices] /\ c \in Cards
      /\ ownerOf \in [KeyNames -> Cards \cup {Nobody}]
  BY DEF SharingInv, DiodeInv, Basic, TypeOK, LockingCards
<1>2. /\ n \in KeyNames /\ ownerOf' = [ownerOf EXCEPT ![n] = c] /\ ownerOf[n] \in {Nobody, c}
      /\ AddSensor(c) => Store!Registered' = Store!Registered \cup {n}
      /\ AddAgain(c) => Store!Registered' = Store!Registered
  BY <1>1, RegistersItsOwn
<1>3. KeysOwned /\ OwnDiode /\ PassedTaken
  BY DEF SharingInv, LockingInv
<1>4. /\ UNCHANGED <<slot, sensors, numCard>>
      /\ step'[c] \in {"record", "unlock", "done"} /\ step[c] \in {"add", "again"}
      /\ step'[c] # "record" => step[c] = "again"
      /\ \A d \in Cards : d # c => step'[d] = step[d]
  BY <1>1 DEF AddSensor, AddAgain, Goto
<1>5. n \in Store!Registered'
  <2>1. CASE AddSensor(c)
    BY <1>2, <2>1
  <2>2. CASE AddAgain(c)
    <3>1. ownerOf[n] = c /\ c # Nobody
      BY <1>1, <1>3, <2>2, DiodeAssumption DEF AddAgain, OwnDiode
    <3>. QED BY <1>2, <1>3, <2>2, <3>1 DEF KeysOwned
  <2>. QED BY <2>1, <2>2
<1>6. Store!Registered \subseteq Store!Registered' /\ Store!Registered' \subseteq Store!Registered \cup {n}
  BY <1>2
<1>7. HasDiode' = HasDiode \cup {c}
  BY <1>1, <1>4 DEF HasDiode, LockingCards
<1>8. KeysOwned'
  <2>1. ASSUME NEW i \in Indices, Diode(i) \in Store!Registered'
        PROVE  i \in TakenAtFirst \/ \E d \in HasDiode' : slot'[d] = i
    <3>1. CASE Diode(i) = n
      BY <1>4, <1>7, <3>1 DEF Diode
    <3>2. CASE Diode(i) # n
      BY <1>3, <1>4, <1>6, <1>7, <2>1, <3>2 DEF KeysOwned
    <3>. QED BY <3>1, <3>2
  <2>2. ASSUME NEW m \in KeyNames, ownerOf'[m] # Nobody PROVE m \in Store!Registered'
    BY <1>1, <1>2, <1>3, <1>5, <1>6, <2>2 DEF KeysOwned
  <2>. QED BY <2>1, <2>2 DEF KeysOwned, Diode
<1>9. OwnDiode'
  <2>. SUFFICES ASSUME NEW d \in LockingCards, step'[d] \in {"record", "again", "unlock", "done"}
                PROVE  /\ ownerOf'[Diode(slot[d])] = d
                       /\ step'[d] \in {"again", "unlock", "done"} =>
                            numCard[d] = slot[d] /\ sensors[d][Diode(slot[d])] = slot[d]
    BY <1>4 DEF OwnDiode, Diode
  <2>1. CASE d = c
    <3>1. ownerOf'[n] = c
      BY <1>1, <1>2
    <3>2. step'[c] # "record" => numCard[c] = slot[c] /\ sensors[c][n] = slot[c]
      BY <1>3, <1>4 DEF OwnDiode
    <3>. QED BY <2>1, <3>1, <3>2
  <2>2. CASE d # c
    <3>1. step'[d] = step[d] /\ ownerOf[Diode(slot[d])] = d /\ d # Nobody
      BY <1>3, <1>4, <2>2, DiodeAssumption DEF OwnDiode, LockingCards
    <3>2. Diode(slot[d]) # n
      BY <1>2, <2>2, <3>1
    <3>3. ownerOf'[Diode(slot[d])] = ownerOf[Diode(slot[d])]
      <4>1. Diode(slot[d]) \in KeyNames
        BY <1>1, KeyNameTypes DEF LockingCards
      <4>. QED BY <1>1, <1>2, <3>2, <4>1
    <3>. QED BY <1>3, <3>1, <3>3 DEF OwnDiode
  <2>. QED BY <2>1, <2>2
<1>10. PassedTaken'
  BY <1>3, <1>4, <1>6 DEF PassedTaken, Diode, LockingCards
<1>. QED BY <1>8, <1>9, <1>10

LEMMA RecordShares ==
  ASSUME SharingInv, LockingMachine, NEW c \in LockingCards, RecordSensor(c) \/ Unlock(c)
  PROVE  KeysOwned' /\ OwnDiode' /\ PassedTaken'
<1>. DEFINE n == Diode(slot[c])
<1>1. /\ step \in [Cards -> Steps] /\ slot \in [Cards -> Indices] /\ c \in Cards /\ Kind[c] = "Locked"
      /\ numCard \in [Cards -> Indices] /\ sensors \in [Cards -> [KeyNames -> Indices \cup {NoNumber}]]
      /\ n \in KeyNames
  BY KeyNameTypes DEF SharingInv, DiodeInv, Basic, TypeOK, LockingCards
<1>2. Store!Registered' = Store!Registered /\ UNCHANGED <<ownerOf, slot>>
  BY DEF RecordSensor, Unlock, storeVars, Store!Registered
<1>3. KeysOwned /\ OwnDiode /\ PassedTaken
  BY DEF SharingInv, LockingInv
<1>4. /\ step[c] \in {"record", "unlock"} /\ step'[c] \in {"again", "done"}
      /\ \A d \in Cards : d # c => step'[d] = step[d]
  BY <1>1 DEF RecordSensor, Unlock, Goto
<1>5. HasDiode' = HasDiode
  BY <1>1, <1>4 DEF HasDiode, LockingCards
<1>6. KeysOwned'
  BY <1>2, <1>3, <1>5 DEF KeysOwned
<1>7. numCard'[c] = slot[c] /\ sensors'[c][n] = slot[c]
  <2>1. CASE RecordSensor(c)
    <3>1. Target(c) = n
      BY <1>1 DEF Target
    <3>2. numCard' = [numCard EXCEPT ![c] = slot[c]] /\ sensors' = [sensors EXCEPT ![c][n] = slot[c]]
      BY <1>1, <2>1, <3>1 DEF RecordSensor
    <3>. QED BY <1>1, <3>2
  <2>2. CASE Unlock(c)
    BY <1>3, <2>2 DEF Unlock, OwnDiode
  <2>. QED BY <2>1, <2>2
<1>8. \A d \in Cards : d # c => numCard'[d] = numCard[d] /\ sensors'[d] = sensors[d]
  BY <1>1 DEF RecordSensor, Unlock
<1>9. OwnDiode'
  <2>. SUFFICES ASSUME NEW d \in LockingCards, step'[d] \in {"record", "again", "unlock", "done"}
                PROVE  /\ ownerOf[Diode(slot[d])] = d
                       /\ step'[d] \in {"again", "unlock", "done"} =>
                            numCard'[d] = slot[d] /\ sensors'[d][Diode(slot[d])] = slot[d]
    BY <1>2 DEF OwnDiode, Diode
  <2>1. CASE d = c
    BY <1>3, <1>4, <1>7, <2>1 DEF OwnDiode
  <2>2. CASE d # c
    BY <1>3, <1>4, <1>8, <2>2 DEF OwnDiode, LockingCards
  <2>. QED BY <2>1, <2>2
<1>10. PassedTaken'
  BY <1>2, <1>3, <1>4 DEF PassedTaken, Diode, LockingCards
<1>. QED BY <1>6, <1>9, <1>10

LEMMA SharingStep == ASSUME EnoughIndices, SharingInv, [Next]_vars PROVE SharingInv'
<1>1. DiodeInv'
  BY NextBasic, LockHeldStep, FindsStep DEF SharingInv, DiodeInv
<1>2. CASE UNCHANGED vars
  <2>1. UNCHANGED <<table, ownerOf, step, slot, sensors, numCard>>
    BY <1>2 DEF vars, storeVars
  <2>2. Store!Registered' = Store!Registered /\ HasDiode' = HasDiode /\ (LockingMachine' <=> LockingMachine)
    BY <2>1 DEF Store!Registered, HasDiode, LockingMachine
  <2>3. LockingInv'
    BY <2>1, <2>2 DEF SharingInv, LockingInv, KeysOwned, OwnDiode, PassedTaken
  <2>. QED BY <1>1, <2>3 DEF SharingInv
<1>3. ASSUME NEW c \in Cards, Start(c) PROVE SharingInv'
  <2>. SUFFICES ASSUME LockingMachine' PROVE KeysOwned' /\ OwnDiode' /\ PassedTaken'
    BY <1>1 DEF SharingInv, LockingInv
  <2>1. LockingMachine /\ c \in LockingCards
    BY <1>3, MachineConstant DEF SharingInv, DiodeInv
  <2>2. CASE Begin(c)
    BY <2>1, <2>2, BeginShares
  <2>3. CASE Scan(c)
    BY <2>1, <2>3, ScanShares
  <2>4. CASE AddSensor(c) \/ AddAgain(c)
    BY <2>1, <2>4, AddShares
  <2>5. CASE RecordSensor(c) \/ Unlock(c)
    BY <2>1, <2>5, RecordShares
  <2>. QED BY <1>3, <2>2, <2>3, <2>4, <2>5 DEF Start
<1>. QED BY <1>2, <1>3 DEF Next

LEMMA SharingInit == Init => LockingInv
<1>. SUFFICES ASSUME Init PROVE KeysOwned /\ OwnDiode /\ PassedTaken
  BY DEF LockingInv
<1>1. \A c \in Cards : step[c] \in {"absent", "idle"} /\ slot[c] = 0
  BY DEF Init
<1>2. KeysOwned
  BY DEF Init, KeysOwned, TakenAtFirst, Store!Registered
<1>3. OwnDiode
  BY <1>1 DEF OwnDiode, LockingCards
<1>4. PassedTaken
  BY <1>1 DEF PassedTaken, LockingCards, Indices
<1>. QED BY <1>2, <1>3, <1>4

LEMMA SharingHolds == ASSUME EnoughIndices PROVE Spec => []SharingInv
<1>1. Spec => []DiodeInv
  BY DiodeInvariant
<1>2. DiodeInv /\ Init => SharingInv
  BY SharingInit DEF SharingInv
<1>3. SharingInv /\ [Next]_vars => SharingInv'
  BY SharingStep
<1>. QED BY <1>1, <1>2, <1>3, PTL DEF Spec

(* Where every card locks and there is an index for each of them, all      *)
(* cards that have started answer for a key of their own, with the index   *)
(* they have recorded for it.                                              *)
THEOREM StartedAnswer == ASSUME EnoughIndices PROVE Spec => []StartedCardsAnswer
<1>1. SharingInv => StartedCardsAnswer
  <2>. SUFFICES ASSUME SharingInv, LockingMachine, NEW c \in Cards, step[c] = "done"
                PROVE  /\ ownerOf[Diode(numCard[c])] = c
                       /\ sensors[c][Diode(numCard[c])] = numCard[c]
    BY DEF StartedCardsAnswer
  <2>1. c \in LockingCards
    BY DEF LockingMachine, LockingCards
  <2>. QED BY <2>1 DEF SharingInv, LockingInv, OwnDiode
<1>. QED BY <1>1, SharingHolds, PTL

(* Where every card locks and there is an index for each of them, no card  *)
(* takes the key of another.                                               *)
THEOREM DiodesStay == ASSUME EnoughIndices PROVE Spec => DiodesKept
<1>1. ASSUME SharingInv, [Next]_vars
      PROVE  LockingMachine => \A n \in KeyNames : ownerOf[n] # Nobody => ownerOf'[n] = ownerOf[n]
  <2>. SUFFICES ASSUME LockingMachine, NEW n \in KeyNames, ownerOf[n] # Nobody
                PROVE  ownerOf'[n] = ownerOf[n]
    OBVIOUS
  <2>1. CASE UNCHANGED ownerOf
    BY <2>1
  <2>2. ASSUME NEW c \in Cards, AddSensor(c) \/ AddAgain(c) PROVE ownerOf'[n] = ownerOf[n]
    <3>1. ownerOf' = [ownerOf EXCEPT ![Diode(slot[c])] = c] /\ ownerOf[Diode(slot[c])] \in {Nobody, c}
      BY <1>1, <2>2, RegistersItsOwn
    <3>2. ownerOf \in [KeyNames -> Cards \cup {Nobody}]
      BY <1>1 DEF SharingInv, DiodeInv, Basic, TypeOK
    <3>. QED BY <3>1, <3>2
  <2>3. UNCHANGED ownerOf \/ \E c \in Cards : AddSensor(c) \/ AddAgain(c)
    BY <1>1 DEF Next, Start, Begin, Scan, RecordSensor, Unlock, vars, storeVars
  <2>. QED BY <2>1, <2>2, <2>3
<1>2. Spec => []SharingInv
  BY SharingHolds
<1>. QED BY <1>1, <1>2, PTL DEF Spec, DiodesKept
===============================================================================
