------------------------- MODULE FanAllocation_proofs -------------------------
(***************************************************************************)
(* Proofs about FanAllocation, for any number of plug-ins of any kind and  *)
(* any number of fans that FNum can count.                                 *)
(***************************************************************************)
EXTENDS FanAllocation, FiniteSetTheorems, SequenceTheorems, TLAPS

(* Names that are cut still tell the indices, and the speed keys from the  *)
(* others.                                                                 *)
LEMMA NameIsKey ==
  ASSUME NEW k \in {"Ac", "ID", "Mn", "Mx"}, NEW i \in Indices
  PROVE  Name(k, i) \in FanKeys /\ Name(k, i) \in KeyNames
  BY DEF FanKeys, KeyNames

LEMMA NameInjective ==
  ASSUME NEW i \in Indices, NEW j \in Indices,
         Name("Ac", i) = Name("Ac", j)
  PROVE  i = j
  BY DEF Name, Cut

LEMMA OtherNames ==
  ASSUME NEW i \in Indices, NEW j \in Indices, NEW k \in {"ID", "Mn", "Mx"}
  PROVE  Name("Ac", i) # Name(k, j)
  BY DEF Name, Cut

LEMMA RegisteredAfterAppend ==
  ASSUME NEW n \in KeyNames, table \in Seq(KeyNames), table' = Append(table, n)
  PROVE  table' \in Seq(KeyNames) /\ Store!Registered' = Store!Registered \cup {n}
<1>1. table' \in Seq(KeyNames) /\ Len(table') = Len(table) + 1 /\ Len(table) \in Nat
  OBVIOUS
<1>2. /\ \A i \in 1..Len(table) : table'[i] = table[i]
      /\ table'[Len(table) + 1] = n
  OBVIOUS
<1>3. Store!Registered' \subseteq Store!Registered \cup {n}
  <2>. SUFFICES ASSUME NEW i \in 1..Len(table') PROVE table'[i] \in Store!Registered \cup {n}
    BY DEF Store!Registered
  <2>1. CASE i \in 1..Len(table)
    BY <1>2, <2>1 DEF Store!Registered
  <2>2. CASE i = Len(table) + 1
    BY <1>2, <2>2
  <2>. QED BY <1>1, <2>1, <2>2
<1>4. Store!Registered \subseteq Store!Registered'
  <2>. SUFFICES ASSUME NEW i \in 1..Len(table) PROVE table[i] \in Store!Registered'
    BY DEF Store!Registered
  <2>1. i \in 1..Len(table') /\ table'[i] = table[i]
    BY <1>1, <1>2
  <2>. QED BY <2>1 DEF Store!Registered
<1>5. n \in Store!Registered'
  <2>1. Len(table) + 1 \in 1..Len(table')
    BY <1>1
  <2>. QED BY <1>2, <2>1 DEF Store!Registered
<1>. QED BY <1>1, <1>3, <1>4, <1>5

LEMMA CountType == \A n \in Nat : n % CountModulus \in 0..(CountModulus - 1)
  BY FanAssumption

(* What the two operations of the store do to the registered keys.         *)
LEMMA HandlerAdded ==
  ASSUME TypeOK, NEW n \in KeyNames, NEW p \in Plugins, AddKeyHandler(n, p)
  PROVE  /\ table' \in Seq(KeyNames)
         /\ count' \in 0..(CountModulus - 1)
         /\ ownerOf' = [ownerOf EXCEPT ![n] = p]
         /\ Store!Registered' = Store!Registered \cup {n}
<1>1. CASE Store!Register(n, p)
  <2>1. /\ table' \in Seq(KeyNames)
        /\ Store!Registered' = Store!Registered \cup {n}
    BY <1>1, RegisteredAfterAppend DEF TypeOK, Store!Register
  <2>2. Len(table') \in Nat
    BY <2>1
  <2>. QED BY <1>1, <2>1, <2>2, CountType DEF Store!Register
<1>2. CASE Store!TakeOver(n, p)
  BY <1>2 DEF TypeOK, Store!TakeOver, Store!Registered
<1>. QED BY <1>1, <1>2 DEF AddKeyHandler

LEMMA LabelAdded ==
  ASSUME TypeOK, NEW i \in Indices, NEW f \in Inputs, AddLabel(i, f)
  PROVE  /\ table' \in Seq(KeyNames)
         /\ count' \in 0..(CountModulus - 1)
         /\ ownerOf' \in [KeyNames -> Plugins \cup {Nobody}]
         /\ label' = [label EXCEPT ![i] = f]
         /\ label' \in [Indices -> Inputs \cup {NoInput}]
         /\ \A j \in Indices : /\ Registered(j)' <=> Registered(j)
                               /\ Owner(j)' = Owner(j)
<1>. DEFINE n == Name("ID", i)
<1>1. n \in KeyNames /\ \A j \in Indices : Name("Ac", j) # n /\ Name("Ac", j) \in KeyNames
  BY NameIsKey, OtherNames
<1>2. CASE n \in Store!Registered
  BY <1>2, SMTT(30) DEF AddLabel, storeVars, TypeOK, Registered, Owner, Store!Registered
<1>3. CASE n \notin Store!Registered
  <2>1. Store!Register(n, Nobody) /\ label' = [label EXCEPT ![i] = f]
    BY <1>3 DEF AddLabel
  <2>2. /\ table' \in Seq(KeyNames)
        /\ Store!Registered' = Store!Registered \cup {n}
    BY <1>1, <2>1, RegisteredAfterAppend DEF TypeOK, Store!Register
  <2>3. Len(table') \in Nat
    BY <2>2
  <2>4. /\ count' = Len(table') % CountModulus
        /\ ownerOf' = [ownerOf EXCEPT ![n] = Nobody]
    BY <2>1 DEF Store!Register
  <2>5. \A j \in Indices : (Registered(j)' <=> Registered(j)) /\ Owner(j)' = Owner(j)
    BY <1>1, <2>2, <2>4 DEF Registered, Owner, TypeOK
  <2>. QED BY <2>1, <2>2, <2>3, <2>4, <2>5, CountType DEF TypeOK
<1>. QED BY <1>2, <1>3
--------------------------------------------------------------------------------
LEMMA InputsFinite ==
  /\ IsFiniteSet(Inputs)
  /\ Cardinality(Inputs) \in Nat
  /\ ByteValues \in Nat \ {0}
  BY FanAssumption, FS_CardinalityType

LEMMA InitType == Init => TypeOK
<1>. SUFFICES ASSUME Init PROVE TypeOK
  OBVIOUS
<1>1. 0 \in Indices
  BY InputsFinite DEF Indices
<1>2. Preloaded \in Seq(KeyNames) /\ Len(Preloaded) \in Nat
  BY FanAssumption
<1>3. count \in 0..(CountModulus - 1)
  BY <1>2, CountType DEF Init
<1>4. measured \in [Plugins -> Seq(Inputs)]
  BY DEF Init
<1>. QED BY <1>1, <1>2, <1>3, <1>4 DEF Init, TypeOK, Steps

LEMMA LockStorageType ==
  ASSUME TypeOK, NEW p \in Plugins, LockStorage(p) PROVE TypeOK'
<1>1. PICK f \in todo : /\ todo' = todo \ {f}
                        /\ input' = [input EXCEPT ![p] = f]
                        /\ measured' = IF Kind[p] = "Andigilog"
                                       THEN [measured EXCEPT ![p] = Append(@, f)]
                                       ELSE measured
  BY DEF LockStorage
<1>2. measured' \in [Plugins -> Seq(Inputs)]
  BY <1>1 DEF TypeOK
<1>. QED BY <1>1, <1>2 DEF LockStorage, TypeOK, Goto, Steps, LockedSteps, storeVars

LEMMA StartedInput ==
  ASSUME TypeOK, LockInv, NEW p \in Plugins, step[p] # "idle"
  PROVE  input[p] \in Inputs
  BY DEF LockInv

LEMMA AddTachometerType ==
  ASSUME TypeOK, LockInv, NEW p \in Plugins, AddTachometer(p) \/ LateLabel(p)
  PROVE  TypeOK'
<1>1. CASE GetCount(p)
  BY <1>1 DEF GetCount, TypeOK, Goto, Steps, LockedSteps, storeVars
<1>2. CASE RecordSensor(p)
  <2>1. input[p] \in Inputs /\ index[p] \in Indices /\ sensors[p] \in [Indices -> Inputs \cup {NoInput}]
    BY <1>2, StartedInput DEF RecordSensor, TypeOK
  <2>2. CASE Kind[p] = "SuperIO" /\ sensors[p][index[p]] # NoInput
    BY <1>2, <2>2 DEF RecordSensor, TypeOK, Goto, Steps, LockedSteps, storeVars
  <2>3. CASE ~(Kind[p] = "SuperIO" /\ sensors[p][index[p]] # NoInput)
    <3>1. sensors' = [sensors EXCEPT ![p] = [sensors[p] EXCEPT ![index[p]] = input[p]]]
      BY <1>2, <2>3 DEF RecordSensor
    <3>2. sensors' \in [Plugins -> [Indices -> Inputs \cup {NoInput}]]
      BY <2>1, <3>1 DEF TypeOK
    <3>. QED BY <1>2, <2>3, <3>2 DEF RecordSensor, TypeOK, Goto, Steps, LockedSteps, storeVars
  <2>. QED BY <2>2, <2>3
<1>3. CASE RegisterSpeed(p)
  <2>1. Name("Ac", index[p]) \in KeyNames
    BY NameIsKey DEF TypeOK
  <2>2. /\ table' \in Seq(KeyNames)
        /\ count' \in 0..(CountModulus - 1)
        /\ ownerOf' = [ownerOf EXCEPT ![Name("Ac", index[p])] = p]
    BY <1>3, <2>1, HandlerAdded DEF RegisterSpeed
  <2>. QED BY <1>3, <2>1, <2>2 DEF RegisterSpeed, TypeOK, Goto, Steps, LockedSteps
<1>4. CASE Label(p)
  <2>1. input[p] \in Inputs /\ index[p] \in Indices
    BY <1>4, StartedInput DEF Label, TypeOK
  <2>2. /\ table' \in Seq(KeyNames)
        /\ count' \in 0..(CountModulus - 1)
        /\ ownerOf' \in [KeyNames -> Plugins \cup {Nobody}]
        /\ label' \in [Indices -> Inputs \cup {NoInput}]
    <3>1. CASE AddLabel(index[p], input[p])
      BY <2>1, <3>1, LabelAdded
    <3>2. CASE UNCHANGED <<storeVars, label>>
      BY <3>2 DEF TypeOK, storeVars
    <3>. QED BY <1>4, <3>1, <3>2 DEF Label
  <2>3. fanOffset' \in [Plugins -> Indices \cup {-1}]
    <3>1. FirstFan(p) \/ UNCHANGED fanOffset
      BY <1>4 DEF Label
    <3>2. index[p] \in Indices /\ fanOffset \in [Plugins -> Indices \cup {-1}]
      BY DEF TypeOK
    <3>. QED BY <3>1, <3>2 DEF FirstFan
  <2>. QED BY <1>4, <2>2, <2>3 DEF Label, TypeOK, Goto, Steps, LockedSteps
<1>5. CASE SetCount(p)
  <2>1. index[p] + 1 \in Nat
    BY DEF TypeOK, Indices
  <2>2. fnum' \in Indices
    BY <1>5, <2>1, InputsFinite DEF SetCount, Indices
  <2>. QED BY <1>5, <2>2 DEF SetCount, TypeOK, Goto, Steps, LockedSteps, storeVars
<1>6. CASE RegisterLimits(p)
  <2>1. PICK k \in {"Mn", "Mx"} : AddKeyHandler(Name(k, index[p]), p)
    BY <1>6 DEF RegisterLimits
  <2>2. Name(k, index[p]) \in KeyNames
    BY NameIsKey DEF TypeOK
  <2>3. /\ table' \in Seq(KeyNames)
        /\ count' \in 0..(CountModulus - 1)
        /\ ownerOf' = [ownerOf EXCEPT ![Name(k, index[p])] = p]
    BY <2>1, <2>2, HandlerAdded
  <2>4. step' \in [Plugins -> Steps]
    BY <1>6 DEF RegisterLimits, TypeOK, Goto, Steps, LockedSteps
  <2>5. UNCHANGED <<fnum, label, lockOwner, todo, input, index, sensors, measured, fanOffset>>
    BY <1>6 DEF RegisterLimits
  <2>. QED BY <2>2, <2>3, <2>4, <2>5 DEF TypeOK
<1>7. CASE UnlockStorage(p)
  BY <1>7 DEF UnlockStorage, TypeOK, Goto, Steps, LockedSteps, storeVars
<1>8. CASE LateLabel(p)
  <2>1. input[p] \in Inputs /\ index[p] \in Indices
    BY <1>8, StartedInput DEF LateLabel, TypeOK
  <2>2. /\ table' \in Seq(KeyNames)
        /\ count' \in 0..(CountModulus - 1)
        /\ ownerOf' \in [KeyNames -> Plugins \cup {Nobody}]
        /\ label' \in [Indices -> Inputs \cup {NoInput}]
    BY <1>8, <2>1, LabelAdded DEF LateLabel
  <2>. QED BY <1>8, <2>2 DEF LateLabel, TypeOK, Goto, Steps, LockedSteps
<1>. QED BY <1>1, <1>2, <1>3, <1>4, <1>5, <1>6, <1>7, <1>8 DEF AddTachometer
--------------------------------------------------------------------------------
Good == TypeOK /\ FanInv

LEMMA InitGood == Init => Good
<1>. SUFFICES ASSUME Init PROVE Good
  OBVIOUS
<1>1. TypeOK
  BY InitType
<1>2. \A i \in Indices : ~Registered(i) /\ Owner(i) = Nobody
  <2>. SUFFICES ASSUME NEW i \in Indices PROVE ~Registered(i) /\ Owner(i) = Nobody
    OBVIOUS
  <2>1. Name("Ac", i) \in FanKeys /\ Name("Ac", i) \in KeyNames
    BY NameIsKey
  <2>2. Name("Ac", i) \notin Store!Registered
    BY <2>1, FanAssumption DEF Init, Store!Registered
  <2>. QED BY <2>1, <2>2 DEF Init, Registered, Owner
<1>3. LockInv
  BY FanAssumption DEF Init, LockInv, LockedSteps, Uncounted, Counted
<1>4. KeyInv
  BY <1>2 DEF Init, KeyInv, Keyed, Counted, Indices
<1>5. SensorInv
  BY DEF Init, SensorInv, Recorded, Counted
<1>6. CountInv
  <2>1. Settled = {}
    BY DEF Init, Settled
  <2>2. {Behind(i) : i \in 0..(fnum - 1)} = {}
    BY DEF Init
  <2>. QED BY <2>1, <2>2, FS_EmptySet DEF CountInv, Init
<1>7. LabelsFit
  BY DEF Init, LabelsFit
<1>. QED BY <1>1, <1>3, <1>4, <1>5, <1>6, <1>7 DEF Good, FanInv

(* The storage is locked by at most one plug-in. *)
LEMMA OneInside ==
  ASSUME LockInv, NEW p \in Plugins, NEW q \in Plugins,
         step[p] \in LockedSteps, step[q] \in LockedSteps
  PROVE  p = q
  BY DEF LockInv

(* While a fan is being registered, FNum has room for it. *)
LEMMA RoomForOne ==
  ASSUME Good, NEW p \in Plugins, Uncounted(p)
  PROVE  /\ input[p] \in Inputs \ Settled
         /\ Cardinality(Settled \cup {input[p]}) = fnum + 1
         /\ fnum + 1 \in Indices
         /\ fnum \in Nat /\ (fnum + 1) % ByteValues = fnum + 1
<1>1. input[p] \in Inputs \ Settled
  BY DEF Good, FanInv, LockInv, Uncounted, Settled
<1>2. Settled \subseteq Inputs /\ IsFiniteSet(Settled)
  BY FS_Subset, InputsFinite DEF Settled
<1>3. Cardinality(Settled \cup {input[p]}) = fnum + 1
  BY <1>1, <1>2, FS_AddElement DEF Good, FanInv, CountInv
<1>4. Settled \cup {input[p]} \subseteq Inputs
  BY <1>1, <1>2
<1>5. fnum + 1 <= Cardinality(Inputs)
  BY <1>3, <1>4, FS_Subset, InputsFinite
<1>6. fnum \in Nat
  BY DEF Good, TypeOK, Indices
<1>7. fnum + 1 \in Indices
  BY <1>5, <1>6, FanAssumption, InputsFinite DEF Indices
<1>8. (fnum + 1) % ByteValues = fnum + 1
  BY <1>7, InputsFinite DEF Indices
<1>. QED BY <1>1, <1>3, <1>6, <1>7, <1>8

LEMMA CountedIndices == TypeOK => 0..(fnum - 1) \subseteq Indices
  BY InputsFinite DEF TypeOK, Indices

(* Steps that leave keys, sensors and FNum alone, may write a caption that *)
(* fits, and move the plug-in on.                                          *)
LEMMA QuietStep ==
  ASSUME Good, TypeOK', LockInv', Settled' = Settled,
         NEW p \in Plugins, NEW s \in Steps, Goto(p, s),
         UNCHANGED <<fnum, sensors>>,
         \A i \in Indices : label'[i] \in {label[i], Behind(i)},
         \A i \in Indices : (Registered(i)' <=> Registered(i)) /\ Owner(i)' = Owner(i),
         \A q \in Plugins \ {p} : index'[q] = index[q] /\ input'[q] = input[q],
         Keyed(p)' <=> Keyed(p), Recorded(p)' <=> Recorded(p),
         Counted(p)' => Counted(p),
         Keyed(p) \/ Recorded(p) \/ Counted(p) => index'[p] = index[p] /\ input'[p] = input[p]
  PROVE  Good'
<1>1. \A q \in Plugins \ {p} : /\ Keyed(q)' <=> Keyed(q)
                               /\ Recorded(q)' <=> Recorded(q)
                               /\ Counted(q)' <=> Counted(q)
  BY DEF Good, TypeOK, Goto, Keyed, Recorded, Counted
<1>2. \A q \in Plugins : /\ Keyed(q)' <=> Keyed(q)
                         /\ Recorded(q)' <=> Recorded(q)
                         /\ Counted(q)' => Counted(q)
                         /\ Keyed(q) \/ Recorded(q) \/ Counted(q) =>
                              index'[q] = index[q] /\ input'[q] = input[q]
  BY <1>1
<1>3. \A q \in Plugins : index[q] \in Indices /\ index'[q] \in Indices
  BY DEF Good, TypeOK
<1>4. KeyInv'
  BY <1>2, <1>3 DEF Good, FanInv, KeyInv
<1>5. SensorInv'
  BY <1>2, <1>3 DEF Good, FanInv, SensorInv
<1>6. \A i \in Indices : Behind(i)' = Behind(i)
  BY DEF Behind
<1>7. 0..(fnum - 1) \subseteq Indices
  BY CountedIndices DEF Good
<1>8. {Behind(i) : i \in 0..(fnum - 1)}' = {Behind(i) : i \in 0..(fnum - 1)}
  BY <1>6, <1>7
<1>9. CountInv'
  BY <1>8 DEF Good, FanInv, CountInv
<1>10. LabelsFit'
  BY <1>6 DEF Good, FanInv, LabelsFit
<1>. QED BY <1>4, <1>5, <1>9, <1>10 DEF Good, FanInv

LEMMA LockStorageGood ==
  ASSUME Good, NEW p \in Plugins, LockStorage(p) PROVE Good'
<1>1. PICK f \in todo : /\ PluginOf[f] = p
                        /\ todo' = todo \ {f}
                        /\ input' = [input EXCEPT ![p] = f]
  BY DEF LockStorage
<1>2. /\ step[p] = "idle" /\ lockOwner = Nobody /\ lockOwner' = p
      /\ step' = [step EXCEPT ![p] = "count"]
      /\ UNCHANGED <<table, ownerOf, count, fnum, label, index, sensors, fanOffset>>
  BY DEF LockStorage, LockAvailable, Goto, storeVars
<1>3. TypeOK'
  BY LockStorageType DEF Good
<1>4. \A q \in Plugins : step[q] \in {"idle", "lateLabel"}
  BY <1>2, FanAssumption DEF Good, TypeOK, FanInv, LockInv, Steps
<1>5. LockInv'
  <2>. SUFFICES ASSUME NEW q \in Plugins
                PROVE /\ step'[q] \in LockedSteps <=> lockOwner' = q
                      /\ step'[q] # "idle" => input'[q] \in Inputs \ todo' /\ PluginOf[input'[q]] = q
                      /\ Uncounted(q)' /\ step'[q] # "count" => index'[q] = fnum'
                      /\ Counted(q)' => index'[q] < fnum'
    BY DEF LockInv
  <2>1. CASE q = p
    BY <1>1, <1>2, <2>1 DEF Good, TypeOK, LockedSteps, Uncounted, Counted
  <2>2. CASE q # p
    BY <1>1, <1>2, <1>4, <2>2 DEF Good, TypeOK, FanInv, LockInv, LockedSteps, Uncounted, Counted
  <2>. QED BY <2>1, <2>2
<1>6. Settled' = Settled
  <2>1. Settled = Inputs \ todo
    BY <1>4 DEF Settled, Uncounted
  <2>2. \A q \in Plugins : Uncounted(q)' <=> q = p
    BY <1>2, <1>4 DEF Good, TypeOK, Uncounted
  <2>3. input'[p] = f /\ f \in Inputs
    BY <1>1 DEF Good, TypeOK
  <2>4. Settled' = {g \in Inputs \ todo' : g # f}
    BY <2>2, <2>3 DEF Settled
  <2>. QED BY <1>1, <2>1, <2>4
<1>7. \A i \in Indices : (Registered(i)' <=> Registered(i)) /\ Owner(i)' = Owner(i)
  BY <1>2 DEF Registered, Owner, Store!Registered
<1>8. /\ ~Keyed(p) /\ ~Recorded(p) /\ ~Counted(p)
      /\ ~Keyed(p)' /\ ~Recorded(p)' /\ ~Counted(p)'
  BY <1>2 DEF Good, TypeOK, Keyed, Recorded, Counted
<1>9. \A q \in Plugins \ {p} : index'[q] = index[q] /\ input'[q] = input[q]
  BY <1>1, <1>2 DEF Good, TypeOK
<1>. QED BY <1>2, <1>3, <1>5, <1>6, <1>7, <1>8, <1>9, QuietStep DEF Goto, Steps, LockedSteps

LEMMA GetCountGood ==
  ASSUME Good, TypeOK', NEW p \in Plugins, GetCount(p) PROVE Good'
<1>. DEFINE s == IF Kind[p] = "SuperIO" THEN "record" ELSE "register"
<1>1. /\ step[p] = "count" /\ step' = [step EXCEPT ![p] = s]
      /\ index' = [index EXCEPT ![p] = fnum]
      /\ UNCHANGED <<table, ownerOf, count, fnum, label, lockOwner, todo, input, sensors>>
  BY DEF GetCount, Goto, storeVars
<1>2. \A q \in Plugins \ {p} : step'[q] = step[q] /\ index'[q] = index[q] /\ input'[q] = input[q]
  BY <1>1 DEF Good, TypeOK
<1>3. step'[p] = s /\ index'[p] = fnum
  BY <1>1 DEF Good, TypeOK
<1>4. LockInv'
  BY <1>1, <1>2, <1>3 DEF Good, FanInv, LockInv, LockedSteps, Uncounted, Counted
<1>5. \A q \in Plugins : Uncounted(q)' <=> Uncounted(q)
  BY <1>1, <1>2, <1>3 DEF Uncounted
<1>6. Settled' = Settled
  BY <1>1, <1>5 DEF Settled
<1>7. \A i \in Indices : (Registered(i)' <=> Registered(i)) /\ Owner(i)' = Owner(i)
  BY <1>1 DEF Registered, Owner, Store!Registered
<1>8. /\ ~Keyed(p) /\ ~Recorded(p) /\ ~Counted(p)
      /\ ~Keyed(p)' /\ ~Recorded(p)' /\ ~Counted(p)'
  BY <1>1, <1>3 DEF Keyed, Recorded, Counted
<1>9. s \in Steps
  BY DEF Steps, LockedSteps
<1>. QED BY <1>1, <1>2, <1>4, <1>6, <1>7, <1>8, <1>9, QuietStep DEF Goto

LEMMA UnlockStorageGood ==
  ASSUME Good, TypeOK', NEW p \in Plugins, UnlockStorage(p) PROVE Good'
<1>. DEFINE s == IF Kind[p] = "NVClock" THEN "lateLabel" ELSE "idle"
<1>1. /\ step[p] = "unlock" /\ step' = [step EXCEPT ![p] = s] /\ lockOwner' = Nobody
      /\ UNCHANGED <<table, ownerOf, count, fnum, label, todo, input, index, sensors>>
  BY DEF UnlockStorage, Goto, storeVars
<1>2. \A q \in Plugins \ {p} : step'[q] = step[q]
  BY <1>1 DEF Good, TypeOK
<1>3. step'[p] = s
  BY <1>1 DEF Good, TypeOK
<1>4. LockInv'
  BY <1>1, <1>2, <1>3, FanAssumption DEF Good, FanInv, LockInv, LockedSteps, Uncounted, Counted
<1>5. \A q \in Plugins : Uncounted(q)' <=> Uncounted(q)
  BY <1>1, <1>2, <1>3 DEF Uncounted
<1>6. Settled' = Settled
  BY <1>1, <1>5 DEF Settled
<1>7. \A i \in Indices : (Registered(i)' <=> Registered(i)) /\ Owner(i)' = Owner(i)
  BY <1>1 DEF Registered, Owner, Store!Registered
<1>8. /\ ~Keyed(p) /\ ~Recorded(p) /\ Counted(p)
      /\ ~Keyed(p)' /\ ~Recorded(p)'
  BY <1>1, <1>3 DEF Keyed, Recorded, Counted
<1>9. s \in Steps
  BY DEF Steps, LockedSteps
<1>. QED BY <1>1, <1>2, <1>4, <1>6, <1>7, <1>8, <1>9, QuietStep DEF Goto

LEMMA RegisterLimitsGood ==
  ASSUME Good, TypeOK', NEW p \in Plugins, RegisterLimits(p) PROVE Good'
<1>1. PICK k \in {"Mn", "Mx"}, s \in {"maximum", "unlock"} :
        AddKeyHandler(Name(k, index[p]), p) /\ Goto(p, s)
  BY DEF RegisterLimits
<1>2. /\ step[p] \in {"minimum", "maximum"} /\ step' = [step EXCEPT ![p] = s]
      /\ UNCHANGED <<fnum, label, lockOwner, todo, input, index, sensors>>
  BY <1>1 DEF RegisterLimits, Goto
<1>3. \A q \in Plugins \ {p} : step'[q] = step[q]
  BY <1>2 DEF Good, TypeOK
<1>4. step'[p] = s
  BY <1>2 DEF Good, TypeOK
<1>5. LockInv'
  BY <1>2, <1>3, <1>4 DEF Good, FanInv, LockInv, LockedSteps, Uncounted, Counted
<1>6. \A q \in Plugins : Uncounted(q)' <=> Uncounted(q)
  BY <1>2, <1>3, <1>4 DEF Uncounted
<1>7. Settled' = Settled
  BY <1>2, <1>6 DEF Settled
<1>8. index[p] \in Indices
  BY DEF Good, TypeOK
<1>9. /\ ownerOf' = [ownerOf EXCEPT ![Name(k, index[p])] = p]
      /\ Store!Registered' = Store!Registered \cup {Name(k, index[p])}
  BY <1>1, <1>8, NameIsKey, HandlerAdded DEF Good
<1>10. \A i \in Indices : Name("Ac", i) # Name(k, index[p]) /\ Name("Ac", i) \in KeyNames
  BY <1>8, NameIsKey, OtherNames
<1>11. \A i \in Indices : (Registered(i)' <=> Registered(i)) /\ Owner(i)' = Owner(i)
  BY <1>9, <1>10 DEF Registered, Owner, Good, TypeOK
<1>12. /\ ~Keyed(p) /\ ~Recorded(p) /\ Counted(p)
       /\ ~Keyed(p)' /\ ~Recorded(p)'
  BY <1>2, <1>4 DEF Keyed, Recorded, Counted
<1>13. s \in Steps
  BY DEF Steps, LockedSteps
<1>. QED BY <1>1, <1>2, <1>5, <1>7, <1>11, <1>12, <1>13, QuietStep

LEMMA LabelGood ==
  ASSUME Good, TypeOK', NEW p \in Plugins, Label(p) \/ LateLabel(p) PROVE Good'
<1>1. PICK s \in {"number", "idle"} : Goto(p, s) /\ (s = "number" <=> step[p] = "label")
  BY DEF Label, LateLabel
<1>2. /\ step[p] \in {"label", "lateLabel"} /\ step' = [step EXCEPT ![p] = s]
      /\ UNCHANGED <<fnum, lockOwner, todo, input, index, sensors>>
  BY <1>1 DEF Label, LateLabel, Goto
<1>3. \A q \in Plugins \ {p} : step'[q] = step[q]
  BY <1>2 DEF Good, TypeOK
<1>4. step'[p] = s
  BY <1>2 DEF Good, TypeOK
<1>5. LockInv'
  BY <1>1, <1>2, <1>3, <1>4 DEF Good, FanInv, LockInv, LockedSteps, Uncounted, Counted
<1>6. \A q \in Plugins : Uncounted(q)' <=> Uncounted(q)
  BY <1>1, <1>2, <1>3, <1>4 DEF Uncounted
<1>7. Settled' = Settled
  BY <1>2, <1>6 DEF Settled
<1>8. input[p] \in Inputs /\ index[p] \in Indices
  BY <1>2, StartedInput DEF Good, FanInv, TypeOK
<1>9. Behind(index[p]) = input[p]
  BY <1>2, FanAssumption DEF Good, FanInv, KeyInv, SensorInv, Keyed, Recorded, Counted, Behind
<1>10. AddLabel(index[p], input[p]) \/ UNCHANGED <<storeVars, label>>
  BY DEF Label, LateLabel
<1>11. /\ \A i \in Indices : label'[i] \in {label[i], Behind(i)}
       /\ \A i \in Indices : (Registered(i)' <=> Registered(i)) /\ Owner(i)' = Owner(i)
  <2>1. CASE AddLabel(index[p], input[p])
    <3>1. /\ label' = [label EXCEPT ![index[p]] = input[p]]
          /\ \A i \in Indices : (Registered(i)' <=> Registered(i)) /\ Owner(i)' = Owner(i)
      BY <1>8, <2>1, LabelAdded DEF Good
    <3>. QED BY <1>9, <3>1 DEF Good, TypeOK
  <2>2. CASE UNCHANGED <<storeVars, label>>
    BY <2>2 DEF storeVars, Registered, Owner, Store!Registered
  <2>. QED BY <1>10, <2>1, <2>2
<1>12. /\ Keyed(p)' <=> Keyed(p)
       /\ Recorded(p)' <=> Recorded(p)
       /\ Counted(p)' => Counted(p)
  BY <1>1, <1>2, <1>4 DEF Keyed, Recorded, Counted
<1>13. s \in Steps
  BY DEF Steps, LockedSteps
<1>. QED BY <1>1, <1>2, <1>5, <1>7, <1>11, <1>12, <1>13, QuietStep

(* The key F<n>Ac comes into being for n = FNum.                           *)
LEMMA RegisterSpeedGood ==
  ASSUME Good, TypeOK', NEW p \in Plugins, RegisterSpeed(p) PROVE Good'
<1>. DEFINE s == IF Kind[p] = "SuperIO" THEN "label" ELSE "record"
<1>1. /\ step[p] = "register" /\ step' = [step EXCEPT ![p] = s]
      /\ UNCHANGED <<fnum, label, lockOwner, todo, input, index, sensors>>
  BY DEF RegisterSpeed, Goto
<1>2. \A q \in Plugins \ {p} : step'[q] = step[q]
  BY <1>1 DEF Good, TypeOK
<1>3. step'[p] = s
  BY <1>1 DEF Good, TypeOK
<1>4. index[p] = fnum /\ fnum \in Indices
  BY <1>1 DEF Good, FanInv, LockInv, TypeOK, Uncounted
<1>5. LockInv'
  BY <1>1, <1>2, <1>3 DEF Good, FanInv, LockInv, LockedSteps, Uncounted, Counted
<1>6. \A q \in Plugins : Uncounted(q)' <=> Uncounted(q)
  BY <1>1, <1>2, <1>3 DEF Uncounted
<1>7. Settled' = Settled
  BY <1>1, <1>6 DEF Settled
<1>8. /\ ownerOf' = [ownerOf EXCEPT ![Name("Ac", fnum)] = p]
      /\ Store!Registered' = Store!Registered \cup {Name("Ac", fnum)}
  BY <1>4, NameIsKey, HandlerAdded DEF Good, RegisterSpeed
<1>9. \A i \in Indices \ {fnum} : (Registered(i)' <=> Registered(i)) /\ Owner(i)' = Owner(i)
  BY <1>1, <1>4, <1>8, NameInjective, NameIsKey DEF Registered, Owner, Good, TypeOK
<1>10. Registered(fnum)' /\ Owner(fnum)' = p
  BY <1>1, <1>4, <1>8, NameIsKey DEF Registered, Owner, Good, TypeOK
<1>11. \A q \in Plugins \ {p} : ~Keyed(q) /\ ~Keyed(q)' /\ ~Recorded(q) /\ ~Recorded(q)'
  BY <1>1, <1>2, OneInside DEF Good, FanInv, Keyed, Recorded, LockedSteps
<1>12. ~Keyed(p) /\ Keyed(p)' /\ (Recorded(p)' <=> Recorded(p)) /\ ~Counted(p) /\ ~Counted(p)'
  BY <1>1, <1>3 DEF Keyed, Recorded, Counted
<1>13. \A q \in Plugins \ {p} : Counted(q)' <=> Counted(q)
  BY <1>2 DEF Counted
<1>14. ~Registered(fnum) /\ Owner(fnum) = Nobody
  BY <1>4, <1>11, <1>12 DEF Good, FanInv, KeyInv, TypeOK, Indices
<1>15. \A i \in Indices : Registered(i)' <=> i < fnum' \/ (i = fnum' /\ \E q \in Plugins : Keyed(q)')
  BY <1>1, <1>9, <1>10, <1>11, <1>12 DEF Good, FanInv, KeyInv
<1>16. \A i \in Indices : Registered(i)' <=> Owner(i)' # Nobody
  BY <1>1, <1>9, <1>10, FanAssumption DEF Good, FanInv, KeyInv
<1>17. \A q \in Plugins : Keyed(q)' \/ Counted(q)' => Owner(index[q])' = q
  <2>. SUFFICES ASSUME NEW q \in Plugins, Keyed(q)' \/ Counted(q)' PROVE Owner(index[q])' = q
    OBVIOUS
  <2>1. CASE q = p
    <3>1. index'[q] = fnum
      BY <1>1, <1>4, <2>1
    <3>. QED BY <1>1, <1>10, <2>1, <3>1 DEF Owner
  <2>2. CASE q # p
    <3>1. Counted(q) /\ index'[q] = index[q]
      BY <1>1, <1>11, <1>13, <2>2
    <3>2. index[q] \in Indices \ {fnum} /\ Owner(index[q]) = q
      BY <1>4, <3>1 DEF Good, FanInv, LockInv, KeyInv, TypeOK, Indices
    <3>. QED BY <1>1, <1>9, <3>2 DEF Owner
  <2>. QED BY <2>1, <2>2
<1>18. KeyInv'
  BY <1>15, <1>16, <1>17 DEF KeyInv
<1>19. SensorInv'
  <2>. SUFFICES ASSUME NEW q \in Plugins
                PROVE /\ Recorded(q)' \/ Counted(q)' => sensors'[q][index'[q]] = input'[q]
                      /\ \A i \in Indices :
                           sensors'[q][i] # NoInput =>
                             \/ i < fnum' /\ Owner(i)' = q
                             \/ i = fnum' /\ Recorded(q)'
    BY DEF SensorInv
  <2>1. /\ Recorded(q)' <=> Recorded(q)
        /\ Counted(q)' <=> Counted(q)
    BY <1>11, <1>12, <1>13
  <2>2. \A i \in Indices : i < fnum => Owner(i)' = Owner(i)
    BY <1>4, <1>9 DEF Indices
  <2>. QED BY <1>1, <2>1, <2>2 DEF Good, FanInv, SensorInv
<1>20. \A i \in Indices : Behind(i)' = Behind(i) \/ (i = fnum /\ Behind(i) = NoInput)
  BY <1>1, <1>9, <1>14 DEF Behind
<1>21. CountInv'
  <2>1. \A i \in 0..(fnum - 1) : Behind(i)' = Behind(i)
    BY <1>4, <1>20, CountedIndices DEF Good, Indices
  <2>2. {Behind(i) : i \in 0..(fnum - 1)}' = {Behind(i) : i \in 0..(fnum - 1)}
    BY <1>1, <2>1
  <2>. QED BY <1>1, <1>7, <2>2 DEF Good, FanInv, CountInv
<1>22. LabelsFit'
  BY <1>1, <1>20 DEF Good, FanInv, LabelsFit
<1>. QED BY <1>5, <1>18, <1>19, <1>21, <1>22 DEF Good, FanInv

(* The sensor is recorded for the index FNum, at which the plug-in has     *)
(* recorded none before.                                                   *)
LEMMA RecordSensorGood ==
  ASSUME Good, TypeOK', NEW p \in Plugins, RecordSensor(p) PROVE Good'
<1>. DEFINE s == IF Kind[p] = "SuperIO" THEN "register" ELSE "label"
<1>1. step[p] = "record" /\ index[p] = fnum /\ fnum \in Indices
  BY DEF Good, FanInv, LockInv, TypeOK, Uncounted, RecordSensor
<1>2. ~Recorded(p) /\ ~Counted(p)
  BY <1>1 DEF Recorded, Counted
<1>3. sensors[p][fnum] = NoInput
  BY <1>1, <1>2 DEF Good, FanInv, SensorInv, Indices
<1>4. /\ sensors' = [sensors EXCEPT ![p] = [sensors[p] EXCEPT ![fnum] = input[p]]]
      /\ step' = [step EXCEPT ![p] = s]
  BY <1>1, <1>3 DEF RecordSensor, Goto
<1>5. UNCHANGED <<table, ownerOf, count, fnum, label, lockOwner, todo, input, index>>
  BY DEF RecordSensor, storeVars
<1>6. /\ \A q \in Plugins \ {p} : step'[q] = step[q] /\ sensors'[q] = sensors[q]
      /\ \A i \in Indices \ {fnum} : sensors'[p][i] = sensors[p][i]
      /\ sensors'[p][fnum] = input[p]
      /\ step'[p] = s
  BY <1>1, <1>4 DEF Good, TypeOK
<1>7. LockInv'
  BY <1>1, <1>5, <1>6 DEF Good, FanInv, LockInv, LockedSteps, Uncounted, Counted
<1>8. \A q \in Plugins : Uncounted(q)' <=> Uncounted(q)
  BY <1>1, <1>6 DEF Uncounted
<1>9. Settled' = Settled
  BY <1>5, <1>8 DEF Settled
<1>10. \A i \in Indices : (Registered(i)' <=> Registered(i)) /\ Owner(i)' = Owner(i)
  BY <1>5 DEF Registered, Owner, Store!Registered
<1>11. \A q \in Plugins : (Keyed(q)' <=> Keyed(q)) /\ (Counted(q)' <=> Counted(q))
  BY <1>1, <1>6 DEF Keyed, Counted
<1>12. KeyInv'
  <2>1. \A i \in Indices : /\ Registered(i)' <=> i < fnum' \/ (i = fnum' /\ \E q \in Plugins : Keyed(q)')
                           /\ Registered(i)' <=> Owner(i)' # Nobody
    BY <1>5, <1>10, <1>11 DEF Good, FanInv, KeyInv
  <2>2. \A q \in Plugins : Keyed(q)' \/ Counted(q)' => ownerOf'[Name("Ac", index'[q])] = q
    BY <1>5, <1>11 DEF Good, FanInv, KeyInv, Owner
  <2>. QED BY <2>1, <2>2 DEF KeyInv, Owner
<1>13. Recorded(p)' /\ \A q \in Plugins \ {p} : Recorded(q)' <=> Recorded(q)
  BY <1>6 DEF Recorded
<1>14. SensorInv'
  <2>. SUFFICES ASSUME NEW q \in Plugins
                PROVE /\ Recorded(q)' \/ Counted(q)' => sensors'[q][index'[q]] = input'[q]
                      /\ \A i \in Indices :
                           sensors'[q][i] # NoInput =>
                             \/ i < fnum' /\ Owner(i)' = q
                             \/ i = fnum' /\ Recorded(q)'
    BY DEF SensorInv
  <2>1. CASE q = p
    BY <1>1, <1>2, <1>5, <1>6, <1>10, <1>13, <2>1 DEF Good, FanInv, SensorInv
  <2>2. CASE q # p
    BY <1>5, <1>6, <1>10, <1>11, <1>13, <2>2 DEF Good, FanInv, SensorInv
  <2>. QED BY <2>1, <2>2
<1>15. \A i \in Indices \ {fnum} : Behind(i)' = Behind(i)
  <2>. SUFFICES ASSUME NEW i \in Indices \ {fnum} PROVE Behind(i)' = Behind(i)
    OBVIOUS
  <2>1. Owner(i)' = Owner(i) /\ Owner(i) \in Plugins \cup {Nobody}
    BY <1>10, NameIsKey DEF Good, TypeOK, Owner
  <2>2. \A q \in Plugins : sensors'[q][i] = sensors[q][i]
    BY <1>6
  <2>. QED BY <2>1, <2>2 DEF Behind
<1>16. CountInv'
  <2>1. \A i \in 0..(fnum - 1) : i \in Indices \ {fnum}
    BY <1>1, CountedIndices DEF Good, Indices
  <2>2. {Behind(i) : i \in 0..(fnum - 1)}' = {Behind(i) : i \in 0..(fnum - 1)}
    BY <1>5, <1>15, <2>1
  <2>. QED BY <1>5, <1>9, <2>2 DEF Good, FanInv, CountInv
<1>17. label[fnum] = NoInput
  <2>1. Behind(fnum) = NoInput
    <3>1. CASE Kind[p] = "SuperIO"
      <4>1. \A q \in Plugins : ~Keyed(q)
        BY <1>1, <3>1, OneInside DEF Good, FanInv, Keyed, LockedSteps
      <4>2. Owner(fnum) = Nobody
        BY <1>1, <4>1 DEF Good, FanInv, KeyInv, Indices
      <4>. QED BY <4>2 DEF Behind
    <3>2. CASE Kind[p] # "SuperIO"
      <4>1. Owner(fnum) = p
        BY <1>1, <3>2 DEF Good, FanInv, KeyInv, Keyed
      <4>. QED BY <1>3, <4>1 DEF Behind
    <3>. QED BY <3>1, <3>2
  <2>. QED BY <1>1, <2>1 DEF Good, FanInv, LabelsFit
<1>18. LabelsFit'
  BY <1>5, <1>15, <1>17 DEF Good, FanInv, LabelsFit
<1>. QED BY <1>7, <1>12, <1>14, <1>16, <1>18 DEF Good, FanInv

(* FNum is raised: the fan counts. *)
LEMMA SetCountGood ==
  ASSUME Good, TypeOK', NEW p \in Plugins, SetCount(p) PROVE Good'
<1>. DEFINE s == IF Kind[p] = "Andigilog" THEN "minimum" ELSE "unlock"
<1>1. step[p] = "number" /\ Uncounted(p) /\ index[p] = fnum /\ fnum \in Indices
  BY DEF Good, FanInv, LockInv, TypeOK, Uncounted, SetCount
<1>2. /\ input[p] \in Inputs \ Settled
      /\ Cardinality(Settled \cup {input[p]}) = fnum + 1
      /\ fnum + 1 \in Indices /\ fnum \in Nat /\ (fnum + 1) % ByteValues = fnum + 1
  BY <1>1, RoomForOne
<1>3. /\ step' = [step EXCEPT ![p] = s]
      /\ fnum' = fnum + 1
      /\ UNCHANGED <<table, ownerOf, count, label, lockOwner, todo, input, index, sensors>>
  BY <1>1, <1>2 DEF SetCount, Goto, storeVars
<1>4. step'[p] = s /\ \A q \in Plugins \ {p} : step'[q] = step[q]
  BY <1>3 DEF Good, TypeOK
<1>5. \A q \in Plugins \ {p} : ~Uncounted(q) /\ ~Uncounted(q)'
  BY <1>1, <1>4, OneInside DEF Good, FanInv, Uncounted, LockedSteps
<1>6. ~Uncounted(p)' /\ Counted(p)' /\ ~Keyed(p)' /\ ~Recorded(p)' /\ Keyed(p) /\ Recorded(p)
  BY <1>1, <1>4 DEF Uncounted, Counted, Keyed, Recorded
<1>7. \A q \in Plugins \ {p} : /\ ~Keyed(q) /\ ~Keyed(q)' /\ ~Recorded(q) /\ ~Recorded(q)'
                               /\ Counted(q)' <=> Counted(q)
  BY <1>4, <1>5 DEF Uncounted, Counted, Keyed, Recorded
<1>8. \A q \in Plugins : index[q] \in Nat
  BY DEF Good, TypeOK, Indices
<1>9. LockInv'
  <2>1. \A q \in Plugins \ {p} : step'[q] \in LockedSteps <=> step[q] \in LockedSteps
    BY <1>4
  <2>2. step'[p] \in LockedSteps /\ step[p] \in LockedSteps
    BY <1>1, <1>4 DEF LockedSteps
  <2>3. \A q \in Plugins : Counted(q)' => index'[q] < fnum'
    BY <1>1, <1>2, <1>3, <1>7, <1>8 DEF Good, FanInv, LockInv
  <2>. QED BY <1>1, <1>3, <1>4, <1>5, <1>6, <2>1, <2>2, <2>3 DEF Good, FanInv, LockInv
<1>10. \A i \in Indices : (Registered(i)' <=> Registered(i)) /\ Owner(i)' = Owner(i)
  BY <1>3 DEF Registered, Owner, Store!Registered
<1>11. Owner(fnum) = p /\ sensors[p][fnum] = input[p]
  BY <1>1, <1>6 DEF Good, FanInv, KeyInv, SensorInv
<1>12. KeyInv'
  <2>1. \A i \in Indices : Registered(i) <=> i < fnum \/ i = fnum
    BY <1>6 DEF Good, FanInv, KeyInv
  <2>2. \A i \in Indices : i < fnum \/ i = fnum <=> i < fnum'
    BY <1>2, <1>3 DEF Indices
  <2>3. \A q \in Plugins : ~Keyed(q)'
    BY <1>6, <1>7
  <2>4. \A i \in Indices : /\ Registered(i)' <=> i < fnum' \/ (i = fnum' /\ \E q \in Plugins : Keyed(q)')
                           /\ Registered(i)' <=> Owner(i)' # Nobody
    BY <1>10, <2>1, <2>2, <2>3 DEF Good, FanInv, KeyInv
  <2>5. \A q \in Plugins : Counted(q)' => ownerOf'[Name("Ac", index'[q])] = q
    BY <1>1, <1>3, <1>7, <1>11 DEF Good, FanInv, KeyInv, Owner
  <2>. QED BY <2>3, <2>4, <2>5 DEF KeyInv, Owner
<1>13. SensorInv'
  <2>. SUFFICES ASSUME NEW q \in Plugins
                PROVE /\ Recorded(q)' \/ Counted(q)' => sensors'[q][index'[q]] = input'[q]
                      /\ \A i \in Indices :
                           sensors'[q][i] # NoInput => i < fnum' /\ Owner(i)' = q
    BY DEF SensorInv
  <2>1. Recorded(q)' \/ Counted(q)' => sensors'[q][index'[q]] = input'[q]
    BY <1>1, <1>3, <1>6, <1>7, <1>11 DEF Good, FanInv, SensorInv
  <2>2. ASSUME NEW i \in Indices, sensors'[q][i] # NoInput PROVE i < fnum' /\ Owner(i)' = q
    <3>1. (i < fnum /\ Owner(i) = q) \/ (i = fnum /\ q = p)
      BY <1>3, <1>7, <2>2 DEF Good, FanInv, SensorInv
    <3>2. i < fnum'
      BY <1>2, <1>3, <3>1 DEF Indices
    <3>3. Owner(i) = q
      BY <1>11, <3>1
    <3>. QED BY <1>10, <3>2, <3>3
  <2>. QED BY <2>1, <2>2
<1>14. \A i \in Indices : Behind(i)' = Behind(i)
  BY <1>3, <1>10 DEF Behind
<1>15. CountInv'
  <2>1. Behind(fnum) = input[p]
    BY <1>1, <1>11, FanAssumption DEF Behind
  <2>2. 0..(fnum' - 1) = 0..(fnum - 1) \cup {fnum}
    BY <1>2, <1>3
  <2>3. {Behind(i) : i \in 0..(fnum - 1)}' = {Behind(i) : i \in 0..(fnum - 1)} \cup {Behind(fnum)}
    <3>1. \A i \in 0..(fnum - 1) : Behind(i)' = Behind(i)
      BY <1>14, CountedIndices DEF Good
    <3>2. {Behind(i) : i \in 0..(fnum - 1)}' = {Behind(i)' : i \in (0..(fnum - 1) \cup {fnum})}
      BY <2>2
    <3>. QED BY <1>1, <1>14, <3>1, <3>2
  <2>4. Settled' = Settled \cup {input[p]}
    <3>1. \A f \in Inputs : f \in Settled <=> f \notin todo /\ f # input[p]
      BY <1>1, <1>5 DEF Settled
    <3>2. Settled' = Inputs \ todo
      BY <1>3, <1>5, <1>6 DEF Settled
    <3>3. input[p] \in Inputs \ todo
      BY <1>1 DEF Good, FanInv, LockInv
    <3>4. Settled \subseteq Inputs
      BY DEF Settled
    <3>. QED BY <3>1, <3>2, <3>3, <3>4
  <2>. QED BY <1>2, <1>3, <2>1, <2>3, <2>4 DEF Good, FanInv, CountInv
<1>16. LabelsFit'
  BY <1>3, <1>14 DEF Good, FanInv, LabelsFit
<1>. QED BY <1>9, <1>12, <1>13, <1>15, <1>16 DEF Good, FanInv

LEMMA NextGood == Good /\ [Next]_vars => Good'
<1>. SUFFICES ASSUME Good, [Next]_vars PROVE Good'
  OBVIOUS
<1>1. CASE UNCHANGED vars
  <2>. USE <1>1 DEF vars, storeVars
  <2>1. TypeOK'
    BY DEF Good, TypeOK
  <2>2. LockInv'
    BY DEF Good, FanInv, LockInv, Uncounted, Counted
  <2>3. \A i : /\ Registered(i)' <=> Registered(i)
               /\ Owner(i)' = Owner(i)
               /\ Behind(i)' = Behind(i)
    BY DEF Registered, Owner, Behind, Store!Registered
  <2>4. Settled' = Settled
    BY DEF Settled, Uncounted
  <2>5. KeyInv'
    BY DEF Good, FanInv, KeyInv, Registered, Owner, Keyed, Counted, Store!Registered
  <2>6. SensorInv'
    BY DEF Good, FanInv, SensorInv, Recorded, Counted, Owner
  <2>7. CountInv'
    BY <2>3, <2>4 DEF Good, FanInv, CountInv
  <2>8. LabelsFit'
    BY <2>3 DEF Good, FanInv, LabelsFit
  <2>. QED BY <2>1, <2>2, <2>5, <2>6, <2>7, <2>8 DEF Good, FanInv
<1>2. CASE Next
  <2>1. PICK p \in Plugins : LockStorage(p) \/ AddTachometer(p) \/ LateLabel(p)
    BY <1>2 DEF Next
  <2>2. CASE LockStorage(p)
    BY <2>2, LockStorageGood
  <2>3. CASE AddTachometer(p) \/ LateLabel(p)
    <3>1. TypeOK'
      BY <2>3, AddTachometerType DEF Good, FanInv
    <3>. QED
      BY <2>3, <3>1, GetCountGood, RecordSensorGood, RegisterSpeedGood, LabelGood, SetCountGood,
         RegisterLimitsGood, UnlockStorageGood DEF AddTachometer
  <2>. QED BY <2>1, <2>2, <2>3
<1>. QED BY <1>1, <1>2
--------------------------------------------------------------------------------
LEMMA SpecGood == Spec => []Good
  BY InitGood, NextGood, PTL DEF Spec

(* The variables stay in their types; in particular FNum, one byte, never  *)
(* leaves 0..255, and every local index is one of its values.              *)
THEOREM TypeCorrect == Spec => []TypeOK
<1>1. Good => TypeOK
  BY DEF Good
<1>. QED BY SpecGood, <1>1, PTL

LEMMA SettledFans ==
  ASSUME Good, NEW i \in 0..(fnum - 1)
  PROVE  i \in Indices /\ Registered(i) /\ Behind(i) \in Settled /\ Behind(i) # NoInput
<1>1. i \in Indices /\ i < fnum
  BY CountedIndices DEF Good, TypeOK, Indices
<1>2. Registered(i)
  BY <1>1 DEF Good, FanInv, KeyInv
<1>3. Behind(i) \in Settled
  BY DEF Good, FanInv, CountInv
<1>4. Settled \subseteq Inputs
  BY DEF Settled
<1>. QED BY <1>1, <1>2, <1>3, <1>4, FanAssumption

(* FNum never counts a fan that cannot be read, whoever reads and when:    *)
(* addTachometer writes the count last.                                    *)
THEOREM CountIsSafe == Spec => []CountNeverAhead
<1>1. Good => CountNeverAhead
  BY SettledFans DEF CountNeverAhead, Registered
<1>. QED BY SpecGood, <1>1, PTL

(* Between two calls of addTachometer the fans that have been announced    *)
(* are numbered 0 .. FNum - 1 without a gap or a repetition.               *)
THEOREM NumbersFit == Spec => []FansNumbered
<1>1. Good => FansNumbered
  <2>. SUFFICES ASSUME Good, lockOwner = Nobody
                PROVE /\ fnum = Cardinality(Inputs \ todo)
                      /\ {Behind(i) : i \in 0..(fnum - 1)} = Inputs \ todo
                      /\ \A i \in Indices : Name("Ac", i) \in Store!Registered <=> i < fnum
    BY DEF FansNumbered
  <2>1. \A p \in Plugins : step[p] \notin LockedSteps
    BY FanAssumption DEF Good, FanInv, LockInv
  <2>2. \A p \in Plugins : ~Uncounted(p) /\ ~Keyed(p)
    BY <2>1 DEF Uncounted, Keyed, LockedSteps
  <2>3. Settled = Inputs \ todo
    BY <2>2 DEF Settled
  <2>4. \A i \in Indices : Name("Ac", i) \in Store!Registered <=> i < fnum
    BY <2>2 DEF Good, FanInv, KeyInv, Registered
  <2>. QED BY <2>3, <2>4 DEF Good, FanInv, CountInv
<1>. QED BY SpecGood, <1>1, PTL

(* The caption of a fan is only ever seen on the key of that fan, although *)
(* NVClockX writes it after it has given the lock back.                    *)
THEOREM CaptionsFit == Spec => []LabelsFit
<1>1. Good => LabelsFit
  BY DEF Good, FanInv
<1>. QED BY SpecGood, <1>1, PTL

(* The steps that touch a speed key at all: the registration at FNum,      *)
(* where there was none.                                                   *)
LEMMA SpeedKeys ==
  ASSUME Good, [Next]_vars
  PROVE  \A i \in Indices : Owner(i)' = Owner(i) \/ Owner(i) = Nobody
<1>1. CASE UNCHANGED vars
  BY <1>1 DEF vars, storeVars, Owner
<1>2. CASE \E p \in Plugins : RegisterSpeed(p)
  <2>1. PICK p \in Plugins : RegisterSpeed(p)
    BY <1>2
  <2>2. index[p] = fnum /\ fnum \in Indices
    BY <2>1 DEF RegisterSpeed, Good, FanInv, LockInv, TypeOK, Uncounted
  <2>3. ownerOf' = [ownerOf EXCEPT ![Name("Ac", fnum)] = p]
    BY <2>1, <2>2, NameIsKey, HandlerAdded DEF RegisterSpeed, Good
  <2>4. \A i \in Indices \ {fnum} : Owner(i)' = Owner(i)
    BY <2>2, <2>3, NameInjective, NameIsKey DEF Owner, Good, TypeOK
  <2>5. \A q \in Plugins : ~Keyed(q)
    <3>1. ~Keyed(p)
      BY <2>1 DEF RegisterSpeed, Keyed
    <3>2. \A q \in Plugins \ {p} : ~Keyed(q)
      BY <2>1, OneInside DEF Good, FanInv, RegisterSpeed, Keyed, LockedSteps
    <3>. QED BY <3>1, <3>2
  <2>6. Owner(fnum) = Nobody
    BY <2>2, <2>5 DEF Good, FanInv, KeyInv, TypeOK, Indices
  <2>. QED BY <2>4, <2>6
<1>3. CASE \E p \in Plugins : Label(p) \/ LateLabel(p)
  <2>1. PICK p \in Plugins : Label(p) \/ LateLabel(p)
    BY <1>3
  <2>2. input[p] \in Inputs /\ index[p] \in Indices
    BY <2>1, StartedInput DEF Label, LateLabel, Good, FanInv, TypeOK
  <2>3. CASE AddLabel(index[p], input[p])
    BY <2>2, <2>3, LabelAdded DEF Good
  <2>4. CASE UNCHANGED <<storeVars, label>>
    BY <2>4 DEF storeVars, Owner
  <2>. QED BY <2>1, <2>3, <2>4 DEF Label, LateLabel
<1>4. CASE \E p \in Plugins : RegisterLimits(p)
  <2>1. PICK p \in Plugins, k \in {"Mn", "Mx"} : AddKeyHandler(Name(k, index[p]), p)
    BY <1>4 DEF RegisterLimits
  <2>2. index[p] \in Indices
    BY DEF Good, TypeOK
  <2>3. ownerOf' = [ownerOf EXCEPT ![Name(k, index[p])] = p]
    BY <2>1, <2>2, NameIsKey, HandlerAdded DEF Good
  <2>. QED BY <2>2, <2>3, OtherNames, NameIsKey DEF Owner, Good, TypeOK
<1>5. CASE \E p \in Plugins : LockStorage(p) \/ GetCount(p) \/ RecordSensor(p) \/ SetCount(p) \/ UnlockStorage(p)
  <2>1. UNCHANGED ownerOf
    BY <1>5 DEF LockStorage, GetCount, RecordSensor, SetCount, UnlockStorage, storeVars
  <2>. QED BY <2>1 DEF Owner
<1>. QED BY <1>1, <1>2, <1>3, <1>4, <1>5 DEF Next, AddTachometer

(* No plug-in ever takes over the speed key of a fan that another plug-in  *)
(* has registered, although kFakeSMCAddKeyHandler would let it.            *)
THEOREM FansStay == Spec => FansKept
<1>1. Good /\ [Next]_vars => [\A i \in Indices : Owner(i) # Nobody => Owner(i)' = Owner(i)]_vars
  BY SpeedKeys
<1>. QED BY SpecGood, <1>1, PTL DEF Spec, FansKept
--------------------------------------------------------------------------------
Mapped == [i \in 1..fnum |-> Behind(i - 1)]

(* Behind a fan that counts there is always the same input.                *)
LEMMA SensorsStay ==
  ASSUME Good, [Next]_vars
  PROVE  \A i \in 0..(fnum - 1) : Behind(i)' = Behind(i)
<1>. SUFFICES ASSUME NEW i \in 0..(fnum - 1) PROVE Behind(i)' = Behind(i)
  OBVIOUS
<1>1. i \in Indices /\ i < fnum /\ Owner(i) # Nobody /\ Owner(i) \in Plugins
  <2>1. i \in Indices /\ i < fnum
    BY CountedIndices DEF Good, TypeOK, Indices
  <2>2. Owner(i) # Nobody
    BY <2>1 DEF Good, FanInv, KeyInv
  <2>. QED BY <2>1, <2>2, NameIsKey DEF Owner, Good, TypeOK
<1>2. Owner(i)' = Owner(i)
  BY <1>1, SpeedKeys
<1>3. \A q \in Plugins : sensors'[q][i] = sensors[q][i]
  <2>1. CASE UNCHANGED sensors
    BY <2>1
  <2>2. CASE \E p \in Plugins : RecordSensor(p)
    <3>1. PICK p \in Plugins : RecordSensor(p)
      BY <2>2
    <3>2. index[p] = fnum /\ fnum \in Indices
      BY <3>1 DEF RecordSensor, Good, FanInv, LockInv, TypeOK, Uncounted
    <3>3. sensors' = [sensors EXCEPT ![p] = [sensors[p] EXCEPT ![fnum] = input[p]]] \/ sensors' = sensors
      BY <3>1, <3>2 DEF RecordSensor
    <3>4. i # fnum
      BY <1>1, <3>2 DEF Indices
    <3>5. sensors \in [Plugins -> [Indices -> Inputs \cup {NoInput}]]
      BY DEF Good, TypeOK
    <3>6. ASSUME NEW q \in Plugins PROVE sensors'[q][i] = sensors[q][i]
      <4>1. CASE q = p
        BY <1>1, <3>3, <3>4, <3>5, <4>1
      <4>2. CASE q # p
        BY <3>3, <3>5, <4>2
      <4>. QED BY <4>1, <4>2
    <3>. QED BY <3>6
  <2>3. CASE \E p \in Plugins : \/ LockStorage(p) \/ GetCount(p) \/ RegisterSpeed(p) \/ Label(p)
                                \/ SetCount(p) \/ RegisterLimits(p) \/ UnlockStorage(p) \/ LateLabel(p)
    <3>1. UNCHANGED sensors
      BY <2>3 DEF LockStorage, GetCount, RegisterSpeed, Label, SetCount, RegisterLimits,
                  UnlockStorage, LateLabel
    <3>. QED BY <3>1
  <2>4. CASE UNCHANGED vars
    BY <2>4 DEF vars
  <2>. QED BY <2>1, <2>2, <2>3, <2>4 DEF Next, AddTachometer
<1>. QED BY <1>1, <1>2, <1>3 DEF Behind

LEMMA CountSteps ==
  ASSUME Good, [Next]_vars
  PROVE  \/ fnum' = fnum
         \/ \E p \in Plugins : SetCount(p)
  BY DEF Next, AddTachometer, LockStorage, GetCount, RecordSensor, RegisterSpeed, Label,
         RegisterLimits, UnlockStorage, LateLabel, vars

LEMMA MappedInit == Init => Fans!TableInit
<1>. SUFFICES ASSUME Init PROVE [i \in 1..fnum |-> Behind(i - 1)] = <<>>
  BY DEF Fans!TableInit
<1>1. 1..fnum = {}
  BY DEF Init
<1>. QED BY <1>1

LEMMA MappedStep ==
  ASSUME Good, Good', [Next]_vars
  PROVE  [Fans!TableNext]_Mapped
<1>1. fnum \in Nat
  BY DEF Good, TypeOK, Indices
<1>2. CASE fnum' = fnum
  <2>1. \A i \in 1..fnum : (i - 1) \in 0..(fnum - 1)
    BY <1>1
  <2>2. \A i \in 1..fnum : Behind(i - 1)' = Behind(i - 1)
    BY <2>1, SensorsStay
  <2>3. Mapped' = Mapped
    BY <1>2, <2>2 DEF Mapped
  <2>. QED BY <2>3
<1>3. CASE \E p \in Plugins : SetCount(p)
  <2>1. PICK p \in Plugins : SetCount(p)
    BY <1>3
  <2>2. Uncounted(p) /\ index[p] = fnum /\ fnum \in Indices
    BY <2>1 DEF SetCount, Good, FanInv, LockInv, TypeOK, Uncounted
  <2>3. fnum' = fnum + 1 /\ input[p] \in Inputs \ Settled
    BY <2>1, <2>2, RoomForOne DEF SetCount
  <2>4. Behind(fnum) = input[p]
    <3>1. Owner(fnum) = p /\ sensors[p][fnum] = input[p]
      BY <2>1, <2>2 DEF SetCount, Good, FanInv, KeyInv, SensorInv, Keyed, Recorded
    <3>. QED BY <3>1, FanAssumption DEF Behind
  <2>5. \A i \in Indices : Behind(i)' = Behind(i)
    BY <2>1 DEF SetCount, storeVars, Behind, Owner
  <2>6. Len(Mapped) = fnum /\ Mapped \in Seq(Inputs)
    <3>1. \A i \in 1..fnum : Behind(i - 1) \in Inputs
      <4>. SUFFICES ASSUME NEW i \in 1..fnum PROVE Behind(i - 1) \in Inputs
        OBVIOUS
      <4>1. i - 1 \in 0..(fnum - 1)
        BY <1>1
      <4>. QED BY <4>1, SettledFans DEF Settled
    <3>. QED BY <1>1, <3>1 DEF Mapped
  <2>7. Mapped' = Append(Mapped, input[p])
    <3>1. \A i \in 1..(fnum + 1) : (i - 1) \in Indices
      BY <1>1, <2>2, InputsFinite DEF Indices
    <3>2. \A i \in 1..(fnum + 1) : Behind(i - 1)' = Behind(i - 1)
      BY <2>5, <3>1
    <3>3. Mapped' = [i \in 1..(fnum + 1) |-> Behind(i - 1)]
      BY <2>3, <3>2 DEF Mapped
    <3>4. Behind((fnum + 1) - 1) = input[p]
      BY <1>1, <2>4
    <3>5. Append(Mapped, input[p]) = [i \in 1..(fnum + 1) |-> IF i <= fnum THEN Mapped[i] ELSE input[p]]
      BY <1>1, <2>3, <2>6
    <3>6. \A i \in 1..(fnum + 1) : Behind(i - 1) = IF i <= fnum THEN Mapped[i] ELSE input[p]
      BY <1>1, <3>4 DEF Mapped
    <3>. QED BY <3>3, <3>5, <3>6
  <2>8. input[p] \notin Fans!Listed
    <3>. SUFFICES ASSUME NEW i \in 1..Len(Mapped) PROVE Mapped[i] # input[p]
      BY DEF Fans!Listed, Mapped
    <3>1. i \in 1..fnum /\ i - 1 \in 0..(fnum - 1)
      BY <1>1, <2>6
    <3>2. Mapped[i] \in Settled
      BY <3>1, SettledFans DEF Mapped
    <3>. QED BY <2>3, <3>2
  <2>9. Fans!AddFan(input[p])
    BY <2>7, <2>8 DEF Fans!AddFan, Mapped
  <2>. QED BY <2>3, <2>9 DEF Fans!TableNext
<1>. QED BY <1>2, <1>3, CountSteps

(* Whatever the plug-ins interleave, to a reader of FNum and F<n>Ac a fan  *)
(* appears in one step, at the end of the table, and stays.                *)
THEOREM FanRefinement == Spec => ImplementsFanTable
<1>1. Good /\ Good' /\ [Next]_vars => [Fans!TableNext]_[i \in 1..fnum |-> Behind(i - 1)]
  BY MappedStep DEF Mapped
<1>. QED BY MappedInit, SpecGood, <1>1, PTL DEF Spec, ImplementsFanTable, Fans!TableSpec
--------------------------------------------------------------------------------
(* The fans of a plug-in that count, and those among its inputs that it    *)
(* has listed in Measures before the one it is registering.                *)
Earlier(p) == {i \in Indices : i < fnum /\ Owner(i) = p}

FansBefore(p) == Len(measured[p]) - (IF Uncounted(p) THEN 1 ELSE 0)

(* The fans have successive indices, as many as are listed and in the      *)
(* order of the list, and fan_offset is the first of them.                 *)
InOrder(p, first) ==
  /\ Earlier(p) = first .. first + FansBefore(p) - 1
  /\ \A i \in Earlier(p) : sensors[p][i] = measured[p][i - first + 1]
  /\ Earlier(p) # {} => fanOffset[p] = first
  /\ Earlier(p) = {} => fanOffset[p] = IF step[p] = "number" THEN index[p] ELSE -1

RunOf(p) ==
  /\ Uncounted(p) => measured[p] # <<>> /\ measured[p][Len(measured[p])] = input[p]
  /\ InOneRun(Earlier(p)) => \E first \in Indices : InOrder(p, first)

RunInv == \A p \in Plugins : Kind[p] = "Andigilog" => RunOf(p)

LEMMA EarlierStays ==
  ASSUME Good, [Next]_vars, NEW q \in Plugins
  PROVE  /\ \A i \in 0..(fnum - 1) : i \in Indices /\ Owner(i)' = Owner(i)
         /\ fnum' = fnum => Earlier(q)' = Earlier(q)
         /\ \A i \in Earlier(q) : sensors'[q][i] = sensors[q][i]
<1>1. \A i \in 0..(fnum - 1) : i \in Indices /\ Owner(i) # Nobody
  BY CountedIndices DEF Good, TypeOK, FanInv, KeyInv, Indices
<1>2. \A i \in 0..(fnum - 1) : Owner(i)' = Owner(i)
  BY <1>1, SpeedKeys
<1>3. fnum \in Nat /\ Indices \subseteq Nat
  BY DEF Good, TypeOK, Indices
<1>4. \A i \in Earlier(q) : i \in 0..(fnum - 1) /\ i \in Indices /\ Owner(i) = q
  BY <1>3 DEF Earlier
<1>5. ASSUME fnum' = fnum PROVE Earlier(q)' = Earlier(q)
  <2>1. \A i \in Indices : i < fnum => Owner(i)' = Owner(i)
    BY <1>2, <1>3
  <2>. QED BY <1>5, <2>1 DEF Earlier
<1>6. ASSUME NEW i \in Earlier(q) PROVE sensors'[q][i] = sensors[q][i]
  <2>1. Behind(i)' = Behind(i)
    BY <1>4, SensorsStay
  <2>2. Owner(i) = q /\ Owner(i)' = q
    BY <1>2, <1>4
  <2>. QED BY <2>1, <2>2, FanAssumption DEF Behind
<1>. QED BY <1>1, <1>2, <1>5, <1>6

(* Steps that neither list nor count a fan of the plug-in. *)
LEMMA RunStays ==
  ASSUME Good, [Next]_vars, NEW q \in Plugins, RunOf(q),
         Earlier(q)' = Earlier(q),
         measured'[q] = measured[q], fanOffset'[q] = fanOffset[q],
         Uncounted(q)' <=> Uncounted(q), Uncounted(q) => input'[q] = input[q],
         (step'[q] = "number") <=> (step[q] = "number"),
         step[q] = "number" => index'[q] = index[q]
  PROVE  RunOf(q)'
<1>1. FansBefore(q)' = FansBefore(q)
  BY DEF FansBefore
<1>2. \A i \in Earlier(q) : sensors'[q][i] = sensors[q][i]
  BY EarlierStays
<1>3. ASSUME NEW first \in Indices, InOrder(q, first) PROVE InOrder(q, first)'
  BY <1>1, <1>2, <1>3 DEF InOrder
<1>4. InOneRun(Earlier(q)') => InOneRun(Earlier(q))
  OBVIOUS
<1>5. InOneRun(Earlier(q))' <=> InOneRun(Earlier(q)')
  BY DEF InOneRun
<1>. QED BY <1>3, <1>4, <1>5 DEF RunOf

LEMMA OthersRunStays ==
  ASSUME Good, [Next]_vars, NEW p \in Plugins, LockStorage(p) \/ AddTachometer(p) \/ LateLabel(p),
         NEW q \in Plugins, q # p, RunOf(q)
  PROVE  RunOf(q)'
<1>1. step'[q] = step[q] /\ input'[q] = input[q] /\ index'[q] = index[q]
      /\ measured'[q] = measured[q] /\ fanOffset'[q] = fanOffset[q]
  <2>1. /\ step \in [Plugins -> Steps] /\ index \in [Plugins -> Indices]
        /\ input \in [Plugins -> Inputs \cup {NoInput}]
        /\ measured \in [Plugins -> Seq(Inputs)]
        /\ fanOffset \in [Plugins -> Indices \cup {-1}]
    BY DEF Good, TypeOK
  <2>2. CASE LockStorage(p)
    BY <2>1, <2>2 DEF LockStorage, Goto
  <2>3. CASE GetCount(p) \/ RecordSensor(p) \/ RegisterSpeed(p)
    BY <2>1, <2>3 DEF GetCount, RecordSensor, RegisterSpeed, Goto
  <2>4. CASE Label(p)
    BY <2>1, <2>4 DEF Label, FirstFan, Goto
  <2>5. CASE SetCount(p) \/ RegisterLimits(p) \/ UnlockStorage(p) \/ LateLabel(p)
    BY <2>1, <2>5 DEF SetCount, RegisterLimits, UnlockStorage, LateLabel, Goto
  <2>. QED BY <2>2, <2>3, <2>4, <2>5 DEF AddTachometer
<1>2. Earlier(q)' = Earlier(q)
  <2>1. CASE fnum' = fnum
    BY <2>1, EarlierStays
  <2>2. CASE SetCount(p)
    <3>1. Uncounted(p) /\ index[p] = fnum /\ fnum \in Indices
      BY <2>2 DEF SetCount, Good, FanInv, LockInv, TypeOK, Uncounted
    <3>2. fnum' = fnum + 1 /\ fnum \in Nat
      BY <2>2, <3>1, RoomForOne DEF SetCount
    <3>3. Owner(fnum) = p
      BY <2>2, <3>1 DEF SetCount, Good, FanInv, KeyInv, Keyed
    <3>4. \A i \in Indices : Owner(i)' = Owner(i)
      BY <2>2 DEF SetCount, storeVars, Owner
    <3>5. \A i \in Indices : i < fnum + 1 <=> i < fnum \/ i = fnum
      BY <3>2 DEF Indices
    <3>. QED BY <3>2, <3>3, <3>4, <3>5 DEF Earlier
  <2>3. CASE LockStorage(p) \/ GetCount(p) \/ RecordSensor(p) \/ RegisterSpeed(p) \/ Label(p)
             \/ RegisterLimits(p) \/ UnlockStorage(p) \/ LateLabel(p)
    <3>1. fnum' = fnum
      BY <2>3 DEF LockStorage, GetCount, RecordSensor, RegisterSpeed, Label, RegisterLimits,
                  UnlockStorage, LateLabel
    <3>. QED BY <3>1, EarlierStays
  <2>. QED BY <2>2, <2>3 DEF AddTachometer
<1>3. Uncounted(q)' <=> Uncounted(q)
  BY <1>1 DEF Uncounted
<1>. QED BY <1>1, <1>2, <1>3, RunStays

LEMMA QuietOwnRun ==
  ASSUME Good, [Next]_vars, NEW p \in Plugins, RunOf(p), Kind[p] = "Andigilog",
         \/ GetCount(p) \/ RecordSensor(p) \/ RegisterSpeed(p)
         \/ RegisterLimits(p) \/ UnlockStorage(p) \/ LateLabel(p)
  PROVE  RunOf(p)'
<1>1. step \in [Plugins -> Steps]
  BY DEF Good, TypeOK
<1>2. fnum' = fnum /\ measured' = measured /\ fanOffset' = fanOffset /\ input' = input
  BY DEF GetCount, RecordSensor, RegisterSpeed, RegisterLimits, UnlockStorage, LateLabel
<1>3. /\ Uncounted(p)' <=> Uncounted(p)
      /\ step'[p] # "number" /\ step[p] # "number"
  BY <1>1 DEF GetCount, RecordSensor, RegisterSpeed, RegisterLimits, UnlockStorage, LateLabel,
              Goto, Uncounted
<1>4. Earlier(p)' = Earlier(p)
  BY <1>2, EarlierStays
<1>. QED BY <1>2, <1>3, <1>4, RunStays

(* Another input at the end of the list. *)
LEMMA LockStorageRun ==
  ASSUME Good, [Next]_vars, NEW p \in Plugins, RunOf(p), Kind[p] = "Andigilog", LockStorage(p)
  PROVE  RunOf(p)'
<1>1. PICK f \in Inputs : /\ input' = [input EXCEPT ![p] = f]
                          /\ measured' = [measured EXCEPT ![p] = Append(measured[p], f)]
  BY DEF LockStorage, Good, TypeOK
<1>2. /\ step[p] = "idle" /\ step' = [step EXCEPT ![p] = "count"]
      /\ UNCHANGED <<fnum, fanOffset>>
  BY DEF LockStorage, Goto
<1>3. /\ measured \in [Plugins -> Seq(Inputs)] /\ step \in [Plugins -> Steps]
      /\ input \in [Plugins -> Inputs \cup {NoInput}]
  BY DEF Good, TypeOK
<1>4. /\ measured'[p] = Append(measured[p], f) /\ input'[p] = f
      /\ step'[p] = "count" /\ step[p] = "idle"
  BY <1>1, <1>2, <1>3
<1>5. /\ Len(measured[p]) \in Nat /\ measured[p] \in Seq(Inputs)
      /\ Len(measured'[p]) = Len(measured[p]) + 1
      /\ measured'[p][Len(measured[p]) + 1] = f
      /\ \A i \in 1..Len(measured[p]) : measured'[p][i] = measured[p][i]
  BY <1>3, <1>4
<1>6. Uncounted(p)' /\ ~Uncounted(p)
  BY <1>4 DEF Uncounted
<1>7. FansBefore(p)' = FansBefore(p) /\ FansBefore(p) = Len(measured[p])
  BY <1>5, <1>6 DEF FansBefore
<1>8. Earlier(p)' = Earlier(p)
  BY <1>2, EarlierStays
<1>9. ASSUME NEW first \in Indices, InOrder(p, first) PROVE InOrder(p, first)'
  <2>1. \A i \in Earlier(p) : i - first + 1 \in 1..Len(measured[p])
    BY <1>5, <1>7, <1>9 DEF InOrder, Indices
  <2>2. \A i \in Earlier(p) : sensors'[p][i] = measured'[p][i - first + 1]
    BY <1>5, <1>9, <2>1, EarlierStays DEF InOrder
  <2>. QED BY <1>2, <1>4, <1>7, <1>8, <1>9, <2>2 DEF InOrder
<1>10. measured'[p] # <<>> /\ measured'[p][Len(measured'[p])] = input'[p]
  BY <1>4, <1>5
<1>11. InOneRun(Earlier(p))' <=> InOneRun(Earlier(p))
  BY <1>8 DEF InOneRun
<1>. QED BY <1>9, <1>10, <1>11 DEF RunOf

(* fan_offset, at the first fan. *)
LEMMA LabelRun ==
  ASSUME Good, [Next]_vars, NEW p \in Plugins, RunOf(p), Kind[p] = "Andigilog", Label(p)
  PROVE  RunOf(p)'
<1>1. /\ step[p] = "label" /\ step' = [step EXCEPT ![p] = "number"]
      /\ UNCHANGED <<fnum, input, index, sensors, measured>>
      /\ fanOffset' = IF fanOffset[p] < 0 THEN [fanOffset EXCEPT ![p] = index[p]] ELSE fanOffset
  BY DEF Label, Goto, FirstFan
<1>2. step \in [Plugins -> Steps] /\ fanOffset \in [Plugins -> Indices \cup {-1}]
  BY DEF Good, TypeOK
<1>3. step'[p] = "number" /\ Uncounted(p) /\ Uncounted(p)'
  BY <1>1, <1>2 DEF Uncounted
<1>4. Earlier(p)' = Earlier(p)
  BY <1>1, EarlierStays
<1>5. fanOffset'[p] = IF fanOffset[p] < 0 THEN index[p] ELSE fanOffset[p]
  BY <1>1, <1>2
<1>6. FansBefore(p)' = FansBefore(p)
  BY <1>1, <1>3 DEF FansBefore
<1>7. ASSUME NEW first \in Indices, InOrder(p, first) PROVE InOrder(p, first)'
  <2>1. Earlier(p) # {} => fanOffset'[p] = first
    BY <1>5, <1>7 DEF InOrder, Indices
  <2>2. Earlier(p) = {} => fanOffset'[p] = index[p]
    BY <1>1, <1>5, <1>7 DEF InOrder
  <2>. QED BY <1>1, <1>3, <1>4, <1>6, <1>7, <2>1, <2>2 DEF InOrder
<1>8. InOneRun(Earlier(p))' <=> InOneRun(Earlier(p))
  BY <1>4 DEF InOneRun
<1>. QED BY <1>1, <1>3, <1>7, <1>8 DEF RunOf

(* The fan counts: it continues the run, or ends it. *)
LEMMA SetCountRun ==
  ASSUME Good, [Next]_vars, NEW p \in Plugins, RunOf(p), Kind[p] = "Andigilog", SetCount(p)
  PROVE  RunOf(p)'
<1>1. /\ step[p] = "number" /\ step' = [step EXCEPT ![p] = "minimum"]
      /\ UNCHANGED <<input, index, sensors, measured, fanOffset>>
  BY DEF SetCount, Goto
<1>2. Uncounted(p) /\ index[p] = fnum /\ fnum \in Indices
  BY DEF SetCount, Good, FanInv, LockInv, TypeOK, Uncounted
<1>3. fnum' = fnum + 1 /\ fnum \in Nat /\ Indices \subseteq Nat
  <2>1. fnum' = fnum + 1 /\ fnum \in Nat
    BY <1>2, RoomForOne DEF SetCount
  <2>. QED BY <2>1 DEF Indices
<1>4. step'[p] = "minimum" /\ ~Uncounted(p)'
  BY <1>1 DEF Uncounted, Good, TypeOK
<1>5. Owner(fnum) = p /\ sensors[p][fnum] = input[p]
  <2>1. Keyed(p) /\ Recorded(p)
    BY <1>1 DEF Keyed, Recorded
  <2>. QED BY <1>2, <2>1 DEF Good, FanInv, KeyInv, SensorInv
<1>6. Earlier(p)' = Earlier(p) \cup {fnum} /\ fnum \notin Earlier(p)
  <2>1. \A i \in Indices : Owner(i)' = Owner(i)
    BY DEF SetCount, storeVars, Owner
  <2>2. \A i \in Indices : i < fnum + 1 <=> i < fnum \/ i = fnum
    BY <1>3
  <2>3. Earlier(p)' = {i \in Indices : i < fnum + 1 /\ Owner(i) = p}
    BY <1>3, <2>1 DEF Earlier
  <2>4. ~(fnum < fnum)
    BY <1>3
  <2>. QED BY <1>2, <1>5, <2>2, <2>3, <2>4 DEF Earlier
<1>7. /\ Len(measured[p]) \in Nat /\ Len(measured[p]) >= 1
      /\ measured[p][Len(measured[p])] = input[p]
  BY <1>2 DEF RunOf, Good, TypeOK
<1>8. FansBefore(p) = Len(measured[p]) - 1 /\ FansBefore(p)' = Len(measured[p])
  BY <1>1, <1>2, <1>4 DEF FansBefore
<1>9. ASSUME InOneRun(Earlier(p))' PROVE \E first \in Indices : InOrder(p, first)'
  <2>1. \A i \in Earlier(p) : i \in Nat /\ i < fnum
    BY <1>3 DEF Earlier
  <2>2. \A i, j \in Earlier(p) \cup {fnum} : \A k \in i..j : k \in Earlier(p) \cup {fnum}
    BY <1>6, <1>9 DEF InOneRun
  <2>3. InOneRun(Earlier(p))
    <3>. SUFFICES ASSUME NEW i \in Earlier(p), NEW j \in Earlier(p), NEW k \in i..j
                  PROVE  k \in Earlier(p)
      BY DEF InOneRun
    <3>1. k \in Earlier(p) \cup {fnum}
      BY <2>2
    <3>2. k # fnum
      BY <1>3, <2>1
    <3>. QED BY <3>1, <3>2
  <2>4. PICK first \in Indices : InOrder(p, first)
    BY <2>3 DEF RunOf
  <2>5. CASE Earlier(p) = {}
    <3>1. Len(measured[p]) = 1
      <4>0. Earlier(p) = first .. first + FansBefore(p) - 1
        BY <2>4 DEF InOrder
      <4>1. first .. first + (Len(measured[p]) - 1) - 1 = {}
        BY <1>8, <2>5, <4>0
      <4>2. first \in Nat
        BY <1>3
      <4>3. ASSUME NEW l \in Nat, first .. first + (l - 1) - 1 = {}, l >= 1 PROVE l = 1
        <5>1. first \notin first .. first + (l - 1) - 1
          BY <4>3
        <5>. QED BY <4>2, <4>3, <5>1
      <4>. QED BY <1>7, <4>1, <4>3
    <3>. PICK n \in Indices : n = fnum
      BY <1>2
    <3>2. Earlier(p)' = {n}
      BY <1>6, <2>5
    <3>3. {n} = n .. n + 1 - 1 /\ n - n + 1 = 1
      BY <1>3
    <3>4. fanOffset'[p] = n
      BY <1>1, <1>2, <2>4, <2>5 DEF InOrder
    <3>5. sensors'[p][n] = measured'[p][n - n + 1]
      BY <1>1, <1>5, <1>7, <3>1, <3>3
    <3>6. InOrder(p, n)'
      <4>1. FansBefore(p)' = 1
        BY <1>8, <3>1
      <4>. QED BY <3>2, <3>3, <3>4, <3>5, <4>1 DEF InOrder
    <3>. QED BY <3>6
  <2>6. CASE Earlier(p) # {}
    <3>1. first \in Nat /\ Earlier(p) = first .. first + Len(measured[p]) - 2
      BY <1>3, <1>7, <1>8, <2>4 DEF InOrder
    <3>2. Len(measured[p]) >= 2 /\ first \in Earlier(p) /\ first < fnum
      BY <1>7, <2>1, <2>6, <3>1
    <3>3. fnum - 1 \in Earlier(p)
      <4>1. fnum - 1 \in first..fnum
        BY <1>3, <3>1, <3>2
      <4>2. fnum - 1 \in Earlier(p) \cup {fnum}
        BY <2>2, <3>2, <4>1
      <4>. QED BY <1>3, <4>2
    <3>4. fnum = first + Len(measured[p]) - 1
      <4>1. first + Len(measured[p]) - 2 \in Earlier(p)
        BY <1>7, <3>1, <3>2
      <4>2. first + Len(measured[p]) - 2 < fnum
        BY <2>1, <4>1
      <4>3. fnum - 1 <= first + Len(measured[p]) - 2
        BY <3>1, <3>3
      <4>. QED BY <1>3, <1>7, <3>1, <4>2, <4>3
    <3>5. Earlier(p)' = first .. first + Len(measured[p]) - 1
      BY <1>3, <1>6, <1>7, <3>1, <3>2, <3>4
    <3>6. \A i \in Earlier(p)' : sensors'[p][i] = measured'[p][i - first + 1]
      <4>1. fnum - first + 1 = Len(measured[p])
        BY <1>3, <1>7, <3>1, <3>4
      <4>. QED BY <1>1, <1>5, <1>6, <1>7, <2>4, <4>1 DEF InOrder
    <3>7. fanOffset'[p] = first
      BY <1>1, <2>4, <2>6 DEF InOrder
    <3>8. InOrder(p, first)'
      BY <1>6, <1>8, <3>5, <3>6, <3>7 DEF InOrder
    <3>. QED BY <3>8
  <2>. QED BY <2>5, <2>6
<1>. QED BY <1>4, <1>9 DEF RunOf

LEMMA NextRun == ASSUME Good, RunInv, [Next]_vars PROVE RunInv'
<1>. SUFFICES ASSUME NEW q \in Plugins, Kind[q] = "Andigilog" PROVE RunOf(q)'
  BY DEF RunInv
<1>1. RunOf(q)
  BY DEF RunInv
<1>2. CASE UNCHANGED vars
  <2>1. fnum' = fnum /\ measured'[q] = measured[q] /\ fanOffset'[q] = fanOffset[q]
        /\ step'[q] = step[q] /\ input'[q] = input[q] /\ index'[q] = index[q]
    BY <1>2 DEF vars
  <2>. QED BY <1>1, <2>1, EarlierStays, RunStays DEF Uncounted
<1>3. CASE Next
  <2>1. PICK p \in Plugins : LockStorage(p) \/ AddTachometer(p) \/ LateLabel(p)
    BY <1>3 DEF Next
  <2>2. CASE p = q
    BY <1>1, <2>1, <2>2, QuietOwnRun, LockStorageRun, LabelRun, SetCountRun DEF AddTachometer
  <2>3. CASE p # q
    BY <1>1, <2>1, <2>3, OthersRunStays
  <2>. QED BY <2>2, <2>3
<1>. QED BY <1>2, <1>3

LEMMA InitRun == ASSUME Init PROVE RunInv
<1>. SUFFICES ASSUME NEW p \in Plugins PROVE RunOf(p)
  BY DEF RunInv
<1>1. Earlier(p) = {} /\ ~Uncounted(p) /\ 0 \in Indices
  <2>1. \A i \in Indices : ~(i < 0)
    BY DEF Indices
  <2>. QED BY <2>1, InputsFinite DEF Init, Earlier, Uncounted, Indices
<1>2. FansBefore(p) = 0
  BY <1>1 DEF Init, FansBefore
<1>3. InOrder(p, 0)
  BY <1>1, <1>2 DEF Init, InOrder
<1>. QED BY <1>1, <1>3 DEF RunOf

(* As long as its fans follow each other, the callback of Andigilog, which *)
(* subtracts fan_offset from the index in the name of the key, reads the   *)
(* fan that is recorded for that key.                                      *)
THEOREM AndigilogAnswers == Spec => []RunsAnswered
<1>1. Init => RunInv
  BY InitRun
<1>2. Good /\ RunInv /\ [Next]_vars => RunInv'
  BY NextRun
<1>3. Good /\ RunInv => RunsAnswered
  <2>. SUFFICES ASSUME Good, RunInv, NEW p \in Plugins, Kind[p] = "Andigilog", lockOwner = Nobody,
                       InOneRun(OwnFans(p)), NEW i \in OwnFans(p)
                PROVE  Answering(p, i) = Behind(i)
    BY DEF RunsAnswered
  <2>1. \A q \in Plugins : step[q] \notin LockedSteps
    BY FanAssumption DEF Good, FanInv, LockInv
  <2>2. \A q \in Plugins : ~Uncounted(q) /\ ~Keyed(q)
    BY <2>1 DEF Uncounted, Keyed, LockedSteps
  <2>3. OwnFans(p) = Earlier(p)
    <3>1. \A j \in Indices : Owner(j) = p => j < fnum
      BY <2>2, FanAssumption DEF Good, FanInv, KeyInv
    <3>. QED BY <3>1 DEF OwnFans, Earlier
  <2>4. PICK first \in Indices : InOrder(p, first)
    BY <2>3 DEF RunInv, RunOf
  <2>5. Len(measured[p]) \in Nat /\ first \in Nat
    BY DEF Good, TypeOK, Indices
  <2>6. /\ Earlier(p) = first .. first + (Len(measured[p]) - 0) - 1
        /\ sensors[p][i] = measured[p][i - first + 1]
        /\ fanOffset[p] = first
    BY <2>2, <2>3, <2>4 DEF InOrder, FansBefore
  <2>7. i - fanOffset[p] + 1 \in 1..Len(measured[p])
    BY <2>3, <2>5, <2>6
  <2>8. Owner(i) = p /\ p # Nobody
    BY FanAssumption DEF OwnFans
  <2>. QED BY <2>6, <2>7, <2>8 DEF Answering, Behind
<1>. QED BY <1>1, <1>2, <1>3, SpecGood, PTL DEF Spec
================================================================================
