-------------------------- MODULE SMCKeyStore_proofs --------------------------
(***************************************************************************)
(* Proofs about SMCKeyStore, for any number of threads, keys, handlers and *)
(* sizes, and any depth of explicit locking.                               *)
(***************************************************************************)
EXTENDS SMCKeyStore, SequenceTheorems, TLAPS

Basic == TypeOK /\ LockBalanced

(* The argument slots of an idle thread are well typed. *)
LEMMA NoArgsType == NoArgs \in Args /\ NoArgs.name = SharpKey
<1>1. \E a \in Args : a.name = SharpKey
  <2>1. PICK h \in Handlers, s \in Sizes : TRUE
    BY StoreAssumption
  <2>2. SharpKey \in Names /\ 0 \in Data
    BY StoreAssumption
  <2>. DEFINE b == [name |-> SharpKey, handler |-> h, size |-> s, data |-> 0]
  <2>3. b \in Args /\ b.name = SharpKey
    BY <2>1, <2>2 DEF Args
  <2>. QED BY <2>3
<1>. QED BY <1>1 DEF NoArgs

(* What a call puts into its slots has the right type. *)
LEMMA ArgsForType == ASSUME NEW f PROVE ArgsFor(f) \subseteq Args
  BY DEF ArgsFor

LEMMA ReturnType ==
  ASSUME Basic, NEW t \in Threads, Return(t)
  PROVE  /\ fn' \in [Threads -> PluginCalls \cup UserCalls \cup PortCalls]
         /\ step' \in [Threads -> Steps]
         /\ arg' \in [Threads -> Args]
         /\ cursor' \in [Threads -> Nat \ {0}]
  BY NoArgsType DEF Basic, TypeOK, Return, Goto, Steps, PluginCalls

LEMMA FramesType ==
  ASSUME Basic, NEW t \in Threads PROVE Frames(t) \in Nat
  BY DEF Basic, TypeOK, Frames

(* One more frame on the stack of the thread that may take the lock, ...   *)
LEMMA LockTaken ==
  ASSUME Basic, NEW t \in Threads, LockAvailable(t),
         lockOwner' = t, lockDepth' = lockDepth + 1,
         Frames(t)' = Frames(t) + 1,
         \A u \in Threads \ {t} : Frames(u)' = Frames(u)
  PROVE  LockBalanced'
  BY FramesType, StoreAssumption DEF Basic, TypeOK, LockBalanced, LockAvailable

(* ... and one less of the thread that gives it back. *)
LEMMA LockGivenBack ==
  ASSUME Basic, NEW t \in Threads, Release,
         Frames(t) = Frames(t)' + 1, Frames(t)' \in Nat,
         \A u \in Threads \ {t} : Frames(u)' = Frames(u)
  PROVE  LockBalanced'
<1>1. lockOwner \in Threads \cup {NoThread} /\ lockDepth \in Nat /\ LockBalanced
  BY DEF Basic, TypeOK
<1>2. \A u \in Threads : Frames(u) \in Nat
  BY FramesType
<1>3. lockOwner = t /\ lockDepth = Frames(t)
  BY <1>1, <1>2 DEF LockBalanced
<1>4. \A u \in Threads \ {t} : Frames(u)' = 0
  BY <1>1, <1>3 DEF LockBalanced
<1>5. lockDepth' = lockDepth - 1 /\ lockOwner' = IF lockDepth = 1 THEN NoThread ELSE t
  BY <1>3 DEF Release
<1>. QED BY <1>2, <1>3, <1>4, <1>5, StoreAssumption DEF LockBalanced

LEMMA CallBasic ==
  ASSUME Basic, NEW t \in Threads, NEW f \in Calls(t), Call(t, f)
  PROVE  Basic'
<1>1. f \in PluginCalls \cup UserCalls \cup PortCalls
  BY DEF Calls
<1>2. TypeOK'
  BY <1>1 DEF Basic, TypeOK, Call, Goto, Steps, lockVars, storeVars
<1>3. LockBalanced'
  BY DEF Basic, TypeOK, LockBalanced, Call, Goto, Frames, Inside, LockedSteps, lockVars
<1>. QED BY <1>2, <1>3 DEF Basic

LEMMA EnterBasic ==
  ASSUME Basic, NEW t \in Threads, Enter(t)
  PROVE  Basic'
<1>1. CASE fn[t] = "Lock"
  <2>1. TypeOK'
    <3>1. /\ lockOwner' = t /\ lockDepth' = lockDepth + 1 /\ Return(t)
          /\ held' = [held EXCEPT ![t] = @ + 1] /\ UNCHANGED <<leaked, storeVars>>
      BY <1>1 DEF Enter, TakeLock
    <3>2. held' \in [Threads -> Nat] /\ lockOwner' \in Threads \cup {NoThread} /\ lockDepth' \in Nat
      BY <3>1 DEF Basic, TypeOK
    <3>3. step' \in [Threads -> Steps] /\ fn' \in [Threads -> PluginCalls \cup UserCalls \cup PortCalls]
          /\ arg' \in [Threads -> Args] /\ cursor' \in [Threads -> Nat \ {0}]
      BY <3>1, ReturnType DEF Basic
    <3>. QED BY <3>1, <3>2, <3>3 DEF Basic, TypeOK, storeVars
  <2>2. Frames(t)' = Frames(t) + 1 /\ \A u \in Threads \ {t} : Frames(u)' = Frames(u)
    BY <1>1 DEF Basic, TypeOK, Enter, Return, Goto, Frames, Inside, LockedSteps
  <2>. QED BY <2>1, <2>2, LockTaken DEF Basic, Enter, TakeLock
<1>2. CASE fn[t] # "Lock"
  <2>1. PICK a \in ArgsFor(fn[t]) : arg' = [arg EXCEPT ![t] = a]
    BY <1>2 DEF Enter
  <2>2. arg' \in [Threads -> Args]
    BY <2>1, ArgsForType DEF Basic, TypeOK
  <2>3. Goto(t, "enter") /\ UNCHANGED <<leaked, held, fn, cursor, storeVars>>
    BY <1>2 DEF Enter
  <2>4. lockOwner' = t /\ lockDepth' = lockDepth + 1 /\ step[t] = "wait"
    BY DEF Enter, TakeLock
  <2>5. TypeOK'
    BY <2>2, <2>3, <2>4 DEF Basic, TypeOK, Goto, Steps, LockedSteps, storeVars
  <2>6. Frames(t)' = Frames(t) + 1 /\ \A u \in Threads \ {t} : Frames(u)' = Frames(u)
    BY <2>3, <2>4 DEF Basic, TypeOK, Goto, Frames, Inside, LockedSteps
  <2>. QED BY <2>4, <2>5, <2>6, LockTaken DEF Basic, Enter, TakeLock
<1>. QED BY <1>1, <1>2

LEMMA GetNothingBasic ==
  ASSUME Basic, NEW t \in Threads, GetNothing(t)
  PROVE  Basic'
<1>1. TypeOK'
  <2>1. /\ lockOwner' = t /\ lockDepth' = lockDepth + 1 /\ Return(t)
        /\ leaked' = [leaked EXCEPT ![t] = @ + 1] /\ UNCHANGED <<held, storeVars>>
    BY DEF GetNothing, TakeLock
  <2>2. leaked' \in [Threads -> Nat] /\ lockOwner' \in Threads \cup {NoThread} /\ lockDepth' \in Nat
    BY <2>1 DEF Basic, TypeOK
  <2>3. step' \in [Threads -> Steps] /\ fn' \in [Threads -> PluginCalls \cup UserCalls \cup PortCalls]
        /\ arg' \in [Threads -> Args] /\ cursor' \in [Threads -> Nat \ {0}]
    BY <2>1, ReturnType DEF Basic
  <2>. QED BY <2>1, <2>2, <2>3 DEF Basic, TypeOK, storeVars
<1>2. Frames(t)' = Frames(t) + 1 /\ \A u \in Threads \ {t} : Frames(u)' = Frames(u)
  BY DEF Basic, TypeOK, GetNothing, Return, Goto, Frames, Inside, LockedSteps
<1>. QED BY <1>1, <1>2, LockTaken DEF Basic, GetNothing, TakeLock

LEMMA UnlockBasic ==
  ASSUME Basic, NEW t \in Threads, Unlock(t)
  PROVE  Basic'
<1>1. Frames(t) = Frames(t)' + 1 /\ \A u \in Threads \ {t} : Frames(u)' = Frames(u)
  BY DEF Basic, TypeOK, Unlock, Release, Frames, Inside, callVars
<1>2. held' \in [Threads -> Nat]
  BY DEF Basic, TypeOK, Unlock
<1>3. Frames(t)' \in Nat
  BY <1>2 DEF Basic, TypeOK, Unlock, Release, Frames
<1>4. LockBalanced'
  BY <1>1, <1>3, LockGivenBack DEF Unlock
<1>5. lockOwner = t /\ lockDepth > 0
  BY <1>1, <1>3 DEF Basic, LockBalanced
<1>6. TypeOK'
  BY <1>2, <1>5 DEF Basic, TypeOK, Unlock, Release, storeVars, callVars
<1>. QED BY <1>4, <1>6 DEF Basic

LEMMA LeaveBasic ==
  ASSUME Basic, NEW t \in Threads, Leave(t) \/ HandOver(t)
  PROVE  Basic'
<1>1. /\ Frames(t) = Frames(t)' + 1 /\ Frames(t)' \in Nat
      /\ \A u \in Threads \ {t} : Frames(u)' = Frames(u)
  BY DEF Basic, TypeOK, Leave, HandOver, Release, Return, Goto, Frames, Inside, LockedSteps
<1>2. LockBalanced'
  BY <1>1, LockGivenBack DEF Leave, HandOver
<1>3. lockOwner = t /\ lockDepth > 0
  BY <1>1 DEF Basic, LockBalanced
<1>4. TypeOK'
  <2>1. CASE Leave(t)
    BY <1>3, <2>1, ReturnType DEF Basic, TypeOK, Leave, Release, storeVars
  <2>2. CASE HandOver(t)
    BY <1>3, <2>2 DEF Basic, TypeOK, HandOver, Release, Goto, Steps, storeVars
  <2>. QED BY <2>1, <2>2
<1>. QED BY <1>2, <1>4 DEF Basic

(* A step inside a call keeps the lock as it is; so does a step of a port  *)
(* read that is outside before and after.                                  *)
LEMMA SameLock ==
  ASSUME Basic, NEW t \in Threads, NEW s \in Steps, Goto(t, s),
         UNCHANGED <<lockVars, held>>,
         step[t] \in LockedSteps <=> s \in LockedSteps
  PROVE  LockBalanced'
  BY DEF Basic, TypeOK, LockBalanced, Goto, Frames, Inside, lockVars

LEMMA GetValueType ==
  ASSUME Basic, NEW n, GetValue(n)
  PROVE  value' \in [Names -> Data \cup {Undefined}]
  BY DEF Basic, TypeOK, GetValue

LEMMA CountType == ASSUME Basic PROVE Len(keys) \in Nat /\ Len(keys) % CountModulus \in Data
  BY StoreAssumption DEF Basic, TypeOK

LEMMA LookupBasic ==
  ASSUME Basic, NEW t \in Threads, Lookup(t)
  PROVE  Basic'
<1>1. PICK s \in {"insert", "set", "leave", "refresh"} : Goto(t, s)
  BY DEF Lookup
<1>2. LockBalanced'
  BY <1>1, SameLock DEF Lookup, Steps, LockedSteps
<1>3. TypeOK'
  BY <1>1 DEF Basic, TypeOK, Lookup, Goto, Steps, LockedSteps, lockVars, storeVars
<1>. QED BY <1>2, <1>3 DEF Basic

LEMMA RehandleBasic ==
  ASSUME Basic, NEW t \in Threads, Rehandle(t)
  PROVE  Basic'
<1>1. LockBalanced'
  BY SameLock DEF Rehandle, Steps, LockedSteps
<1>2. TypeOK'
  BY DEF Basic, TypeOK, Args, Rehandle, SetHandler, Goto, Steps, LockedSteps, lockVars
<1>. QED BY <1>1, <1>2 DEF Basic

(* setHandler(NULL) is refused: the handlers stay as they are. *)
LEMMA RemoveHandlerBasic ==
  ASSUME Basic, NEW t \in Threads, RemoveHandler(t)
  PROVE  Basic' /\ UNCHANGED handler
<1>1. LockBalanced'
  BY SameLock DEF RemoveHandler, Steps, LockedSteps
<1>2. UNCHANGED handler
  BY DEF RemoveHandler, SetHandler
<1>3. TypeOK'
  BY <1>2 DEF Basic, TypeOK, RemoveHandler, Goto, Steps, LockedSteps, lockVars
<1>. QED BY <1>1, <1>2, <1>3 DEF Basic

LEMMA InsertBasic ==
  ASSUME Basic, NEW t \in Threads, Insert(t)
  PROVE  Basic'
<1>1. LockBalanced'
  BY SameLock DEF Insert, Steps, LockedSteps
<1>2. arg[t] \in Args /\ arg[t].name \in Names /\ arg[t].handler \in Handlers
      /\ arg[t].size \in Sizes /\ arg[t].data \in Data /\ 0 \in Data
  BY StoreAssumption DEF Basic, TypeOK, Args
<1>3. keys' \in Seq(Names)
  BY <1>2 DEF Basic, TypeOK, Insert, Grow
<1>4. TypeOK'
  BY <1>2, <1>3 DEF Basic, TypeOK, Insert, Goto, Steps, LockedSteps, lockVars
<1>. QED BY <1>1, <1>4 DEF Basic

LEMMA ResizeFillBasic ==
  ASSUME Basic, NEW t \in Threads, Resize(t) \/ Fill(t)
  PROVE  Basic'
<1>1. LockBalanced'
  BY SameLock DEF Resize, Fill, Steps, LockedSteps
<1>2. TypeOK'
  BY DEF Basic, TypeOK, Args, Resize, Fill, Goto, Steps, LockedSteps, lockVars
<1>. QED BY <1>1, <1>2 DEF Basic

LEMMA RefreshBasic ==
  ASSUME Basic, NEW t \in Threads, Refresh(t)
  PROVE  Basic'
<1>1. LockBalanced'
  BY SameLock DEF Refresh, Steps, LockedSteps
<1>2. value' \in [Names -> Data \cup {Undefined}]
  BY GetValueType DEF Refresh
<1>3. TypeOK'
  BY <1>2 DEF Basic, TypeOK, Refresh, Goto, Steps, LockedSteps, lockVars
<1>. QED BY <1>1, <1>3 DEF Basic

LEMMA PublishBasic ==
  ASSUME Basic, NEW t \in Threads, Publish(t)
  PROVE  Basic'
<1>1. PICK s \in {"refresh", "leave"} : Goto(t, s)
  BY DEF Publish
<1>2. LockBalanced'
  BY <1>1, SameLock DEF Publish, Steps, LockedSteps
<1>3. value' \in [Names -> Data \cup {Undefined}]
  BY CountType DEF Basic, TypeOK, Publish, UpdateSharpKey
<1>4. values' \in [Names -> Data \cup {Undefined, Absent}]
  BY DEF Basic, TypeOK, Publish, PublishValue
<1>5. cursor' \in [Threads -> Nat \ {0}]
  <2>1. cursor' = cursor \/ cursor' = [cursor EXCEPT ![t] = @ + 1]
    BY DEF Publish, NextKey
  <2>2. cursor \in [Threads -> Nat \ {0}]
    BY DEF Basic, TypeOK
  <2>. QED BY <2>1, <2>2
<1>6. step' \in [Threads -> Steps]
  BY <1>1 DEF Basic, TypeOK, Goto, Steps, LockedSteps
<1>7. TypeOK'
  <2>1. UNCHANGED <<lockOwner, lockDepth, leaked, held, keys, handler, size, fn, arg>>
    BY DEF Publish, lockVars
  <2>. QED BY <1>3, <1>4, <1>5, <1>6, <2>1 DEF Basic, TypeOK
<1>. QED BY <1>2, <1>7 DEF Basic

LEMMA PortBasic ==
  ASSUME Basic, NEW t \in Threads, PortLookup(t) \/ PortRefresh(t) \/ Copy(t)
  PROVE  Basic'
<1>1. PICK s \in {"portRefresh", "copy", "idle"} : Goto(t, s)
  BY DEF PortLookup, PortRefresh, Copy, Return
<1>2. LockBalanced'
  BY <1>1, SameLock DEF PortLookup, PortRefresh, Copy, Steps, LockedSteps
<1>3. value' \in [Names -> Data \cup {Undefined}]
  BY GetValueType DEF Basic, TypeOK, PortLookup, PortRefresh, Copy, storeVars
<1>4. arg' \in [Threads -> Args]
  BY ArgsForType, ReturnType
     DEF Basic, TypeOK, PortLookup, PortRefresh, Copy
<1>5. /\ fn' \in [Threads -> PluginCalls \cup UserCalls \cup PortCalls]
      /\ cursor' \in [Threads -> Nat \ {0}]
  BY ReturnType DEF Basic, TypeOK, PortLookup, PortRefresh, Copy
<1>6. TypeOK'
  BY <1>1, <1>3, <1>4, <1>5
     DEF Basic, TypeOK, PortLookup, PortRefresh, Copy, Goto, Steps, lockVars, storeVars
<1>. QED BY <1>2, <1>6 DEF Basic

(* Type correctness and the balance of device_lock, for all threads and    *)
(* all depths.                                                             *)
LEMMA NextBasic == Basic /\ [Next]_vars => Basic'
<1>. SUFFICES ASSUME Basic, [Next]_vars PROVE Basic'
  OBVIOUS
<1>1. CASE UNCHANGED vars
  BY <1>1 DEF Basic, TypeOK, LockBalanced, Frames, Inside,
              vars, lockVars, storeVars, callVars
<1>2. CASE Next
  <2>1. PICK t \in Threads :
          \/ \E f \in Calls(t) : Call(t, f)
          \/ Enter(t) \/ GetNothing(t) \/ Unlock(t) \/ PortLookup(t) \/ Work(t)
    BY <1>2 DEF Next
  <2>2. CASE Work(t)
    BY <2>2, InsertBasic, RehandleBasic, LookupBasic, RemoveHandlerBasic, ResizeFillBasic,
       RefreshBasic, PublishBasic, PortBasic, LeaveBasic DEF Work
  <2>. QED
    BY <2>1, <2>2, CallBasic, EnterBasic, GetNothingBasic, UnlockBasic, PortBasic
<1>. QED BY <1>1, <1>2

LEMMA InitBasic == Init => Basic
<1>. SUFFICES ASSUME Init PROVE Basic
  OBVIOUS
<1>1. Len(Preloaded) % CountModulus \in Data /\ 0 \in Data
  BY StoreAssumption
<1>2. TypeOK
  BY <1>1, NoArgsType, StoreAssumption DEF Init, TypeOK, Args, Steps, PluginCalls
<1>3. LockBalanced
  BY StoreAssumption DEF Init, LockBalanced, Frames, Inside, LockedSteps
<1>. QED BY <1>2, <1>3 DEF Basic

LEMMA SpecBasic == Spec => []Basic
  BY InitBasic, NextBasic, PTL DEF Spec

(* Every variable stays in its type, for any number of threads, keys,      *)
(* handlers, sizes and values.                                             *)
THEOREM TypeCorrect == Spec => []TypeOK
  BY SpecBasic, PTL DEF Basic

(* device_lock is owned exactly by the thread that is inside a call of     *)
(* FakeSMCDevice, holds it explicitly, or has got it for ever by asking    *)
(* for a value without a name, once for each of these.                     *)
THEOREM LockIsBalanced == Spec => []LockBalanced
  BY SpecBasic, PTL DEF Basic
--------------------------------------------------------------------------------
(* The critical sections exclude each other. *)
LEMMA MutualExclusion ==
  ASSUME Basic, NEW t \in Threads, Inside(t), NEW u \in Threads \ {t}
  PROVE  ~Inside(u)
<1>1. lockOwner = t
  BY DEF Basic, TypeOK, LockBalanced, Frames
<1>. QED BY <1>1 DEF Basic, TypeOK, LockBalanced, Frames

Good == Basic /\ StoreInv

LEMMA InsertingInside == ASSUME NEW t, Inserting(t) PROVE Inside(t)
  BY DEF Inserting, Inside, LockedSteps

(* While a thread inside the store is not inserting, all keys are shown. *)
LEMMA AllShown ==
  ASSUME Basic, NEW t \in Threads, Inside(t), ~Inserting(t)
  PROVE  Shown = Len(keys)
  BY MutualExclusion, InsertingInside DEF Shown

LEMMA ShownType == ASSUME Good PROVE Shown \in Nat /\ Shown <= Len(keys) /\ Len(keys) \in Nat
  BY DEF Good, Basic, TypeOK, StoreInv, Shown

(* A step of a thread that was outside the store and stays outside, or has *)
(* just come in: at most the value of a key with a handler changes.        *)
LEMMA OutsideStep ==
  ASSUME Good, NEW t \in Threads, ~Inside(t),
         UNCHANGED <<keys, handler, values>>,
         \A u \in Threads \ {t} :
           /\ fn'[u] = fn[u] /\ step'[u] = step[u]
           /\ arg'[u] = arg[u] /\ cursor'[u] = cursor[u],
         CallInv(t)', ~Inserting(t)',
         \A n \in Names : value'[n] = value[n] \/ (value'[n] \in Data /\ handler[n] # NoHandler)
  PROVE  StoreInv'
<1>1. \A u \in Threads : CallInv(u)'
  <2>1. SUFFICES ASSUME NEW u \in Threads \ {t} PROVE CallInv(u)'
    OBVIOUS
  <2>. QED
    BY DEF Good, StoreInv, CallInv, Inside, Inserting, Found, Present
<1>2. Shown' = Shown
  <2>1. \A u \in Threads : Inserting(u)' <=> Inserting(u)
    BY InsertingInside DEF Inserting
  <2>. QED BY <2>1 DEF Shown
<1>3. SharpKey \in Names
  BY StoreAssumption
<1>4. value'[SharpKey] = value[SharpKey]
  BY <1>3 DEF Good, StoreInv
<1>5. \A n \in Names : value'[n] = Undefined =>
        \E u \in Threads : step'[u] = "fill" /\ arg'[u].name = n
  <2>1. SUFFICES ASSUME NEW n \in Names, value'[n] = Undefined
                 PROVE \E u \in Threads : step'[u] = "fill" /\ arg'[u].name = n
    OBVIOUS
  <2>2. value[n] = Undefined
    BY <2>1, StoreAssumption
  <2>3. PICK u \in Threads : step[u] = "fill" /\ arg[u].name = n
    BY <2>2 DEF Good, StoreInv
  <2>4. u # t
    BY <2>3 DEF Inside, LockedSteps
  <2>. QED BY <2>3, <2>4
<1>. QED BY <1>1, <1>2, <1>4, <1>5 DEF Good, StoreInv

(* A step of a thread inside the store: nobody else is inside. *)
LEMMA InsideStep ==
  ASSUME Good, NEW t \in Threads, Inside(t),
         \A u \in Threads \ {t} : step'[u] = step[u] /\ cursor'[u] = cursor[u],
         CallInv(t)'
  PROVE  /\ \A u \in Threads : CallInv(u)'
         /\ Shown' = IF Inserting(t)' THEN Len(keys)' - 1 ELSE Len(keys)'
<1>1. \A u \in Threads \ {t} : ~Inside(u) /\ ~Inside(u)'
  BY MutualExclusion DEF Good, Inside
<1>2. \A u \in Threads \ {t} : ~Inserting(u)'
  BY <1>1 DEF Inserting, Inside, LockedSteps
<1>3. \A u \in Threads \ {t} : CallInv(u)'
  BY <1>1 DEF Good, StoreInv, CallInv
<1>. QED BY <1>2, <1>3 DEF Shown

LEMMA CallStore ==
  ASSUME Good, NEW t \in Threads, NEW f \in Calls(t), Call(t, f)
  PROVE  StoreInv'
<1>1. step[t] = "idle" /\ step'[t] = "wait" /\ cursor' = cursor
  BY DEF Good, Basic, TypeOK, Call, Goto
<1>2. ~Inside(t) /\ ~Inside(t)' /\ ~Inserting(t)'
  BY <1>1 DEF Inside, LockedSteps, Inserting
<1>3. CallInv(t)'
  BY <1>1, <1>2 DEF Good, StoreInv, CallInv
<1>. QED
  BY <1>2, <1>3, OutsideStep DEF Good, Basic, TypeOK, Call, Goto, storeVars

LEMMA EnterStore ==
  ASSUME Good, NEW t \in Threads, Enter(t)
  PROVE  StoreInv'
<1>1. ~Inside(t) /\ UNCHANGED storeVars
  BY DEF Enter, Inside, LockedSteps
<1>2. CASE fn[t] = "Lock"
  <2>1. CallInv(t)' /\ ~Inserting(t)'
    BY <1>2 DEF Good, Basic, TypeOK, Enter, Return, Goto, Inside, LockedSteps, CallInv, Inserting
  <2>. QED
    BY <1>1, <1>2, <2>1, OutsideStep DEF Good, Basic, TypeOK, Enter, Return, Goto, storeVars
<1>3. CASE fn[t] # "Lock"
  <2>1. PICK a \in ArgsFor(fn[t]) : arg' = [arg EXCEPT ![t] = a]
    BY <1>3 DEF Enter
  <2>2. /\ Goto(t, "enter") /\ UNCHANGED <<fn, cursor>>
        /\ fn[t] # "PortRead"
    BY <1>3 DEF Enter
  <2>3. fn[t] \in Adds \cup {"SetKeyValue", "Update"} => a.name # SharpKey
    BY <2>1 DEF ArgsFor, Adds
  <2>4. step' = [step EXCEPT ![t] = "enter"]
    BY <2>2 DEF Goto
  <2>5. cursor[t] = 1 /\ Len(keys) > 1
    BY <1>1 DEF Good, StoreInv, CallInv
  <2>6. CallInv(t)' /\ ~Inserting(t)'
    BY <1>1, <2>1, <2>2, <2>3, <2>4, <2>5
       DEF Good, Basic, TypeOK, Inside, LockedSteps, CallInv, Inserting, storeVars
  <2>. QED
    BY <1>1, <2>1, <2>2, <2>4, <2>6, OutsideStep DEF Good, Basic, TypeOK, storeVars
<1>. QED BY <1>2, <1>3

LEMMA GetNothingStore ==
  ASSUME Good, NEW t \in Threads, GetNothing(t)
  PROVE  StoreInv'
<1>1. ~Inside(t) /\ CallInv(t)' /\ ~Inserting(t)'
  BY DEF Good, Basic, TypeOK, GetNothing, Return, Goto, Inside, LockedSteps, CallInv, Inserting
<1>. QED
  BY <1>1, OutsideStep DEF Good, Basic, TypeOK, GetNothing, Return, Goto, storeVars

LEMMA UnlockStore ==
  ASSUME Good, NEW t \in Threads, Unlock(t)
  PROVE  StoreInv'
<1>1. ~Inside(t) /\ CallInv(t)' /\ ~Inserting(t)'
  BY DEF Good, StoreInv, Unlock, Inside, LockedSteps, CallInv, Inserting, callVars, storeVars
<1>. QED
  BY <1>1, OutsideStep DEF Unlock, storeVars, callVars

LEMMA PortStore ==
  ASSUME Good, NEW t \in Threads, PortLookup(t) \/ PortRefresh(t) \/ Copy(t)
  PROVE  StoreInv'
<1>1. PICK s \in {"portRefresh", "copy", "idle"} : Goto(t, s)
  BY DEF PortLookup, PortRefresh, Copy, Return
<1>2. ~Inside(t) /\ ~Inside(t)' /\ ~Inserting(t)' /\ cursor[t] = 1
  BY <1>1 DEF Good, Basic, TypeOK, StoreInv, CallInv, PortLookup, PortRefresh, Copy, Goto,
              Inside, Inserting, LockedSteps
<1>3. CallInv(t)'
  BY <1>2 DEF Good, Basic, TypeOK, CallInv, PortLookup, PortRefresh, Copy, Return
<1>4. \A n \in Names : value'[n] = value[n] \/ (value'[n] \in Data /\ handler[n] # NoHandler)
  BY DEF Good, Basic, TypeOK, PortLookup, PortRefresh, Copy, GetValue, storeVars
<1>5. UNCHANGED <<keys, handler, values>>
  BY DEF PortLookup, PortRefresh, Copy, storeVars
<1>6. \A u \in Threads \ {t} :
        /\ fn'[u] = fn[u] /\ step'[u] = step[u]
        /\ arg'[u] = arg[u] /\ cursor'[u] = cursor[u]
  BY <1>1 DEF Good, Basic, TypeOK, PortLookup, PortRefresh, Copy, Return, Goto
<1>. QED
  BY <1>2, <1>3, <1>4, <1>5, <1>6, OutsideStep

(* The steps inside a call that leave the store as it is. *)
LEMMA QuietStep ==
  ASSUME Good, NEW t \in Threads, Inside(t), ~Inserting(t), ~Inserting(t)',
         step[t] # "fill",
         \A u \in Threads \ {t} :
           step'[u] = step[u] /\ cursor'[u] = cursor[u] /\ arg'[u] = arg[u],
         UNCHANGED <<keys, size, value, values>>,
         handler'[SharpKey] = handler[SharpKey],
         CallInv(t)'
  PROVE  StoreInv'
<1>1. (\A u \in Threads : CallInv(u)') /\ Shown' = Shown
  BY InsideStep, AllShown DEF Good
<1>2. \A n \in Names : value'[n] = Undefined =>
        \E u \in Threads : step'[u] = "fill" /\ arg'[u].name = n
  <2>1. SUFFICES ASSUME NEW n \in Names, value'[n] = Undefined
                 PROVE \E u \in Threads : step'[u] = "fill" /\ arg'[u].name = n
    OBVIOUS
  <2>2. PICK u \in Threads : step[u] = "fill" /\ arg[u].name = n
    BY <2>1 DEF Good, StoreInv
  <2>. QED BY <2>2
<1>. QED BY <1>1, <1>2 DEF Good, StoreInv

LEMMA LeaveStore ==
  ASSUME Good, NEW t \in Threads, Leave(t)
  PROVE  StoreInv'
<1>1. Inside(t) /\ ~Inserting(t) /\ ~Inserting(t)' /\ CallInv(t)'
  BY DEF Good, Basic, TypeOK, Leave, Return, Goto, Inside, LockedSteps, CallInv, Inserting
<1>. QED
  BY <1>1, QuietStep DEF Good, Basic, TypeOK, Leave, Return, Goto, storeVars

LEMMA HandOverStore ==
  ASSUME Good, NEW t \in Threads, HandOver(t)
  PROVE  StoreInv'
<1>1. /\ step[t] = "handOver" /\ step' = [step EXCEPT ![t] = "copy"]
      /\ UNCHANGED <<storeVars, fn, arg, cursor>>
  BY DEF HandOver, Goto
<1>2. Inside(t) /\ ~Inserting(t) /\ ~Inside(t)' /\ ~Inserting(t)'
  BY <1>1 DEF Good, Basic, TypeOK, Inside, LockedSteps, Inserting
<1>3. cursor[t] = 1
  BY <1>1, <1>2 DEF Good, StoreInv, CallInv
<1>4. CallInv(t)'
  BY <1>1, <1>2, <1>3 DEF CallInv
<1>. QED
  BY <1>1, <1>2, <1>4, QuietStep DEF Good, Basic, TypeOK, storeVars


LEMMA LookupStore ==
  ASSUME Good, NEW t \in Threads, Lookup(t)
  PROVE  StoreInv'
<1>1. PICK s \in {"insert", "set", "leave", "refresh"} :
        /\ step' = [step EXCEPT ![t] = s]
        /\ s = "insert" => fn[t] \in Adds /\ ~Found(t)
        /\ s = "set" => fn[t] \in (Adds \cup {"SetKeyValue", "Update"}) /\ Found(t)
        /\ s = "refresh" => fn[t] \in {"GetKeyValue", "Populate"}
        /\ s = "refresh" /\ fn[t] # "Populate" => Found(t)
  BY DEF Lookup, Goto, Adds
<1>2. step[t] = "enter" /\ Inside(t) /\ Inside(t)' /\ UNCHANGED <<storeVars, fn, arg, cursor>>
  BY <1>1 DEF Good, Basic, TypeOK, Lookup, Inside, LockedSteps
<1>3. ~Inserting(t) /\ ~Inserting(t)'
  BY <1>1, <1>2 DEF Good, Basic, TypeOK, Inserting, Adds
<1>4. CallInv(t)
  BY DEF Good, StoreInv
<1>5. CallInv(t)'
  BY <1>1, <1>2, <1>3, <1>4
     DEF Good, Basic, TypeOK, CallInv, Found, storeVars
<1>. QED
  BY <1>1, <1>2, <1>3, <1>5, QuietStep DEF Good, Basic, TypeOK, storeVars

LEMMA RehandleStore ==
  ASSUME Good, NEW t \in Threads, Rehandle(t) \/ RemoveHandler(t)
  PROVE  StoreInv'
<1>1. step' = [step EXCEPT ![t] = "leave"] /\ UNCHANGED <<keys, size, value, values, fn, arg, cursor>>
  BY DEF Rehandle, RemoveHandler, Goto
<1>2. step[t] = "enter" /\ Inside(t) /\ Inside(t)'
  BY <1>1 DEF Good, Basic, TypeOK, Rehandle, RemoveHandler, Inside, LockedSteps
<1>3. ~Inserting(t) /\ ~Inserting(t)'
  BY <1>1, <1>2 DEF Good, Basic, TypeOK, Inserting
<1>4. CallInv(t)
  BY DEF Good, StoreInv
<1>5. CallInv(t)'
  BY <1>1, <1>2, <1>3, <1>4 DEF Good, Basic, TypeOK, CallInv
<1>6. handler'[SharpKey] = handler[SharpKey]
  <2>1. CASE Rehandle(t)
    <3>1. arg[t].name # SharpKey
      BY <1>2, <1>4, <2>1 DEF CallInv, Rehandle, Adds
    <3>. QED BY <2>1, <3>1, StoreAssumption DEF Good, Basic, TypeOK, Rehandle, SetHandler
  <2>2. CASE RemoveHandler(t)
    BY <2>2, RemoveHandlerBasic DEF Good
  <2>. QED BY <2>1, <2>2
<1>. QED
  BY <1>1, <1>2, <1>3, <1>5, <1>6, QuietStep DEF Good, Basic, TypeOK

LEMMA InsertStore ==
  ASSUME Good, NEW t \in Threads, Insert(t)
  PROVE  StoreInv'
<1>. DEFINE n == arg[t].name
<1>1. /\ step' = [step EXCEPT ![t] = "refresh"] /\ UNCHANGED <<values, fn, arg, cursor>>
      /\ keys' = Append(keys, n) /\ step[t] = "insert"
  BY DEF Insert, Grow, Goto
<1>2. /\ Inside(t) /\ Inside(t)' /\ fn[t] \in Adds /\ ~Found(t) /\ n # SharpKey
      /\ cursor[t] = 1
  BY <1>1 DEF Good, Basic, TypeOK, StoreInv, CallInv, Inside, LockedSteps, Adds
<1>3. Inserting(t)' /\ ~Inserting(t)
  BY <1>1, <1>2 DEF Good, Basic, TypeOK, Inserting
<1>4. n \in Names /\ SharpKey \in Names /\ keys \in Seq(Names) /\ Len(keys) \in Nat
  BY StoreAssumption DEF Good, Basic, TypeOK, Args
<1>5. /\ Len(keys)' = Len(keys) + 1 /\ keys'[Len(keys)'] = n
      /\ \A i \in 1..Len(keys) : keys'[i] = keys[i]
  BY <1>1, <1>4
<1>6. Found(t)'
  BY <1>1, <1>4, <1>5 DEF Found, Present
<1>7. CallInv(t)'
  BY <1>1, <1>2, <1>3, <1>5, <1>6 DEF Good, Basic, TypeOK, CallInv, Adds
<1>8. (\A u \in Threads : CallInv(u)') /\ Shown' = Len(keys) /\ Shown = Len(keys)
  BY <1>1, <1>2, <1>3, <1>4, <1>5, <1>7, InsideStep, AllShown DEF Good, Basic, TypeOK
<1>9. Injective(keys)'
  BY <1>2, <1>4, <1>5 DEF Good, StoreInv, Injective, Found, Present
<1>10. \A m \in Names \ {n} : value'[m] = value[m] /\ handler'[m] = handler[m]
  BY DEF Good, Basic, TypeOK, Insert
<1>11. value'[n] # Undefined
  BY <1>4, StoreAssumption DEF Good, Basic, TypeOK, Args, Insert
<1>12. \A m \in Names : value'[m] = Undefined =>
        \E u \in Threads : step'[u] = "fill" /\ arg'[u].name = m
  <2>1. SUFFICES ASSUME NEW m \in Names, value'[m] = Undefined
                 PROVE \E u \in Threads : step'[u] = "fill" /\ arg'[u].name = m
    OBVIOUS
  <2>2. PICK u \in Threads : step[u] = "fill" /\ arg[u].name = m
    BY <1>10, <1>11, <2>1 DEF Good, StoreInv
  <2>. QED BY <1>1, <2>2 DEF Good, Basic, TypeOK
<1>13. \A m \in Names : values'[m] # Absent <=> \E i \in 1..Shown' : keys'[i] = m
  BY <1>1, <1>5, <1>8 DEF Good, StoreInv
<1>14. /\ Len(keys)' > 1 /\ keys'[1] = SharpKey /\ handler'[SharpKey] = NoHandler
       /\ value'[SharpKey] = Shown' % CountModulus
  BY <1>2, <1>4, <1>5, <1>8, <1>10 DEF Good, StoreInv
<1>. QED
  BY <1>1, <1>8, <1>9, <1>12, <1>13, <1>14 DEF Good, StoreInv

LEMMA ResizeStore ==
  ASSUME Good, NEW t \in Threads, Resize(t)
  PROVE  StoreInv'
<1>. DEFINE n == arg[t].name
<1>1. /\ step[t] = "set" /\ step' = [step EXCEPT ![t] = "fill"]
      /\ UNCHANGED <<keys, handler, values, fn, arg, cursor>>
      /\ value' = [value EXCEPT ![n] = Undefined]
  BY DEF Resize, Goto
<1>2. Inside(t) /\ Inside(t)' /\ step'[t] = "fill"
  BY <1>1 DEF Good, Basic, TypeOK, Inside, LockedSteps
<1>3. CallInv(t)
  BY DEF Good, StoreInv
<1>4. n # SharpKey /\ ~Inserting(t) /\ ~Inserting(t)'
  BY <1>1, <1>2, <1>3 DEF CallInv, Inserting
<1>5. CallInv(t)'
  BY <1>1, <1>2, <1>3, <1>4 DEF CallInv, Found
<1>6. (\A u \in Threads : CallInv(u)') /\ Shown' = Shown
  BY <1>1, <1>2, <1>4, <1>5, InsideStep, AllShown DEF Good, Basic, TypeOK
<1>7. value'[SharpKey] = value[SharpKey]
  BY <1>1, <1>4, StoreAssumption DEF Good, Basic, TypeOK
<1>8. \A m \in Names : value'[m] = Undefined =>
        \E u \in Threads : step'[u] = "fill" /\ arg'[u].name = m
  <2>1. SUFFICES ASSUME NEW m \in Names, value'[m] = Undefined
                 PROVE \E u \in Threads : step'[u] = "fill" /\ arg'[u].name = m
    OBVIOUS
  <2>2. CASE m = n
    BY <1>1, <1>2, <2>2
  <2>3. CASE m # n
    <3>1. PICK u \in Threads : step[u] = "fill" /\ arg[u].name = m
      BY <1>1, <2>1, <2>3 DEF Good, Basic, TypeOK, StoreInv
    <3>. QED BY <1>1, <3>1 DEF Good, Basic, TypeOK
  <2>. QED BY <2>2, <2>3
<1>. QED BY <1>1, <1>6, <1>7, <1>8 DEF Good, StoreInv

LEMMA FillStore ==
  ASSUME Good, NEW t \in Threads, Fill(t)
  PROVE  StoreInv'
<1>. DEFINE n == arg[t].name
<1>1. PICK s \in {"refresh", "leave"} :
        step' = [step EXCEPT ![t] = s] /\ (s = "refresh" => fn[t] = "Update")
  BY DEF Fill, Goto
<1>2. /\ step[t] \in {"set", "fill"} /\ UNCHANGED <<keys, handler, values, fn, arg, cursor>>
      /\ value' = [value EXCEPT ![n] = arg[t].data]
  BY DEF Fill
<1>3. Inside(t) /\ Inside(t)'
  BY <1>1, <1>2 DEF Good, Basic, TypeOK, Inside, LockedSteps
<1>4. CallInv(t) /\ n \in Names /\ arg[t].data \in Data /\ SharpKey \in Names
  BY StoreAssumption DEF Good, Basic, TypeOK, Args, StoreInv
<1>5. n # SharpKey /\ ~Inserting(t) /\ ~Inserting(t)'
  BY <1>1, <1>2, <1>3, <1>4 DEF Good, Basic, TypeOK, CallInv, Inserting, Adds
<1>6. CallInv(t)'
  BY <1>1, <1>2, <1>3, <1>4, <1>5 DEF Good, Basic, TypeOK, CallInv, Found, Adds
<1>7. (\A u \in Threads : CallInv(u)') /\ Shown' = Shown
  BY <1>1, <1>2, <1>3, <1>5, <1>6, InsideStep, AllShown DEF Good, Basic, TypeOK
<1>8. value'[SharpKey] = value[SharpKey]
  BY <1>2, <1>4, <1>5 DEF Good, Basic, TypeOK
<1>9. \A m \in Names : value'[m] = Undefined =>
        \E u \in Threads : step'[u] = "fill" /\ arg'[u].name = m
  <2>1. SUFFICES ASSUME NEW m \in Names, value'[m] = Undefined
                 PROVE \E u \in Threads : step'[u] = "fill" /\ arg'[u].name = m
    OBVIOUS
  <2>2. m # n /\ value[m] = Undefined
    BY <1>2, <1>4, <2>1, StoreAssumption DEF Good, Basic, TypeOK
  <2>3. PICK u \in Threads : step[u] = "fill" /\ arg[u].name = m
    BY <2>2 DEF Good, StoreInv
  <2>4. u # t
    BY <2>2, <2>3
  <2>. QED BY <1>1, <1>2, <2>3, <2>4 DEF Good, Basic, TypeOK
<1>. QED BY <1>2, <1>7, <1>8, <1>9 DEF Good, StoreInv

(* The key that a step inside the store works on is one of the keys, and   *)
(* its buffer holds a value.                                               *)
LEMMA TargetDefined ==
  ASSUME Good, NEW t \in Threads, step[t] \in {"refresh", "publish"}
  PROVE  /\ \E i \in 1..Len(keys) : keys[i] = Target(t)
         /\ Target(t) \in Names
         /\ value[Target(t)] # Undefined
<1>1. Inside(t) /\ CallInv(t)
  BY DEF Good, StoreInv, Inside, LockedSteps
<1>2. \E i \in 1..Len(keys) : keys[i] = Target(t)
  <2>1. CASE fn[t] = "Populate"
    <3>1. cursor[t] \in 1..Len(keys)
      BY <1>1, <2>1 DEF Good, Basic, TypeOK, CallInv
    <3>. QED BY <2>1, <3>1 DEF Target
  <2>2. CASE fn[t] # "Populate"
    BY <1>1, <2>2 DEF CallInv, Target, Found, Present
  <2>. QED BY <2>1, <2>2
<1>3. Target(t) \in Names
  BY <1>2 DEF Good, Basic, TypeOK
<1>4. \A u \in Threads : step[u] # "fill"
  BY <1>1, MutualExclusion DEF Good, Inside, LockedSteps
<1>. QED BY <1>2, <1>3, <1>4 DEF Good, StoreInv

LEMMA RefreshStore ==
  ASSUME Good, NEW t \in Threads, Refresh(t)
  PROVE  StoreInv'
<1>1. PICK s \in {"handOver", "publish"} :
        step' = [step EXCEPT ![t] = s] /\ (s = "handOver" <=> fn[t] = "GetKeyValue")
  BY DEF Refresh, Goto
<1>2. step[t] = "refresh" /\ UNCHANGED <<keys, handler, values, fn, arg, cursor>>
  BY DEF Refresh
<1>3. Inside(t) /\ Inside(t)' /\ CallInv(t)
  BY <1>1, <1>2 DEF Good, Basic, TypeOK, StoreInv, Inside, LockedSteps
<1>4. Inserting(t) <=> Inserting(t)'
  BY <1>1, <1>2 DEF Good, Basic, TypeOK, Inserting, Adds
<1>5. CallInv(t)'
  BY <1>1, <1>2, <1>3, <1>4 DEF Good, Basic, TypeOK, CallInv, Found
<1>6. /\ \A u \in Threads : CallInv(u)'
      /\ Shown' = IF Inserting(t)' THEN Len(keys)' - 1 ELSE Len(keys)'
  BY <1>1, <1>2, <1>3, <1>5, InsideStep DEF Good, Basic, TypeOK
<1>7. Shown' = Shown
  BY <1>2, <1>3, <1>4, <1>6, AllShown DEF Good, Shown
<1>8. /\ value'[SharpKey] = value[SharpKey]
      /\ \A m \in Names : value'[m] = value[m] \/ value'[m] # Undefined
  BY StoreAssumption DEF Good, Basic, TypeOK, StoreInv, Refresh, GetValue
<1>9. \A m \in Names : value'[m] = Undefined =>
        \E u \in Threads : step'[u] = "fill" /\ arg'[u].name = m
  <2>1. SUFFICES ASSUME NEW m \in Names, value'[m] = Undefined
                 PROVE \E u \in Threads : step'[u] = "fill" /\ arg'[u].name = m
    OBVIOUS
  <2>2. PICK u \in Threads : step[u] = "fill" /\ arg[u].name = m
    BY <1>8, <2>1 DEF Good, StoreInv
  <2>. QED BY <1>1, <1>2, <2>2 DEF Good, Basic, TypeOK
<1>. QED BY <1>2, <1>6, <1>7, <1>8, <1>9 DEF Good, StoreInv

LEMMA PublishStore ==
  ASSUME Good, NEW t \in Threads, Publish(t)
  PROVE  StoreInv'
<1>. DEFINE n == Target(t)
<1>1. PICK s \in {"refresh", "leave"} :
        /\ step' = [step EXCEPT ![t] = s]
        /\ s = "refresh" => /\ fn[t] = "Populate" /\ cursor[t] < Len(keys)
                            /\ cursor' = [cursor EXCEPT ![t] = @ + 1]
        /\ s = "leave" => cursor' = cursor
  BY DEF Publish, Goto, NextKey
<1>2. step[t] = "publish" /\ UNCHANGED <<keys, handler, fn, arg>>
  BY DEF Publish
<1>3. Inside(t) /\ Inside(t)' /\ CallInv(t)
  BY <1>1, <1>2 DEF Good, Basic, TypeOK, StoreInv, Inside, LockedSteps
<1>4. ~Inserting(t)' /\ (Inserting(t) <=> fn[t] \in Adds)
  BY <1>1, <1>2 DEF Good, Basic, TypeOK, Inserting, Adds
<1>5. CallInv(t)'
  BY <1>1, <1>2, <1>3, <1>4 DEF Good, Basic, TypeOK, CallInv, Found
<1>6. (\A u \in Threads : CallInv(u)') /\ Shown' = Len(keys)
  BY <1>1, <1>2, <1>3, <1>4, <1>5, InsideStep DEF Good, Basic, TypeOK
<1>7. value'[SharpKey] = Shown' % CountModulus
  <2>1. CASE fn[t] \in Adds
    BY <1>6, <2>1, StoreAssumption DEF Good, Basic, TypeOK, Publish, UpdateSharpKey
  <2>2. CASE fn[t] \notin Adds
    BY <1>3, <1>4, <1>6, <2>2, AllShown DEF Good, StoreInv, Publish
  <2>. QED BY <2>1, <2>2
<1>8. (\E i \in 1..Len(keys) : keys[i] = n) /\ n \in Names /\ value[n] # Undefined
  BY <1>2, TargetDefined
<1>9. value[n] # Absent
  BY <1>8, StoreAssumption DEF Good, Basic, TypeOK
<1>10. values' = [values EXCEPT ![n] = value[n]]
  BY DEF Publish, PublishValue
<1>11. \A m \in Names : values'[m] # Absent <=> \E i \in 1..Shown' : keys'[i] = m
  <2>1. CASE fn[t] \in Adds
    <3>1. Shown = Len(keys) - 1 /\ keys[Len(keys)] = n
      BY <1>3, <1>4, <2>1 DEF CallInv, Shown, Target, Adds
    <3>2. Len(keys) \in Nat /\ Len(keys) > 1
      BY DEF Good, Basic, TypeOK, StoreInv
    <3>3. ASSUME NEW m \in Names \ {n}
          PROVE values'[m] # Absent <=> \E i \in 1..Len(keys) : keys[i] = m
      BY <1>10, <3>1, <3>2 DEF Good, Basic, TypeOK, StoreInv
    <3>. QED BY <1>2, <1>6, <1>8, <1>9, <1>10, <3>3 DEF Good, Basic, TypeOK
  <2>2. CASE fn[t] \notin Adds
    <3>1. Shown = Len(keys)
      BY <1>3, <1>4, <2>2, AllShown DEF Good
    <3>. QED BY <1>2, <1>6, <1>8, <1>9, <1>10, <3>1 DEF Good, Basic, TypeOK, StoreInv
  <2>. QED BY <2>1, <2>2
<1>12. \A m \in Names : values'[m] # Undefined
  BY <1>8, <1>10 DEF Good, Basic, TypeOK, StoreInv
<1>13. \A m \in Names : value'[m] = Undefined =>
        \E u \in Threads : step'[u] = "fill" /\ arg'[u].name = m
  <2>1. SUFFICES ASSUME NEW m \in Names, value'[m] = Undefined
                 PROVE \E u \in Threads : step'[u] = "fill" /\ arg'[u].name = m
    OBVIOUS
  <2>2. value[m] = Undefined
    BY <2>1, CountType, StoreAssumption DEF Good, Basic, TypeOK, Publish, UpdateSharpKey
  <2>3. PICK u \in Threads : step[u] = "fill" /\ arg[u].name = m
    BY <2>2 DEF Good, StoreInv
  <2>. QED BY <1>1, <1>2, <2>3 DEF Good, Basic, TypeOK
<1>. QED BY <1>2, <1>6, <1>7, <1>11, <1>12, <1>13 DEF Good, StoreInv

LEMMA NextGood == Good /\ [Next]_vars => Good'
<1>. SUFFICES ASSUME Good, [Next]_vars PROVE StoreInv'
  BY NextBasic DEF Good
<1>1. CASE UNCHANGED vars
  BY <1>1 DEF Good, StoreInv, CallInv, Inside, Inserting, Found, Present, Shown,
              vars, storeVars, callVars
<1>2. CASE Next
  <2>1. PICK t \in Threads :
          \/ \E f \in Calls(t) : Call(t, f)
          \/ Enter(t) \/ GetNothing(t) \/ Unlock(t) \/ PortLookup(t) \/ Work(t)
    BY <1>2 DEF Next
  <2>2. CASE Work(t)
    BY <2>2, InsertStore, RehandleStore, LookupStore, ResizeStore, FillStore,
       RefreshStore, PublishStore, HandOverStore, PortStore, LeaveStore DEF Work
  <2>. QED
    BY <2>1, <2>2, CallStore, EnterStore, GetNothingStore, UnlockStore, PortStore
<1>. QED BY <1>1, <1>2

LEMMA InitGood == Init => Good
<1>. SUFFICES ASSUME Init PROVE StoreInv
  BY InitBasic DEF Good
<1>1. \A t \in Threads : ~Inside(t) /\ ~Inserting(t) /\ CallInv(t)
  BY DEF Init, Inside, LockedSteps, Inserting, CallInv
<1>2. Shown = Len(Preloaded)
  BY <1>1 DEF Init, Shown
<1>3. SharpKey \in Names /\ Len(Preloaded) \in Nat
  BY StoreAssumption
<1>4. Len(Preloaded) % CountModulus \in Data /\ 0 \in Data
  BY StoreAssumption
<1>5. \A n \in Names : value[n] \in Data
  BY <1>4 DEF Init
<1>6. \A n \in Names : values[n] = IF n \in Present(keys) THEN value[n] ELSE Absent
  BY DEF Init
<1>. QED
  BY <1>1, <1>2, <1>3, <1>5, <1>6, StoreAssumption DEF Init, StoreInv, Present

LEMMA SpecGood == Spec => []Good
  BY InitGood, NextGood, PTL DEF Spec

(* The strengthening that TLC checks as well. *)
THEOREM StoreInvariant == Spec => []StoreInv
  BY SpecGood, PTL DEF Good

(* getKey and the append are one critical section: there is at most one    *)
(* FakeSMCKey of a name, however many threads add it at the same time.     *)
THEOREM NoDuplicates == Spec => []NoDuplicateKeys
<1>1. Good => NoDuplicateKeys
  BY DEF Good, StoreInv, NoDuplicateKeys
<1>. QED BY <1>1, SpecGood, PTL

LEMMA FreeStoreShown == ASSUME Basic, lockOwner = NoThread PROVE Shown = Len(keys)
<1>1. \A t \in Threads : ~Inside(t)
  BY StoreAssumption DEF Basic, TypeOK, LockBalanced, Frames
<1>. QED BY <1>1, InsertingInside DEF Shown

(* "#KEY" is right whenever nobody is inside the store, for any number of  *)
(* keys and any width of the count.                                        *)
THEOREM SharpKeyIsRight == Spec => []SharpKeyCounts
<1>1. Good => SharpKeyCounts
  BY FreeStoreShown DEF Good, StoreInv, SharpKeyCounts
<1>. QED BY <1>1, SpecGood, PTL

(* The published dictionary is complete whenever nobody is inside. *)
THEOREM ValuesAreComplete == Spec => []ValuesComplete
<1>1. Good => ValuesComplete
  BY FreeStoreShown DEF Good, StoreInv, ValuesComplete, Present
<1>. QED BY <1>1, SpecGood, PTL

(* No read under device_lock meets a buffer between IOFree and bcopy. *)
THEOREM LockedReadsAreDefined == Spec => []LockedReadsDefined
<1>1. Good => LockedReadsDefined
  <2>. SUFFICES ASSUME Good PROVE LockedReadsDefined
    OBVIOUS
  <2>1. ASSUME NEW t \in Threads, step[t] = "copy", held[t] > 0
        PROVE  value[arg[t].name] # Undefined
    <3>3. ~Inside(t) /\ Frames(t) > 0
      BY <2>1 DEF Good, Basic, TypeOK, Frames, Inside, LockedSteps
    <3>1. \A u \in Threads : ~Inside(u)
      <4>1. lockOwner = t
        BY <3>3 DEF Good, Basic, LockBalanced
      <4>2. ASSUME NEW u \in Threads \ {t} PROVE Frames(u) = 0
        BY <4>1 DEF Good, Basic, LockBalanced
      <4>3. ASSUME NEW u \in Threads, Inside(u) PROVE Frames(u) > 0
        BY <4>3 DEF Good, Basic, TypeOK, Frames
      <4>. QED BY <3>3, <4>2, <4>3
    <3>2. \A u \in Threads : step[u] # "fill"
      BY <3>1 DEF Inside, LockedSteps
    <3>. QED BY <3>2 DEF Good, Basic, TypeOK, StoreInv, Args
  <2>. QED BY <2>1, TargetDefined DEF Good, StoreInv, LockedReadsDefined
<1>. QED BY <1>1, SpecGood, PTL

LEMMA KeysGrow ==
  ASSUME Basic, [Next]_vars
  PROVE  keys' = keys \/ \E n \in Names : keys' = Append(keys, n)
<1>1. CASE UNCHANGED vars
  BY <1>1 DEF vars, storeVars
<1>2. CASE Next
  <2>1. PICK t \in Threads :
          \/ \E f \in Calls(t) : Call(t, f)
          \/ Enter(t) \/ GetNothing(t) \/ Unlock(t) \/ PortLookup(t) \/ Work(t)
    BY <1>2 DEF Next
  <2>2. CASE Insert(t)
    BY <2>2 DEF Insert, Grow, Basic, TypeOK, Args
  <2>. QED
    BY <2>1, <2>2 DEF Call, Enter, GetNothing, Unlock, PortLookup, Work, Rehandle, Lookup, RemoveHandler,
      Resize, Fill, Refresh, Copy, Publish, PortRefresh, HandOver, Leave, storeVars
<1>. QED BY <1>1, <1>2

(* The index of a key, by which AppleSMC enumerates, never changes. *)
THEOREM IndicesAreStable == Spec => IndexStable
<1>1. ASSUME Basic, [Next]_vars
      PROVE  [\A i \in 1..Len(keys) : i <= Len(keys') /\ keys'[i] = keys[i]]_vars
  <2>1. keys \in Seq(Names) /\ Len(keys) \in Nat
    BY <1>1 DEF Basic, TypeOK
  <2>. QED BY <1>1, <2>1, KeysGrow
<1>. QED BY <1>1, SpecBasic, PTL DEF Spec, IndexStable
--------------------------------------------------------------------------------
(* What KeyTable sees of the keys: their first Shown names. *)
LEMMA VisibleProperties ==
  ASSUME Good
  PROVE  /\ VisibleKeys \in Seq(Names) /\ Len(VisibleKeys) = Shown
         /\ \A i \in 1..Shown : VisibleKeys[i] = keys[i]
         /\ Present(VisibleKeys) = {keys[i] : i \in 1..Shown}
         /\ value[SharpKey] = Shown % CountModulus
<1>1. keys \in Seq(Names) /\ Shown \in 0..Len(keys)
  BY ShownType DEF Good, Basic, TypeOK
<1>2. /\ VisibleKeys \in Seq(Names) /\ Len(VisibleKeys) = Shown
      /\ \A i \in 1..Shown : VisibleKeys[i] = keys[i]
  BY <1>1 DEF VisibleKeys
<1>. QED BY <1>2 DEF Present, Good, StoreInv

(* A step that shows no key and gives no shown key another handler is      *)
(* invisible.                                                              *)
LEMMA Invisible ==
  ASSUME Good, Good', Shown' = Shown,
         \A i \in 1..Shown : keys'[i] = keys[i] /\ handler'[keys[i]] = handler[keys[i]]
  PROVE  UNCHANGED <<VisibleKeys, VisibleOwner, value[SharpKey]>>
<1>1. keys \in Seq(Names) /\ keys' \in Seq(Names) /\ Shown \in 0..Len(keys) /\ Shown \in 0..Len(keys')
  <2>1. keys' \in Seq(Names) /\ Len(keys') \in Nat /\ Len(keys') > 1
    BY DEF Good, Basic, TypeOK, StoreInv
  <2>2. Shown' = Len(keys') \/ Shown' = Len(keys') - 1
    BY DEF Shown
  <2>. QED BY <2>1, <2>2, ShownType DEF Good, Basic, TypeOK
<1>2. VisibleKeys' = VisibleKeys
  BY <1>1 DEF VisibleKeys
<1>3. \A n \in Present(VisibleKeys) : handler'[n] = handler[n]
  BY VisibleProperties
<1>4. VisibleOwner' = VisibleOwner
  BY <1>2, <1>3 DEF VisibleOwner
<1>5. value'[SharpKey] = value[SharpKey]
  BY DEF Good, StoreInv
<1>. QED BY <1>2, <1>4, <1>5

(* Most steps neither start nor finish an insertion. *)
LEMMA ShownSame ==
  ASSUME NEW t \in Threads, UNCHANGED keys, Inserting(t)' <=> Inserting(t),
         \A u \in Threads \ {t} : fn'[u] = fn[u] /\ step'[u] = step[u]
  PROVE  Shown' = Shown
<1>1. \A u \in Threads : Inserting(u)' <=> Inserting(u)
  BY DEF Inserting
<1>. QED BY <1>1 DEF Shown

LEMMA QuietInvisible ==
  ASSUME Good, Good', NEW t \in Threads,
         \/ \E f \in Calls(t) : Call(t, f)
         \/ Enter(t) \/ GetNothing(t) \/ Unlock(t) \/ PortLookup(t) \/ PortRefresh(t) \/ HandOver(t)
         \/ Lookup(t) \/ Resize(t) \/ Fill(t) \/ Refresh(t) \/ Copy(t) \/ Leave(t)
         \/ RemoveHandler(t) \/ (Publish(t) /\ fn[t] \notin Adds)
  PROVE  UNCHANGED <<VisibleKeys, VisibleOwner, value[SharpKey]>>
<1>1. UNCHANGED <<keys, handler>>
  BY RemoveHandlerBasic
     DEF Good, Call, Enter, GetNothing, Unlock, PortLookup, PortRefresh, HandOver, Lookup, Resize, Fill,
         Refresh, Copy, Leave, RemoveHandler, Publish, storeVars
<1>2. CallInv(t)
  BY DEF Good, StoreInv
<1>3. Inserting(t)' <=> Inserting(t)
  <2>1. CASE Lookup(t) \/ Resize(t) \/ Fill(t) \/ HandOver(t) \/ RemoveHandler(t)
    BY <1>2, <2>1 DEF Good, Basic, TypeOK, Lookup, Resize, Fill, HandOver, RemoveHandler, Goto,
                      Inserting, Inside, LockedSteps, CallInv, Adds
  <2>2. CASE Refresh(t) \/ (Publish(t) /\ fn[t] \notin Adds)
    BY <2>2 DEF Good, Basic, TypeOK, Refresh, Publish, Goto, Inserting, Adds
  <2>3. CASE Enter(t) \/ GetNothing(t) \/ Unlock(t) \/ Leave(t)
    BY <2>3 DEF Good, Basic, TypeOK, Enter, GetNothing, Unlock, Leave, Return, Goto, Inserting, callVars
  <2>4. CASE PortLookup(t) \/ PortRefresh(t) \/ Copy(t)
    BY <2>4 DEF Good, Basic, TypeOK, PortLookup, PortRefresh, Copy, Return, Goto, Inserting
  <2>5. ASSUME NEW f \in Calls(t), Call(t, f) PROVE Inserting(t)' <=> Inserting(t)
    BY <2>5 DEF Good, Basic, TypeOK, Call, Goto, Inserting
  <2>. QED BY <2>1, <2>2, <2>3, <2>4, <2>5
<1>4. \A u \in Threads \ {t} : fn'[u] = fn[u] /\ step'[u] = step[u]
  BY DEF Good, Basic, TypeOK, Call, Enter, GetNothing, Unlock, PortLookup, PortRefresh, HandOver, Lookup,
         Resize, Fill, Refresh, Copy, Leave, RemoveHandler, Publish, Return, Goto, callVars
<1>. QED BY <1>1, <1>3, <1>4, ShownSame, Invisible

(* A new key becomes visible with the step that publishes it. *)
LEMMA PublishRegisters ==
  ASSUME Good, Good', NEW t \in Threads, Publish(t), fn[t] \in Adds
  PROVE  Table!TableNext
<1>. DEFINE n == arg[t].name
<1>1. /\ step[t] = "publish" /\ UNCHANGED <<keys, handler, fn>>
      /\ step' = [step EXCEPT ![t] = "leave"]
  BY DEF Publish, Goto, Adds
<1>2. Inside(t) /\ Inserting(t) /\ keys[Len(keys)] = n
  BY <1>1 DEF Good, StoreInv, CallInv, Inserting, Inside, LockedSteps
<1>3. \A u \in Threads : ~Inserting(u)'
  <2>1. ~Inserting(t)'
    BY <1>1 DEF Good, Basic, TypeOK, Inserting
  <2>2. \A u \in Threads \ {t} : ~Inserting(u)'
    BY <1>1, <1>2, MutualExclusion, InsertingInside DEF Good, Basic, TypeOK, Inserting
  <2>. QED BY <2>1, <2>2
<1>4. Shown = Len(keys) - 1 /\ Shown' = Len(keys) /\ Len(keys) \in Nat /\ Len(keys) > 1
  BY <1>1, <1>2, <1>3 DEF Good, Basic, TypeOK, StoreInv, Shown
<1>5. keys \in Seq(Names) /\ n \in Names /\ handler[n] \in Handlers \cup {NoHandler}
  BY DEF Good, Basic, TypeOK, Args
<1>6. VisibleKeys' = keys
  BY <1>1, <1>4, <1>5 DEF VisibleKeys
<1>7. VisibleKeys' = Append(VisibleKeys, n)
  <2>1. VisibleKeys \in Seq(Names) /\ Len(VisibleKeys) = Len(keys) - 1
        /\ \A i \in 1..Len(keys) - 1 : VisibleKeys[i] = keys[i]
    BY <1>4, VisibleProperties
  <2>. DEFINE s == Append(VisibleKeys, n)
  <2>2. s \in Seq(Names) /\ Len(s) = Len(keys) /\ \A i \in 1..Len(s) : s[i] = keys[i]
    BY <1>2, <1>4, <1>5, <2>1
  <2>. HIDE DEF s
  <2>3. s = keys
    BY <1>5, <2>2, SeqEqual, Zenon
  <2>. QED BY <1>6, <2>3 DEF s
<1>8. n \notin Present(VisibleKeys)
  <2>1. ASSUME NEW i \in 1..Shown, keys[i] = n PROVE FALSE
    <3>1. i \in 1..Len(keys) /\ Len(keys) \in 1..Len(keys) /\ i # Len(keys)
      BY <1>4
    <3>. QED BY <1>2, <2>1, <3>1 DEF Good, StoreInv, Injective
  <2>2. Present(VisibleKeys) = {keys[i] : i \in 1..Shown}
    BY VisibleProperties
  <2>. QED BY <2>1, <2>2
<1>9. Present(VisibleKeys') = Present(VisibleKeys) \cup {n}
  BY <1>7, VisibleProperties DEF Present
<1>10. VisibleOwner' = [VisibleOwner EXCEPT ![n] = handler[n]]
  BY <1>1, <1>9 DEF VisibleOwner
<1>11. value'[SharpKey] = Len(VisibleKeys') % CountModulus
  BY <1>1, <1>4, <1>6 DEF Good, StoreInv
<1>12. Table!Register(n, handler[n])
  BY <1>7, <1>8, <1>10, <1>11 DEF Table!Register, Table!Registered, Present
<1>. QED BY <1>5, <1>12 DEF Table!TableNext

(* An existing key changes hands in one step. *)
LEMMA RehandleTakesOver ==
  ASSUME Good, Good', NEW t \in Threads, Rehandle(t)
  PROVE  Table!TableNext
<1>. DEFINE n == arg[t].name
            h == arg[t].handler
<1>1. n \in Names /\ h \in Handlers /\ h # NoHandler
  <2>1. arg[t] \in Args
    BY DEF Good, Basic, TypeOK
  <2>. QED BY <2>1, StoreAssumption DEF Args
<1>2. /\ step[t] = "enter" /\ UNCHANGED <<keys, fn>> /\ step' = [step EXCEPT ![t] = "leave"]
      /\ handler' = [handler EXCEPT ![n] = h] /\ n \in Present(keys)
  BY <1>1 DEF Rehandle, Goto, SetHandler, Found
<1>3. Inside(t) /\ ~Inserting(t) /\ ~Inserting(t)'
  BY <1>2 DEF Good, Basic, TypeOK, Inserting, Inside, LockedSteps
<1>4. Shown' = Shown /\ Shown = Len(keys)
  BY <1>2, <1>3, ShownSame, AllShown DEF Good, Basic, TypeOK
<1>5. n \in Present(VisibleKeys)
  BY <1>2, <1>4, VisibleProperties DEF Present
<1>6. VisibleKeys' = VisibleKeys
  BY <1>2, <1>4 DEF VisibleKeys
<1>7. VisibleOwner' = [VisibleOwner EXCEPT ![n] = h]
  BY <1>1, <1>2, <1>5, <1>6 DEF VisibleOwner, Good, Basic, TypeOK
<1>8. value'[SharpKey] = value[SharpKey]
  BY <1>4 DEF Good, StoreInv
<1>9. Table!TakeOver(n, h)
  BY <1>5, <1>6, <1>7, <1>8 DEF Table!TakeOver, Table!Registered, Present
<1>. QED BY <1>1, <1>9 DEF Table!TableNext

(* A key that has been appended but not published is not visible yet. *)
LEMMA InsertInvisible ==
  ASSUME Good, Good', NEW t \in Threads, Insert(t)
  PROVE  UNCHANGED <<VisibleKeys, VisibleOwner, value[SharpKey]>>
<1>. DEFINE n == arg[t].name
<1>1. /\ step[t] = "insert" /\ fn' = fn /\ keys' = Append(keys, n)
      /\ step' = [step EXCEPT ![t] = "refresh"]
  BY DEF Insert, Grow, Goto
<1>2. Inside(t) /\ ~Inserting(t) /\ fn[t] \in Adds /\ n \notin Present(keys)
  BY <1>1 DEF Good, StoreInv, CallInv, Inserting, Inside, LockedSteps, Found
<1>3. Inserting(t)'
  BY <1>1, <1>2 DEF Good, Basic, TypeOK, Inserting
<1>4. keys \in Seq(Names) /\ n \in Names
  BY DEF Good, Basic, TypeOK, Args
<1>5. Shown = Len(keys) /\ Shown' = Len(keys)
  BY <1>1, <1>2, <1>3, <1>4, AllShown DEF Good, Shown
<1>6. \A i \in 1..Len(keys) : keys'[i] = keys[i] /\ handler'[keys[i]] = handler[keys[i]]
  BY <1>1, <1>2, <1>4 DEF Good, Basic, TypeOK, Insert, Present
<1>. QED BY <1>5, <1>6, Invisible

(* Every behaviour of the store is one of the key table, in which each     *)
(* registration is a single step.                                          *)
THEOREM Refinement == Spec => ImplementsKeyTable
<1>1. Init => Table!TableInit
  <2>. SUFFICES ASSUME Init PROVE Table!TableInit
    OBVIOUS
  <2>1. Good
    BY InitGood
  <2>2. \A t \in Threads : ~Inserting(t)
    BY DEF Init, Inserting
  <2>3. Shown = Len(keys) /\ keys \in Seq(Names)
    BY <2>1, <2>2 DEF Shown, Good, Basic, TypeOK
  <2>4. VisibleKeys = keys
    BY <2>3 DEF VisibleKeys
  <2>5. VisibleOwner = [n \in Names |-> NoHandler]
    BY DEF VisibleOwner, Init
  <2>. QED
    BY <2>1, <2>3, <2>4, <2>5, VisibleProperties DEF Table!TableInit, Good, StoreInv, Injective
<1>2. Good /\ Good' /\ [Next]_vars => [Table!TableNext]_(Table!tableVars)
  <2>. SUFFICES ASSUME Good, Good', [Next]_vars PROVE [Table!TableNext]_(Table!tableVars)
    OBVIOUS
  <2>1. CASE UNCHANGED vars
    BY <2>1 DEF Table!tableVars, vars, storeVars, callVars, VisibleKeys, VisibleOwner, Shown,
                Inserting, Present
  <2>2. CASE Next
    <3>1. PICK t \in Threads :
            \/ \E f \in Calls(t) : Call(t, f)
            \/ Enter(t) \/ GetNothing(t) \/ Unlock(t) \/ PortLookup(t) \/ Work(t)
      BY <2>2 DEF Next
    <3>2. CASE Insert(t)
      BY <3>2, InsertInvisible DEF Table!tableVars
    <3>3. CASE Rehandle(t)
      BY <3>3, RehandleTakesOver
    <3>4. CASE Publish(t) /\ fn[t] \in Adds
      BY <3>4, PublishRegisters
    <3>. QED
      BY <3>1, <3>2, <3>3, <3>4, QuietInvisible DEF Work, Table!tableVars
  <2>. QED BY <2>1, <2>2
<1>. QED
  BY <1>1, <1>2, SpecGood, PTL DEF Spec, ImplementsKeyTable, Table!TableSpec
===============================================================================
