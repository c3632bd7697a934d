------------------------------ MODULE SMCKeyStore ------------------------------
(***************************************************************************)
(* The key store of FakeSMCDevice: the OSArray of FakeSMCKey objects, the  *)
(* "Values" dictionary published in the I/O registry, and the recursive    *)
(* device_lock, under the three kinds of threads that enter it:            *)
(*   - plug-in threads, through callPlatformFunction (they may also hold   *)
(*     the lock across several calls with kFakeSMCLock/kFakeSMCUnlock);    *)
(*   - user-space threads, through setProperties;                          *)
(*   - the AppleSMC driver, through the emulated I/O ports, whose READ     *)
(*     looks the key up under the lock but fetches and copies its value    *)
(*     after the lock has been released.                                   *)
(* A call is broken where another thread can see the difference: waiting   *)
(* for the lock, looking the name up, replacing a buffer of another size,  *)
(* calling the handler back, publishing, and leaving.                      *)
(***************************************************************************)
EXTENDS Integers, Sequences

CONSTANTS PluginThreads,  \* threads that run plug-in code
          UserThreads,    \* threads inside IOServiceSetProperty
          PortThreads,    \* the thread of the AppleSMC driver
          Names,          \* four-character key names
          SharpKey,       \* the name "#KEY"
          Handlers,       \* plug-in objects that serve keys
          Data,           \* what a value buffer can hold
          Sizes,          \* the sizes in use for value buffers
          Preloaded,      \* the sequence of keys present after init
          CountModulus,   \* 256: updateSharpKey stores the low byte only
          MaxHold,        \* bound: nesting of kFakeSMCLock by one thread
          MaxLeaks,       \* bound: calls of one thread that keep the lock
          NoThread, NoHandler, Undefined, Absent

Threads == PluginThreads \cup UserThreads \cup PortThreads

Present(s) == {s[i] : i \in 1..Len(s)}

Injective(s) == \A i, j \in 1..Len(s) : s[i] = s[j] => i = j

ASSUME StoreAssumption ==
  /\ NoThread \notin Threads
  /\ NoHandler \notin Handlers
  /\ Undefined \notin Data
  /\ Absent \notin Data /\ Absent # Undefined
  /\ CountModulus \in Nat \ {0}
  /\ 0..(CountModulus - 1) \subseteq Data
  /\ MaxHold \in Nat /\ MaxLeaks \in Nat
  /\ Sizes # {} /\ Handlers # {}
  /\ Preloaded \in Seq(Names)
  /\ Injective(Preloaded)
  /\ Len(Preloaded) > 1 /\ Preloaded[1] = SharpKey

VARIABLES
  lockOwner,   \* who owns device_lock
  lockDepth,   \* how many times the owner has taken it
  leaked,      \* calls of each thread that have returned without an unlock
  held,        \* kFakeSMCLock calls of each thread not yet undone
  keys,        \* OSArray *keys: the names in array order
  handler,     \* FakeSMCKey::handler of each key
  size,        \* FakeSMCKey::size of each key
  value,       \* what FakeSMCKey::value of each key holds
  values,      \* OSDictionary *values, published as "Values"
  fn,          \* the function each thread is executing
  step,        \* where in it the thread is
  arg,         \* the arguments of the call
  cursor       \* position of the iterator of a populateValues message

lockVars  == <<lockOwner, lockDepth, leaked>>
storeVars == <<keys, handler, size, value, values>>
callVars  == <<fn, step, arg, cursor>>
vars      == <<lockVars, held, storeVars, callVars>>

PluginCalls == {"Lock", "AddKeyHandler", "AddKeyValue", "SetKeyValue",
                "GetKeyValue", "RemoveHandler"}
UserCalls   == {"Update", "Populate"}
PortCalls   == {"PortRead", "PortWrite"}

Calls(t) ==
     (IF t \in PluginThreads THEN PluginCalls ELSE {})
  \cup (IF t \in UserThreads THEN UserCalls ELSE {})
  \cup (IF t \in PortThreads THEN PortCalls ELSE {})

Args == [name : Names, handler : Handlers, size : Sizes, data : Data]

(* What the argument slots hold while a thread is in no call. *)
NoArgs == CHOOSE a \in Args : a.name = SharpKey

(* The arguments a call takes; the slots it does not use are left alone. *)
ArgsFor(f) ==
  {a \in Args :
     /\ f \in {"Lock", "Populate", "RemoveHandler"} => a.name = NoArgs.name
     /\ f \notin {"AddKeyHandler", "RemoveHandler"} => a.handler = NoArgs.handler
     /\ f \in {"Lock", "Populate", "RemoveHandler", "GetKeyValue", "PortRead"}
          => a.size = NoArgs.size
     /\ f \notin {"AddKeyValue", "SetKeyValue", "Update", "PortWrite"}
          => a.data = NoArgs.data
     /\ f \in {"AddKeyHandler", "AddKeyValue", "SetKeyValue", "Update", "PortWrite"}
          => a.name # SharpKey}

LockedSteps == {"enter", "insert", "set", "fill", "refresh", "publish", "handOver", "leave"}

Steps == {"idle", "wait", "portRefresh", "copy"} \cup LockedSteps

(* The thread is between lock and unlock of the call it executes. *)
Inside(t) == step[t] \in LockedSteps

(* Mutant: the critical sections are no longer exclusive. *)
AlwaysAvailable(t) == TRUE

LockAvailable(t) == lockOwner \in {NoThread, t}

(* The key a step works on: the iterator's, or the one named in the call.  *)
Target(t) == IF fn[t] = "Populate" THEN keys[cursor[t]] ELSE arg[t].name

Found(t) == arg[t].name \in Present(keys)
--------------------------------------------------------------------------------
(* The device after init: "#KEY" comes first, loadKeysFromDictionary has   *)
(* added the keys of the property list and filled the dictionary.          *)
Init ==
  /\ lockOwner = NoThread
  /\ lockDepth = 0
  /\ leaked = [t \in Threads |-> 0]
  /\ held = [t \in Threads |-> 0]
  /\ keys = Preloaded
  /\ handler = [n \in Names |-> NoHandler]
  /\ size = [n \in Names |-> NoArgs.size]
  /\ value = [n \in Names |->
                IF n = SharpKey THEN Len(Preloaded) % CountModulus ELSE 0]
  /\ values = [n \in Names |->
                IF n \in Present(Preloaded) THEN value[n] ELSE Absent]
  /\ fn = [t \in Threads |-> "Lock"]
  /\ step = [t \in Threads |-> "idle"]
  /\ arg = [t \in Threads |-> NoArgs]
  /\ cursor = [t \in Threads |-> 1]

Goto(t, s) == step' = [step EXCEPT ![t] = s]

(* The call is over: its arguments are gone. *)
Return(t) ==
  /\ Goto(t, "idle")
  /\ fn' = [fn EXCEPT ![t] = "Lock"]
  /\ arg' = [arg EXCEPT ![t] = NoArgs]
  /\ cursor' = [cursor EXCEPT ![t] = 1]
--------------------------------------------------------------------------------
(* A thread asks for something. *)
Call(t, f) ==
  /\ step[t] = "idle"
  /\ f = "Lock" => held[t] < MaxHold
  /\ fn' = [fn EXCEPT ![t] = f]
  /\ Goto(t, "wait")
  /\ UNCHANGED <<lockVars, held, storeVars, arg, cursor>>

TakeLock(t) ==
  /\ LockAvailable(t)
  /\ lockOwner' = t
  /\ lockDepth' = lockDepth + 1

(* IORecursiveLockLock.  kFakeSMCLock keeps it and returns at once; what a *)
(* call brings with it matters from here on.  Nobody writes "#KEY"         *)
(* (ArgsFor): it is read-only for AppleSMC and no client names it.         *)
Enter(t) ==
  /\ step[t] = "wait"
  /\ fn[t] # "PortRead"
  /\ TakeLock(t)
  /\ UNCHANGED leaked
  /\ IF fn[t] = "Lock"
     THEN held' = [held EXCEPT ![t] = @ + 1] /\ Return(t)
     ELSE /\ \E a \in ArgsFor(fn[t]) : arg' = [arg EXCEPT ![t] = a]
          /\ Goto(t, "enter")
          /\ UNCHANGED <<held, fn, cursor>>
  /\ UNCHANGED storeVars

(* kFakeSMCGetKeyValue without a name returns kIOReturnBadArgument, and     *)
(* keeps the lock that every call has taken before.  The plug-ins of the   *)
(* repository all pass a name.                                             *)
GetNothing(t) ==
  /\ step[t] = "wait"
  /\ fn[t] = "GetKeyValue"
  /\ leaked[t] < MaxLeaks
  /\ TakeLock(t)
  /\ leaked' = [leaked EXCEPT ![t] = @ + 1]
  /\ Return(t)
  /\ UNCHANGED <<held, storeVars>>

(* Mutants: a lock that is not recursive; a return without an unlock.      *)
ReleaseAtOnce ==
  /\ lockDepth' = 0
  /\ lockOwner' = NoThread
  /\ UNCHANGED leaked

KeepLocked == UNCHANGED lockVars

Release ==
  /\ lockDepth' = lockDepth - 1
  /\ lockOwner' = IF lockDepth = 1 THEN NoThread ELSE lockOwner
  /\ UNCHANGED leaked

(* kFakeSMCUnlock, called by the thread that called kFakeSMCLock. *)
Unlock(t) ==
  /\ step[t] = "idle"
  /\ held[t] > 0
  /\ held' = [held EXCEPT ![t] = @ - 1]
  /\ Release
  /\ UNCHANGED <<storeVars, callVars>>

(* IORecursiveLockUnlock on the way out of every function. *)
Leave(t) ==
  /\ step[t] = "leave"
  /\ Release
  /\ Return(t)
  /\ UNCHANGED <<held, storeVars>>
--------------------------------------------------------------------------------
(* FakeSMCKey::setHandler refuses NULL.  Mutant: it does not. *)
SetAnyHandler(n, h) == handler' = [handler EXCEPT ![n] = h]

SetHandler(n, h) ==
  IF h = NoHandler THEN UNCHANGED handler ELSE handler' = [handler EXCEPT ![n] = h]

(* keys->setObject appends. *)
Grow(n) == keys' = Append(keys, n)

(* updateSharpKey: the big-endian count, of which only the low byte is     *)
(* ever non-zero.  Mutant: the new key is not counted.                     *)
KeepSharpKey == UNCHANGED value

UpdateSharpKey == value' = [value EXCEPT ![SharpKey] = Len(keys) % CountModulus]

(* values->setObject and setProperty("Values").  Mutant: only the keys     *)
(* that the dictionary already has are refreshed.                          *)
RepublishValue(n) ==
  values' = [values EXCEPT ![n] = IF @ = Absent THEN Absent ELSE value[n]]

PublishValue(n) == values' = [values EXCEPT ![n] = value[n]]

NextKey(t) == cursor' = [cursor EXCEPT ![t] = @ + 1]
--------------------------------------------------------------------------------
Adds == {"AddKeyHandler", "AddKeyValue", "PortWrite"}

(* getKey(name), and where the function goes on with the key it found. *)
Lookup(t) ==
  /\ step[t] = "enter"
  /\ \/ fn[t] \in Adds /\ ~Found(t) /\ Goto(t, "insert")
     \/ fn[t] \in {"AddKeyValue", "PortWrite", "SetKeyValue", "Update"}
        /\ Found(t) /\ Goto(t, "set")
     \/ fn[t] \in {"SetKeyValue", "Update", "GetKeyValue"}
        /\ ~Found(t) /\ Goto(t, "leave")
     \/ fn[t] = "GetKeyValue" /\ Found(t) /\ Goto(t, "refresh")
     \/ fn[t] = "Populate" /\ Goto(t, "refresh")
  /\ UNCHANGED <<lockVars, held, storeVars, fn, arg, cursor>>

(* addKeyWithHandler on a name that exists: only the handler changes. *)
Rehandle(t) ==
  /\ step[t] = "enter"
  /\ fn[t] = "AddKeyHandler"
  /\ Found(t)
  /\ SetHandler(arg[t].name, arg[t].handler)
  /\ Goto(t, "leave")
  /\ UNCHANGED <<lockVars, held, keys, size, value, values, fn, arg, cursor>>

(* kFakeSMCRemoveHandler: the first key of the handler, if it has one, is  *)
(* given to nobody -- which setHandler refuses.                            *)
RemoveHandler(t) ==
  /\ step[t] = "enter"
  /\ fn[t] = "RemoveHandler"
  /\ LET own == {i \in 1..Len(keys) : handler[keys[i]] = arg[t].handler}
     IN \/ own = {} /\ UNCHANGED handler
        \/ \E i \in own : (\A j \in own : i <= j) /\ SetHandler(keys[i], NoHandler)
  /\ Goto(t, "leave")
  /\ UNCHANGED <<lockVars, held, keys, size, value, values, fn, arg, cursor>>

(* addKeyWithValue and addKeyWithHandler, the name is new: a FakeSMCKey is *)
(* created and appended.  A key with a handler starts out zeroed.          *)
Insert(t) ==
  /\ step[t] = "insert"
  /\ LET n == arg[t].name
         h == fn[t] = "AddKeyHandler"
     IN /\ Grow(n)
        /\ handler' = [handler EXCEPT ![n] = IF h THEN arg[t].handler ELSE NoHandler]
        /\ size' = [size EXCEPT ![n] = arg[t].size]
        /\ value' = [value EXCEPT ![n] = IF h THEN 0 ELSE arg[t].data]
  /\ Goto(t, "refresh")
  /\ UNCHANGED <<lockVars, held, values, fn, arg, cursor>>
--------------------------------------------------------------------------------
(* setValueFromBuffer with another size: the old buffer is freed and the   *)
(* size already changed while the new buffer holds nothing yet.            *)
Resize(t) ==
  /\ step[t] = "set"
  /\ arg[t].size # size[arg[t].name]
  /\ size' = [size EXCEPT ![arg[t].name] = arg[t].size]
  /\ value' = [value EXCEPT ![arg[t].name] = Undefined]
  /\ Goto(t, "fill")
  /\ UNCHANGED <<lockVars, held, keys, handler, values, fn, arg, cursor>>

(* setValueFromBuffer: the bytes are copied into the buffer. *)
Fill(t) ==
  /\ \/ step[t] = "fill"
     \/ step[t] = "set" /\ arg[t].size = size[arg[t].name]
  /\ value' = [value EXCEPT ![arg[t].name] = arg[t].data]
  /\ Goto(t, IF fn[t] = "Update" THEN "refresh" ELSE "leave")
  /\ UNCHANGED <<lockVars, held, keys, handler, size, values, fn, arg, cursor>>

(* FakeSMCKey::getValue: the handler, if any, writes a reading into the    *)
(* buffer; when it answers with an error the buffer keeps what it has.     *)
GetValue(n) ==
  \/ handler[n] # NoHandler /\ \E d \in Data : value' = [value EXCEPT ![n] = d]
  \/ UNCHANGED value

Refresh(t) ==
  /\ step[t] = "refresh"
  /\ GetValue(Target(t))
  /\ Goto(t, IF fn[t] = "GetKeyValue" THEN "handOver" ELSE "publish")
  /\ UNCHANGED <<lockVars, held, keys, handler, size, values, fn, arg, cursor>>

(* kFakeSMCGetKeyValue returns a pointer to the buffer, and gives the lock *)
(* of the call back, ...                                                   *)
HandOver(t) ==
  /\ step[t] = "handOver"
  /\ Release
  /\ Goto(t, "copy")
  /\ UNCHANGED <<held, storeVars, fn, arg, cursor>>

(* ... and the caller copies what is there, as does a READ of AppleSMC.    *)
Copy(t) ==
  /\ step[t] = "copy"
  /\ Return(t)
  /\ UNCHANGED <<lockVars, held, storeVars>>

(* The value is published; a new key is counted as well, and populateValues *)
(* goes on with the next key.                                              *)
Publish(t) ==
  /\ step[t] = "publish"
  /\ PublishValue(Target(t))
  /\ IF fn[t] \in Adds THEN UpdateSharpKey ELSE UNCHANGED value
  /\ IF fn[t] = "Populate" /\ cursor[t] < Len(keys)
     THEN NextKey(t) /\ Goto(t, "refresh")
     ELSE UNCHANGED cursor /\ Goto(t, "leave")
  /\ UNCHANGED <<lockVars, held, keys, handler, size, fn, arg>>
--------------------------------------------------------------------------------
(* applesmc_fill_data: getKey takes and releases the lock ... *)
PortLookup(t) ==
  /\ step[t] = "wait"
  /\ fn[t] = "PortRead"
  /\ LockAvailable(t)
  /\ \E a \in ArgsFor("PortRead") :
       IF a.name \in Present(keys)
       THEN /\ arg' = [arg EXCEPT ![t] = a]
            /\ Goto(t, "portRefresh")
            /\ UNCHANGED <<fn, cursor>>
       ELSE Return(t)
  /\ UNCHANGED <<lockVars, held, storeVars>>

(* ... and getValue and the copy run without it. *)
PortRefresh(t) ==
  /\ step[t] = "portRefresh"
  /\ GetValue(arg[t].name)
  /\ Goto(t, "copy")
  /\ UNCHANGED <<lockVars, held, keys, handler, size, values, fn, arg, cursor>>

--------------------------------------------------------------------------------
Work(t) ==
  \/ Insert(t) \/ Rehandle(t) \/ Lookup(t) \/ RemoveHandler(t)
  \/ Resize(t) \/ Fill(t) \/ Refresh(t) \/ HandOver(t) \/ Copy(t)
  \/ Publish(t) \/ PortRefresh(t) \/ Leave(t)

Next ==
  \E t \in Threads :
    \/ \E f \in Calls(t) : Call(t, f)
    \/ Enter(t) \/ GetNothing(t) \/ Unlock(t) \/ PortLookup(t) \/ Work(t)

Spec == Init /\ [][Next]_vars

(* A thread inside a call keeps running and gets device_lock when it is    *)
(* free often enough; it gives an explicit lock back after finitely many   *)
(* calls.                                                                  *)
Fairness ==
  \A t \in Threads : /\ SF_vars(Enter(t) \/ GetNothing(t) \/ PortLookup(t) \/ Work(t))
                     /\ SF_vars(Unlock(t))

FairSpec == Spec /\ Fairness
--------------------------------------------------------------------------------
TypeOK ==
  /\ lockOwner \in Threads \cup {NoThread}
  /\ lockDepth \in Nat
  /\ leaked \in [Threads -> Nat]
  /\ held \in [Threads -> Nat]
  /\ keys \in Seq(Names)
  /\ handler \in [Names -> Handlers \cup {NoHandler}]
  /\ size \in [Names -> Sizes]
  /\ value \in [Names -> Data \cup {Undefined}]
  /\ values \in [Names -> Data \cup {Undefined, Absent}]
  /\ fn \in [Threads -> PluginCalls \cup UserCalls \cup PortCalls]
  /\ step \in [Threads -> Steps]
  /\ arg \in [Threads -> Args]
  /\ cursor \in [Threads -> Nat \ {0}]

(* How often a thread has the lock: explicitly, for the call it is in, and *)
(* for calls that have returned with it.                                   *)
Frames(t) == held[t] + leaked[t] + (IF Inside(t) THEN 1 ELSE 0)

(* device_lock is held exactly by the thread that is inside a call, has an *)
(* explicit kFakeSMCLock outstanding, or has called kFakeSMCGetKeyValue    *)
(* without a name; and once for each of them, however they are nested.     *)
(* That is the only call for which the comment "normal case: lock going    *)
(* in, unlock going out" (FakeSMCDevice.cpp:653) is not true.              *)
LockBalanced ==
  /\ lockOwner = NoThread => lockDepth = 0
  /\ \A t \in Threads : IF lockOwner = t THEN lockDepth = Frames(t) /\ lockDepth > 0
                                          ELSE Frames(t) = 0

(* getKey and the append of addKeyWith... are one critical section: two    *)
(* threads that add the same key at the same time leave one FakeSMCKey.    *)
NoDuplicateKeys == Injective(keys)

(* The value of "#KEY" that AppleSMC uses to enumerate is the number of    *)
(* keys (its low byte) whenever nobody is inside the store.                *)
SharpKeyCounts ==
  lockOwner = NoThread => value[SharpKey] = Len(keys) % CountModulus

(* Whenever nobody is inside the store, the published dictionary has an    *)
(* entry for each key, and for nothing else.                               *)
ValuesComplete ==
  lockOwner = NoThread => \A n \in Names : values[n] # Absent <=> n \in Present(keys)

(* A buffer is never seen between IOFree and bcopy by those who read under *)
(* the lock: not by a call, not in the dictionary, and not by a plug-in    *)
(* that keeps kFakeSMCLock until it has copied what kFakeSMCGetKeyValue    *)
(* pointed it to, as addTachometer of every plug-in does.                  *)
LockedReadsDefined ==
  /\ \A n \in Names : values[n] # Undefined
  /\ \A t \in Threads :
       /\ step[t] \in {"refresh", "publish"} => value[Target(t)] # Undefined
       /\ step[t] = "copy" /\ held[t] > 0 => value[arg[t].name] # Undefined

(* The enumeration AppleSMC makes by index is stable under everything the  *)
(* plug-ins and user space do: a key never moves and never disappears.     *)
IndexStable ==
  [][\A i \in 1..Len(keys) : i <= Len(keys') /\ keys'[i] = keys[i]]_vars

(* Every call of every thread returns, as long as none has returned with   *)
(* the lock.                                                               *)
CallsReturn ==
  [](\A t \in Threads : leaked[t] = 0) =>
  \A t \in Threads : step[t] = "wait" ~> step[t] = "idle"
--------------------------------------------------------------------------------
(* What the world sees of the store: an insertion counts from the moment   *)
(* it is published together with "#KEY".                                   *)
Inserting(t) == fn[t] \in Adds /\ step[t] \in {"refresh", "publish"}

Shown == IF \E t \in Threads : Inserting(t) THEN Len(keys) - 1 ELSE Len(keys)

VisibleKeys == SubSeq(keys, 1, Shown)

VisibleOwner ==
  [n \in Names |-> IF n \in Present(VisibleKeys) THEN handler[n] ELSE NoHandler]

Table == INSTANCE KeyTable
           WITH table <- VisibleKeys, ownerOf <- VisibleOwner, count <- value[SharpKey]

(* The store implements the table: concurrent registrations look as if     *)
(* each happened in one step, with the count of the same moment.           *)
ImplementsKeyTable == Table!TableSpec
--------------------------------------------------------------------------------
(* What a thread inside the store can rely on, step by step. *)
CallInv(t) ==
  IF ~Inside(t) THEN cursor[t] = 1 ELSE
    /\ fn[t] # "PortRead"
    /\ fn[t] \in Adds \cup {"SetKeyValue", "Update"} => arg[t].name # SharpKey
    /\ IF fn[t] = "Populate" THEN cursor[t] <= Len(keys) ELSE cursor[t] = 1
    /\ step[t] = "insert" => fn[t] \in Adds /\ ~Found(t)
    /\ step[t] \in {"set", "fill"} => fn[t] \in (Adds \cup {"SetKeyValue", "Update"}) /\ Found(t)
    /\ step[t] = "handOver" => fn[t] = "GetKeyValue"
    /\ step[t] = "refresh" => fn[t] \in Adds \cup {"Update", "Populate", "GetKeyValue"}
    /\ step[t] = "publish" => fn[t] \in Adds \cup {"Update", "Populate"}
    /\ step[t] \in {"refresh", "publish"} /\ fn[t] # "Populate" => Found(t)
    /\ Inserting(t) => keys[Len(keys)] = arg[t].name

(* The inductive invariant behind the safety properties: the count and the *)
(* dictionary follow the keys that have been shown, and a buffer without a *)
(* value is about to be filled.                                            *)
StoreInv ==
  /\ \A t \in Threads : CallInv(t)
  /\ Injective(keys)
  /\ Len(keys) > 1 /\ keys[1] = SharpKey /\ handler[SharpKey] = NoHandler
  /\ value[SharpKey] = Shown % CountModulus
  /\ \A n \in Names : values[n] # Absent <=> \E i \in 1..Shown : keys[i] = n
  /\ \A n \in Names : values[n] # Undefined
  /\ \A n \in Names : value[n] = Undefined =>
        \E t \in Threads : step[t] = "fill" /\ arg[t].name = n
================================================================================
