# Specifications of the FakeSMC sensors

TLA+ models, TLC configurations and TLAPS proofs for the kernel extensions in
`src/HWSensors4`. The directories `src/FakeSMC`, `src/HWSensors`, `src/Plug-ins`
and `src/Utilities` hold earlier generations of the same drivers and
`src/Chameleon` is a boot loader with a tree of its own; none of them is modelled.

The sources have no unit tests and no design document. What "correct" means is
taken from the code itself: from its locks and the order of its steps, from its
comments and log messages, and from what its own clients rely on.

`PROJECT.json` maps every definition to the lines it stands for and lists the
runs, the mutants that each property must catch, the hazards, and the theorems.

## 1. The system

FakeSMC makes a PC look as if it had Apple's System Management Controller. A
device object emulates the I/O ports of the SMC and keeps an array of keys;
plug-ins for chips, graphics cards and processors register keys in it and are
called back when a key is read.

    AppleSMC (external)          user space (IOServiceSetProperty, registry)
        | I/O ports 0x300..            |
        v                              v
    +---------------- FakeSMCDevice ----------------+
    | AppleSMCStatus registers   setProperties      |
    | keys, values, device_lock  callPlatformFunction|
    +-----------------------------------------------+
        ^ register, get, set, lock      | kFakeSMCGetValueCallback,
        |                               v kFakeSMCSetValueCallback
    SuperIOMonitor (ITE, Winbond, Fintek, Nuvoton, NSC), ACPISensors,
    Andigilog on ICHSMBus, IntelCPUMonitor, RadeonX, X3100, IntelTMC,
    GeForceSensors, NVClockX

| Component | State | Operations | What is hard | What makes it correct |
|---|---|---|---|---|
| Key store (`FakeSMCDevice`, `FakeSMCKey`) | `keys`, the dictionary `values`, `#KEY`, value buffers, `device_lock` | add a key with value or handler, set, get, remove handler, populate, lock, unlock | plug-ins, user space and AppleSMC enter at the same time; a plug-in holds the lock over several calls; the buffer is freed and allocated again; READ fetches the value without the lock | a name occurs once and keeps its index, `#KEY` and the dictionary agree with the array, no read under the lock meets a freed buffer, the lock is balanced, every call returns unless one has kept the lock |
| Port protocol (`AppleSMCStatus`) | command, status, positions, buffers, error | write a command, write a byte, read a byte, read the error port | a command given up in the middle; left-over bytes; the store changes between two bytes | every command behaves as if executed in one step on the bytes sent since it began, but for the value of a READ, which is copied while the store may change |
| Fan registration (five `addTachometer`) | `FNum`, the keys `F<n>Ac`, `F<n>ID`, `F<n>Mn`, `F<n>Mx`, the plug-ins' own numbering | read `FNum`, register, label, write `FNum` | five implementations with different orders that share a counter; readers without a lock; names cut by `snprintf` | fans are numbered without gap, `FNum` never counts a fan that cannot be read, nobody loses a fan, captions fit |
| Diode keys (RadeonX, X3100, IntelTMC, GeForceSensors) | the keys `TG<i>D`, each card's `sensors` and `numCard` | search for an empty key, register it | two cards lock, two do not; all indices taken | a key found empty is empty when it is registered, every card has its own |
| ICH SMBus (`ICHSMBus`) | the host controller, `I2C_Transfer`, `Lock.event`, `I2C_Lock` | `I2CExec`, interrupt filter and handler | time-out racing a late interrupt; a stale event; callers without the lock | a read returns its own answer, registers are not written while the controller is busy, every call returns |
| Andigilog (`Andigilog`) | cached measurements, PWM modes, configuration registers | callbacks, `updateSensors`, `GetConf`, `SetPwmMode`, `SetPwmDuty` | a cache whose entries are encoded in place; fans that share a PWM; calls that overlap | a value is encoded once; modes agree with the registers; automatic control comes back |
| Super I/O monitor (`SuperIOMonitor`) | the list `sensors`, the keys it handles | `addSensor`, `addTachometer`, `getSensor`, `stop` | the list grows while a callback iterates over it; `RemoveHandler` has no effect | a key that is handled is in the list; a reading under the lock finds its sensor |
| Winbond W836x (`W836x`) | bank and index port, five divisor registers, `fanValue` | `readByte`, `writeByte`, `updateTachometers`, `readTachometer` | four port accesses for one byte; divisors that adapt, in bits spread over registers of the BIOS | other bits stay; the divisors settle, readings are then right |
| Intel CPU monitor (`IntelCPUMonitor`) | a timer, `LoopLock`, counters of each CPU, `InitFlags` | `Activate`, `Deactivate`, `loopTimerEvent`, `setPowerState` | sleep and wake-up between any two steps of the loop; deactivation during the loop | the loop goes on exactly while it should; a frequency comes from this loop's samples |
| SmartGuardian (`sgModel.m`, `sgFan.m`) and its helper | fan objects, saved `Configuration`, the chip's control registers through keys | `findControllers`, `calibrateFan`, save and restore, setters | wiring other than numbering; parallel calibrations; being killed; setters that call each other and share registers | the right controller is found, control comes back, no fan is left standing, settings are in force |
| Encodings (`FakeSMCUtils.h`) | - | `swap_value`, `encode_fpe2`, ... | 16 bits | decoding gives the value back |
| OemSMBIOS | properties of the registry's root | decode the table of the BIOS, register itself | Super I/O monitors start at any time and need the names | the names are those written; who has waited has all of them |
| HWMonitor, Installer | menu items, scripts | - | none | - |

Interactions: a plug-in calls into the store under `device_lock`; the store calls
a plug-in back, with the lock from `callPlatformFunction` and `setProperties`,
without it from the ports. Plug-ins never call each other but meet in shared keys:
`FNum` and `F<n>..`, `TG<i>D`. SmartGuardian reaches the chip only through keys, as any client.

## 2. Modules

| Module | Stands for | Relations |
|---|---|---|
| `KeyTable` | what the store promises: registering or taking over a key in one step, with the count | abstract |
| `SMCKeyStore` | the store, step by step under `device_lock` | implements `KeyTable` |
| `SMCKeyStore_proofs` | proofs for every number of threads, keys, handlers | extends `SMCKeyStore` |
| `FanTable` | what the plug-ins promise together: a list to which a fan is appended | abstract |
| `FanAllocation` | the five `addTachometer` | uses the operations of `KeyTable`; implements `FanTable` |
| `FanAllocation_proofs` | proofs for every number of plug-ins and fans | extends `FanAllocation` |
| `SMCService` | what AppleSMC is promised: a command in one step | abstract |
| `SMCPort` | the emulated ports, byte by byte | implements `SMCService` |
| `SMCPort_proofs` | proofs for names, values and buffers of every length | extends `SMCPort` |
| `DiodeKeys` | search for and registration of `TG<i>D` | uses the operations of `KeyTable` |
| `DiodeKeys_proofs` | proofs for every number of cards and indices | extends `DiodeKeys` |
| `ICHSMBus` | the driver of the SMBus host controller, with the controller and the threads of Andigilog | stands alone |
| `ICHSMBus_proofs` | proofs for every number of threads and registers | extends `ICHSMBus` |
| `AndigilogPwm` | `GetConf`, `SetPwmMode` and `SetPwmDuty` | stands alone; a transfer of `ICHSMBus` is one step |
| `Encodings` | the fixed-point encodings of values | used by `AndigilogReadings` |
| `DeviceLock` | what a plug-in sees of the lock: clients come one at a time | used by the three modules below |
| `AndigilogReadings` | the cache of readings, `updateSensors`, encoding in place | uses `DeviceLock`, `Encodings` |
| `SuperIOSensors` | the list of sensors while it grows | uses `DeviceLock` |
| `W836xTachometers` | the tachometers of a Winbond chip, port by port | uses `DeviceLock` |
| `Andigilog_proofs` | proofs about the encodings, the cache and the control of fans, for any number of readers, fans and PWMs | extends `AndigilogReadings`, `AndigilogPwm` |
| `IntelCPUMonitor` | the loop with its timer and power states | stands alone |
| `SmartGuardian` | search, calibration, settings, launch and restart | stands alone |
| `FanSettings` | the setters of `sgFan` for the other registers | stands alone |
| `SuperIOFans_proofs` | proofs for any fans of a Winbond chip, any number of fans and controllers of SmartGuardian, and every temperature and duty cycle | extends `W836xTachometers`, `SmartGuardian`, `FanSettings` |
| `OemSMBIOS` | the decoding of the BIOS's table, and a Super I/O monitor that waits for it | stands alone |
| `Plugins_proofs` | proofs for any number of CPUs and sleeps, any plan of sensors, any table of a BIOS | extends `IntelCPUMonitor`, `SuperIOSensors`, `OemSMBIOS` |
| `MCPlugins` | seven modules (see its run), one in each behaviour | instance for TLC |
| `MC...` | instances for TLC | |

The modules are layered. `SMCKeyStore` has the steps of a call. It is shown
(run `store_clients`, theorem `Refinement`) to implement `KeyTable`, where a call
is one step; that is the licence for `FanAllocation` and `DiodeKeys` to take
whole calls as their steps and to use `KeyTable`'s operations as the calls.

### SMCKeyStore

`keys`, `handler`, `size`, `value` and `values` are the fields of the code of the
same name; `lockOwner` and `lockDepth` are the recursive lock, `held` the explicit
`kFakeSMCLock` calls outstanding. A thread has a function (`fn`), a place in it
(`step`), and arguments. A call is cut where someone else could notice: waiting for
the lock (`Enter`), the lookup (`Lookup`), append with the count (`Insert`,
`UpdateSharpKey`), a changed buffer (`Resize`, then `Fill`), the handler's new value
(`Refresh`), the dictionary (`Publish`), the pointer given to a plug-in and what it
copies from it (`HandOver`, `Copy`), and the unlock (`Leave`). The READ of the port
has its own path (`PortLookup`, `PortRefresh`, `Copy`), because `getKey` releases the
lock before the value is fetched.

Details of data that are left out: a buffer holds a member of `Data` or `Undefined`
(freed, or allocated and not filled); the size is chosen freely, so that replacing a
buffer by one of another size is always possible. `updateSharpKey` shifts into
`char`s, so that only the low byte of the count survives: `CountModulus` is 256 in the
code and 2 in the runs. `GetNothing` is a `kFakeSMCGetKeyValue` without a name, which returns past the unlock (FakeSMCDevice.cpp:720);
`leaked` counts how often each thread has done that, at most `MaxLeaks` times. No plug-in of the repository does; it is in the model because
the lock balance is about all ways through `callPlatformFunction`. `RemoveHandler` hands NULL to `setHandler`, which refuses
it; the action is there and has no effect. Not modelled: a failing `IOMalloc`; the null names and
sizes of the other functions, which set the result and go on to the unlock; `setDebug`; the
`SetValue` callback as a step of its own, since a handler's reaction to it changes
nothing in the store. Nobody writes `#KEY`: it is a key of two clients only, AppleSMC
and `updateSharpKey`, and AppleSMC reads it.

### FanAllocation

One action per call that `addTachometer` makes, with the order of each plug-in: sensor
object first in SuperIOMonitor, key first in the others; `F<n>ID` inside the critical
section, or after it in NVClockX; `F<n>Mn` and `F<n>Mx` in Andigilog. `Name` includes
what `snprintf(name, 5, ...)` does to an index with two digits: `F<n>Mn` and `F<n>Mx`
become one key from 10 on, since they are decimal, and `F<n>Ac` is shortened from 16 on.
`HexDigits` and `DecDigits` are 4 and 3 in the runs, so that four to six fans reach both
boundaries. `fnum` is what AppleSMC and user space read at any time, without the lock.
Andigilog's `fan_offset` and its list of measurements are there because its callback finds
a fan by subtracting them.
Left out: what `addTachometer` returns (GeForceSensors tests it as a truth value, which only
changes a log line and the PWM key), and failing calls of the store.

### SMCPort

The registers of `AppleSMCStatus` under their names, one action per access to a port
and per command that the access belongs to. The driver is external: it sends bytes while the
status asks for them, takes bytes while the status offers them, transfers at most `MaxLength`
(32) data bytes, and may give any command up by sending the next one. `request` (the command, the bytes
sent since, and the number they form, most significant first) and `abandoned` are history variables. `StoreChanges` stands for all that plug-ins, handlers and user
space do meanwhile. The length of a READ completes it: the key is looked up under the lock in that step, and `FillData`, which fetches the value and copies it
without the lock (FakeSMCDevice.cpp:56-57), is a step of its own. In between handlers write readings into the buffer and values of another size replace it, which are
`StoreChanges`; `seen` is what the key has held since the lookup. The copy has the bytes of one value if there was only one, each byte from one of the values if all have the same
size, and any bytes if the size has changed (`SameSize`), since the buffer is then freed, or not filled yet. The driver waits meanwhile, in its write of the length.
`SMCService` promises the driver just that: it behaves like a register that is regular but not atomic. Nothing is promised to a driver whose key changes its size at that moment; plug-ins
write their keys with one size, so that this takes a value of another size from user space or a second registration.
A WRITE of 252 bytes or more would wrap `read_pos`; the driver's limit excludes it.
A WRITE that announces no data never completes; it has to be given up.
The 16-bit and 32-bit accesses do nothing in the code.

### DiodeKeys

Cards of three kinds: `"Locked"` (RadeonX, X3100) hold the storage lock from the search to the
last registration; `"Unlocked"` (IntelTMC) runs the same loop without; `"GeForce"` asks for
five keys of each index and registers its own (`Features`) one by one. A call of the store
waits while someone else has it locked (`StoreOpen`). NVClockX takes the key with the number
of its own card and does not search; it appears as a `Preloaded` key. What a callback for a
key of another card returns is left out; `StartedCardsAnswer` says what the callback compares.

### ICHSMBus

`I2CExec` is cut at every access that another thread, the interrupt handler or the controller can
meet: the look at the status (`Poll`; the hundred looks are one choice between a bus that becomes
idle and one that does not), the address with the direction (`WriteAddress`), the command
(`WriteCommand`), `I2C_Transfer` with the data (`Describe`), the start (`Start`), the event under
`Lock.holder` (`CheckEvent`, `Awake`) and the result. `Leave` is the end of the sleep without an
event: the deadline, or a signal, since it is `THREAD_INTERRUPTIBLE`; it may come before the
interrupt, which then is late. The filter runs at interrupt level while no handler is at work; the
handler is cut into `Acknowledge`, `Fetch` and `Signal`. `hs`, `slave`, `hcmd` and `hd0` are the controller's
registers, `chip` the registers of the aSC7621. The controller is external: `Transfer` uses
the registers as they are when it ends, may fail, and may never come. Every writer writes the name of a
register into that register, so that a byte in the wrong place is visible. `disturbed` is a history variable:
someone has left a transfer behind, or the status showed an error at the start.
A thread in `Unlocked` is `GetConf`; all others lock the bus, as `updateSensors`, `SetPwmMode` and `SetPwmDuty` do.
Left out: transfers of no or of two bytes, which no client makes (the second byte of a two-byte write
would go to `HD0` again, ICHSMBus.cpp:235), the status bits `SMBAL` and `BDONE`, and `stop`.

### AndigilogPwm

`control` and `dutyReg` are the chip's registers for the configuration and the duty cycle of a PWM, `value`, `duty` and
`pwmMode` the driver's copies. One action per iteration of `GetConf` and of the loop in `SetPwmMode` (under `LockI2CBus`),
and one for each part of `SetPwmDuty` that the lock of the bus separates. A configuration is its zone bits and
`ALTB`; the other bits are written back as they were read. A transfer is one step and may fail; the code
looks at no result, so a failed one leaves the driver's copy wrong. `disturbed` records that for modes, and a call before
`GetConf` has ended: nothing is promised afterwards. `unsure` has the PWMs whose duty cycle may be another one than the driver has recorded:
those that the chip moves (`ChipDrives`, at any time when it is not under manual control: the code keeps `Pwm[].duty` when a fan goes back to automatic, so that the same duty cycle, asked for
again later, is not written, Andigilog.cpp:294), those whose write failed, and those for which calls of `SetPwmDuty` overlap (which looks at `duty` before it takes the lock and records it
after). A write that nobody disturbs makes a PWM sure again. All three happen in the instance; `DutyApplied` says that there is no fourth reason for a
duty cycle that was asked for and is not in the chip. `ASC7621_ALTBG` is applied to the zone bits, so that the
code never sees `ALTB`; the model does the same. Assumed of the property list, and true of the shipped ones:
fans with a key follow each other (`SetPwmMode` counts positions, `GetConf` numbers). Assumed of clients: they ask for
Andigilog's own fans; `num_fan` is one more than there are, so that a bit behind the last fan would look behind
`Measures`. Two fans that share a PWM are in the instance; the properties are about fans that have one for themselves.

### AndigilogReadings

`measure` and `obsoleted` are the fields of `Measures`; a callback is cut where another thread can come in: the test of
`obsoleted` (`TestObsoleted`), `LockI2CBus`, each sensor of `updateSensors` before and after its transfer (`RenewReading`,
`TransferReading`), the unlock, the mark that the reading is used up, the encoding of the speed in place (`EncodeInPlace`) and the
copy. Clients hold the lock of the device (`DeviceLock`, what `SMCKeyStore` has in detail); readers over the ports (`Ports`)
do not, and a machine whose ports are read (`portsUsed`) does have readings encoded twice: `EncodedOnce` is about the others.
`sampled` is what the chip gave. Which sensor is read first does not matter, so `updateSensors` has a fixed order.

### SuperIOSensors

`Plan` is what `startPlugin` adds, with a name twice in the instance; `addTachometer` holds the storage lock around `addSensor`, a plain
`addSensor` does not. `getSensor` is one step per element: an `OSCollectionIterator` ends when its collection has changed.
`handled` are the keys for which the store calls this plug-in; it stays as it is at `stop`, since `RemoveHandler` has no
effect (FakeSMCDevice.cpp:728). `changedAmid` is a history variable. `getSensor` does not release its iterator when it
has found the sensor (SuperIOMonitor.cpp:323), a leak that no model state shows.

### W836xTachometers

A byte is the set of its bits. `readByte` and `writeByte` are four port accesses (`SelectRegister`, `WriteBank`, `SelectRegister`
again, and the access to the byte), and `chipBank`, `chipIndex` what is selected in the chip. A job has its next access (`job.access`):
the five divisor registers, the counts, and then those divisor registers that change, from the last to the first. `Moved` is the change of a
divisor, `DivisorBits` the driver's table of bits, `ChipBits` that of the chip. The chip is external: it measures with the divisors in force (`ChipMeasures`) at
any time, in particular after a reading that came too early; at most `MaxHasty` do. `calm` counts updates in a row whose counts were all
measured with the present divisors. `startPlugin` reads without the lock; a client that comes meanwhile can mix the accesses (`mixed`), and what follows
is not examined: the constraint `Unmixed` ends the behaviour there. Readings over the emulated ports, which would mix as well, are left out.
Fans faster than 10,547 rpm are excluded: their count can be 0, by which the code divides. A fan that is slower than the
divisor of the BIOS allows has count 255, speed 0 and, unless the property list names it, gets no key for good.

### IntelCPUMonitor

A sample is named by where it comes from: none, an earlier loop, the first or the second of this loop. `loopTimerEvent` runs on the thread
of `start` once and on the work loop afterwards (`LoopThreads`); its steps are the test of `LoopLock`, two calls of `UCState` on all CPUs, the
frequencies, the unlock, the new timeout. `Sleep` stops all counters between any two steps, and `SetPowerState` clears the five arrays one
after another (`clearing`). `disturbed` and `stoppedAmid` are history variables. `Deactivate` during a loop leaves the timer set by the loop: the model
has that, and `MonitoringFollowsActive` promises an end only when no loop was running. Left out: the wrap of the 40-bit counter (IntelCPUMonitor.cpp:630), which
takes minutes and not the 2 ms between the samples; processors with hyper-threading, where `Frequency[i]` uses the counters of logical
CPU `i`; P-states, temperatures and the tables of models, which are data.

### SmartGuardian and FanSettings

`pwmControl` is the control register of each controller: below 128 a fixed duty cycle, from 128 on automatic with a sensor. `wiring`, which
the program does not know, says which controller drives which fan; `Speeds` what a fan can do, automatic control letting it
drift by the bound `MAXRPM_TO_DIFFER`. One action per register access of `findControllers` and per level of `calibrateFan`. `calibrateFan` of several
fans runs at the same time. `Configuration` is the property list on disk, which `Quit` and the end of the calibration write, and `Launch` and the helper
(`HelperRuns`) read. `Kill` and `RestartMachine` come at any time. While the panel is open the user can do nothing else. A fan with a fixed
duty cycle is left at the highest one after its calibration; the properties say so. In `FanSettings` the setters for the three temperatures call each other; each is a function of the
registers, the temperature to set and its value, defined by the setters one call further in, four calls deep (`Innermost`, `Inner`, `Called`). From temperatures that the BIOS has
left out of order they may go on without end (`Overflow`); `SettersClamp` is about ordered ones, for which three are enough. `SetDeltaPWM` and `SetStartPWMValue` share
two registers; bit 6 of the one is cleared by each `SetDeltaPWM`. Left out: the smoothing setters, graphs and bindings.

### OemSMBIOS

`structures` is what the BIOS has written (`SMBStructures`; strings of the printable characters `Chars`), `Table` the same in bytes, which the code sees. One action per structure (`DecodeStructure`), since each publishes its
names at the root (`root`) while others look; then `RegisterSMBIOS`. `monitor` is a Super I/O monitor: `MonitorStarts` looks whether a name is there,
`WaitForSMBIOS` is the return of `waitForMatchingService`, with the service or after ten seconds, and `startPlugin` reads the two names
one after the other. `missed` is a history variable: it did not meet OemSMBIOS registered. The strings of the structure that comes last are taken, the serial
number of the first. The length of a string is a `UInt8` (`Counted`, OemSMBIOS.cpp:110): one of 256 characters, not counting leading spaces, or of a multiple of 256, has length 0
and is not set; `setStringProperty` uses the length for nothing else, so that all others are set up to their zero. `BoardKnown` compares with what was written, not with the bytes, and takes
the strings of such a length for none (`Kept`). A number beyond a structure's strings would reach into the next structure, because
`SMBPackedStrings` has the end of the table as its limit; no table in the model has one (`TablesAssumption`, which also says that
no string is empty, since its zero would end the structure, and that a header and its numbers fit the byte for their length). Left out: the search for the
entry point, `oem-serial-number` (the serial number in another format), and the functions for other structures, whose calls are commented out.

## 3. Runs

| Run | Instance | Question and answer |
|---|---|---|
| `store_plugins` | two plug-in threads, 3 names, 2 sizes, one explicit lock each | All calls of plug-ins interleaved: lock balance, also over a call that keeps the lock, one entry per name, dictionary, no undefined read under the lock; every call returns while no call has kept the lock. 78,124 states. |
| `store_clients` | a plug-in, a user-space thread, AppleSMC, 2 values | All three kinds of clients: `#KEY` counts, and the store implements `KeyTable` (in which a key keeps its index). 413,700 states. |
| `fan_plugins` | SuperIOMonitor with two fans, Andigilog with two, NVClockX, ACPISensors | Numbering, count, captions, Andigilog's own numbering as long as its fans are in one run, no fan taken away, every fan numbered in the end, and the refinement of `FanTable`. 237,749 states. |
| `fan_states` | Andigilog with two fans, ACPISensors with one | Violation: the bits of `FS! `, see below. |
| `port_values` | names of one byte, values of up to two | Any sequence of commands, given up anywhere: refinement of `SMCService`, with values that change or are replaced while a READ copies them; no bytes are left behind by completed commands (`PortInv`, with the types). 451,032 states. |
| `port_names` | names and indices of two bytes, two types | The same for multi-byte names and indices. 87,692 states. |
| `diode_cards` | any of two Radeons, X3100, IntelTMC, GeForce; four indices, one taken | What a card with the lock found empty stays empty against all others, also with too few indices; a started card answers to its key, and keeps it if there is an index for each. |
| `diode_unlocked` | Radeon and IntelTMC | Violation: IntelTMC's find is taken. |
| `smbus_callbacks` | two callbacks that lock the bus, two registers | No byte gets into a wrong register of the chip, whatever is late, fails or hangs; a read is answered by its own transfer while nobody has left one behind; every call returns. 446,560 states. |
| `smbus_getconf` | a callback and `GetConf`, two registers | Violation: `GetConf` keeps a byte that it has not asked for. |
| `andigilog_pwm` | two threads, a fan with a PWM for itself, two that share one, five configurations of the BIOS | Reported modes are those of the chip (`FansInv`, with the types), automatic control comes back as it was, and a duty cycle that was asked for is in the chip, whether it was written or found recorded, for PWMs that nothing has made unsure. 2.6 million states. |
| `plugins` | `AndigilogReadings`, `SuperIOSensors`, `W836xTachometers`, `IntelCPUMonitor`, `SmartGuardian`, `FanSettings`, `OemSMBIOS`, one in each behaviour | For each of them, see its properties: the loop follows activation and sleep, readings are encoded once, divisors settle and leave other bits alone, controllers are found and fans come back, settings are in force, setters end, sensors are found, the names of the board reach the monitors. 1.4 million states. |

Bounds. The store has two threads of the kinds whose steps differ; a third thread that waits
adds nothing that two do not show, because one lock is all they share, and the proofs hold for
any number. Three names are `#KEY`, a key that is there and one that is not: new key,
old key, and the race for a new key are all reachable. `MaxHold = 1` gives the nesting of a
call in an explicit lock; 0 where two clients without explicit locks are asked about, and the
state space allows no more. `MaxLeaks = 1` shows what a call that keeps the lock does to it, alone and inside an explicit lock. In `FanAllocation` each way of registering occurs once, those with
more than one fan twice; `ByteValues = 7` is one more than the fans and cannot wrap, which
`FanAssumption` asks of the real 256 as well. `MaxKeys = 2` of the port gives a key that is there, one
that comes later, and an index out of range; `BufferSize = 2`, `MaxLength = 2` a value
that is shorter than asked for, one that is longer, and one byte left over; `MaxHeld = 2` values in the buffer during one copy are enough for bytes of both, and of the bytes that come from a freed buffer one stands for all (`OneStrangeByte`). The diode
instance has three free indices: fewer than the five cards, and enough when only some of them start. GeForceSensors registers its
fan like ACPISensors without a caption, so that the instance of ACPISensors shows its order, too. Two users of the
bus are an earlier transfer and the one it disturbs; two registers tell a byte from another's.
In `AndigilogPwm` the five configurations are one for each case of the code (automatic, full on, off, manual, `ALTB`), and two speeds
fall into different steps of the chip. The constraint `Focused` keeps the instance small: the PWM that is shared, for which nothing is promised about modes, is automatic or full on at first, and the second speed is only asked for where the BIOS has left both PWMs automatic, since a duty cycle depends on nothing but whether its PWM is under manual control. It also ends a behaviour where the promise about modes ends (`Undisturbed`). `store_plugins`
has one value, since a stale or missing entry shows without a second; the count is checked in `store_clients` with two.

The variable `plugin` of `MCPlugins` says which of its seven modules moves; they share only `deviceLock`. Their bounds: two CPUs, one that may
have its counters on and one that may not, and two sleeps, so that one can interrupt the wake-up of the other's samples; two clients and a reader over the ports, a fan and
a temperature; five fans, because each has its own place for the divisor's bits, with periods next to the thresholds 96 and 192 and at the end of the
byte, and two settings of the other bits by the BIOS; three controllers for two fans, so that a wiring can differ from the numbering, use the controller behind the fans, share one, or use none;
three levels and one sensor; two ends of the application or the machine; four temperatures and the bounds of the bit fields; a plan with a repeated name, plain sensors and two tachometers;
tables of up to three out of seven structures (three systems, one of them too short, two mainboards, two others), with no or five zeros behind, the latter more than a header, and of a mainboard with a name of 256 characters and one of 257, alone or behind each of the seven.
The type invariants of the store, fans, cards, bus and the inductive invariants of their proofs are proved and not checked again by these runs.

`CHECK_DEADLOCK FALSE` stands in the runs of `FanAllocation` and `DiodeKeys`: these systems
end, once all plug-ins have started. It stands in `plugins` because the bounds on calls, sleeps and stops end a behaviour, and the Super I/O plug-in is done when it has stopped. Store, port, bus and fan control go on for ever and are checked for deadlock.

Fairness. `SF` of `Enter` and `LockStorage`: `IORecursiveLock` is a mutex that wakes those who
wait for it; one who asks again and again while the lock becomes free again and again gets it.
`SF` of `Unlock`: a plug-in that has called `lockStorageProvider` makes finitely many calls
before `unlockStorageProvider`, as all in the repository do; between two calls it is idle, so
weak fairness would say nothing. Fairness of `Work` and `AddTachometer`: a thread
inside a call runs on (one `SF` for each thread where its steps exclude each other).
`ICHSMBus`: a thread in `I2CExec` runs on, in particular its sleep ends after the deadline; `I2C_Lock` serves those
who wait, and who has it makes finitely many transfers (`updateSensors` makes two for each sensor). Neither the
controller nor the interrupt is fair. Nothing is assumed of when a client calls; the ports, `DiodeKeys`,
`AndigilogPwm` and the modules of `plugins` have no fairness.

## 4. Disagreements

- `fan_states`: the callback for `FS! ` says "Return real states" (Andigilog.cpp:410) and returns
  `pwm_mode` shifted by the index of Andigilog's first fan. The storage is unlocked between two fans;
  when another plug-in takes an index in between, the bits of the later fans belong to other keys.
- `diode_unlocked`: IntelTMC says "try to find empty key" (IntelTMC.cpp:122), like RadeonX, but
  without `lockStorageProvider`: the key it found is registered by another card first, and IntelTMC
  takes it over.
- `smbus_getconf`: `GetConf` says "store original conf" (Andigilog.cpp:233). It uses the bus without
  `LockI2CBus` after `start` has registered the keys; a callback's transfer in between overwrites the
  registers and `I2C_Transfer`, and `GetConf` takes the byte, or the event, of the other transfer for its own.

Met on the way and part of the models, without a run of their own. The first two contradict a comment: "normal case: lock going in, unlock going out"
(FakeSMCDevice.cpp:653), and "number of chars not counting the terminating NULL" (OemSMBIOS.cpp:113). `LockBalanced` and `BoardKnown` say that the first call and these strings are the only exceptions.

- `kFakeSMCGetKeyValue` without a name returns past the unlock, and the thread keeps `device_lock` (FakeSMCDevice.cpp:720).
- A name of 256 characters has length 0 in a `UInt8` and is not published (OemSMBIOS.cpp:110).
- `updateKeyValue` returns its second variable named `result`: writing from user space succeeds and reports that it is unsupported (FakeSMCDevice.cpp:424).
- `RemoveHandler` leaves a stopped plug-in the handler of its keys (FakeSMCDevice.cpp:728).
- `num_fan` of Andigilog is one more than there are fans (Andigilog.cpp:154).
- A WRITE that announces no data never completes (FakeSMCDevice.cpp:139).
- The duty cycle recorded for a PWM stays when the chip takes over, and the same one asked for later is not written (Andigilog.cpp:294).
- A READ copies the value without the lock, while it may be written or replaced (FakeSMCDevice.cpp:57).
- A reading of a speed over the ports can be encoded a second time (Andigilog.cpp:403).
- A Super I/O monitor that starts while OemSMBIOS decodes finds one name and does not wait for the others (SuperIOMonitor.cpp:398).
- After the calibration a fan with a fixed duty cycle runs at the highest one.

## 5. Proofs

All theorems are about every value of the constants that satisfies the module's
`ASSUME`; TLC evaluates these assumptions in each run.

`SMCKeyStore_proofs`. First `TypeOK /\ LockBalanced` is shown inductive (`Basic`): type correctness
needs the lock balance, because `lockDepth - 1` is a natural number only for an owner. `LockIsBalanced` counts the calls that have returned with the lock (`leaked`) along with the explicit locks and the call a thread is in: it
says that `GetNothing` is the only way in which a call leaves the lock behind, and does not say that there is none. From it
follows that two threads are never inside together. The safety properties are not inductive:
`#KEY` equals the number of keys only outside a call, and an insertion is visible in `keys` before it
is in the count and the dictionary. `StoreInv` therefore counts the keys that have been *shown*
(`Shown`: all but the one being inserted), says for each step what the thread in it relies
on (`CallInv`), and that an undefined buffer has a thread at `fill` for it. `NoDuplicates`, `SharpKeyIsRight`,
`ValuesAreComplete` and `LockedReadsAreDefined` follow from it; `IndicesAreStable` is an action property
from the type invariant; `Refinement` maps `Publish` of an insertion to `Register`, `Rehandle` to
`TakeOver`, everything else to a stutter, and uses that the invariant leaves at most one insertion.

`FanAllocation_proofs`. `FanInv` has five parts: the lock is with exactly the plug-in inside
`addTachometer` and its index is `FNum` until it has raised it (`LockInv`); the speed keys are those
below `FNum` and possibly one more (`KeyInv`); a sensor object is recorded only for those (`SensorInv`);
`FNum` is the number of inputs that are settled (`CountInv`, with the cardinality theorems of the
library); captions fit (`LabelsFit`). The five parts need each other: a late caption of NVClockX is
right only because nobody else gets the index it has remembered. `CountIsSafe`, `NumbersFit`,
`CaptionsFit`, `FansStay` and `FanRefinement` follow. The assumption is that there are fewer fans than
values of a byte. `AndigilogAnswers` (`RunsAnswered`) needs the order in which Andigilog's fans came: as long as they are
in one run, `Measures` lists them with successive indices from `fan_offset` on, and a fan between its key and its number
is the last one listed (`RunInv`). A run that is broken stays broken, because a new fan gets an index above all earlier ones.

`SMCPort_proofs`. `PortInv` compares two registers and is not inductive. `PortIInv` says for each register what it has to do with the
bytes sent since the command: `read_pos` counts them (`SentInv`), the name and the data of a WRITE are where they were sent
(`KeyInv`, `DataInv`), the status says how far the command is (`ProgressInv`), `key_index` is the number of the digits that have come, shifted
to its place (`IndexInv`), and the buffer is empty between commands that were completed (`BufferInv`). A command given up leaves `key`, `value` and
the positions behind; the proof is that each register is written before it is used again. In `PortRefinement` each
access to a port is the access of the same kind in `SMCService`, and the invariant shows that the byte which completes a request there is the one at which the ports answer; what is left of the answer (`Reply`) is read off the positions. `FillData` is `AnswerRead`
there: `seen` is `pending`, and what the copy may bring follows from `SameSize` alone, bytes of the values held or any; beyond the value it has what the buffer had. `PowerAssumption` states the three facts on the powers of 256
that the digits of an index need: they are true of every range, but the provers have no exponentiation.

`DiodeKeys_proofs`. A card that locks is the owner of the lock from its first look to its last call
(`LockHeld`), and what it has stopped at is not registered (`LockedFindsAreEmpty`). Neither is inductive
alone: another card's registration leaves the find empty only because it had to wait for the lock. That a started card answers to its key
and keeps it (`StartedAnswer`, `DiodesStay`) is true only of machines in which all cards lock, as the property says, and in which there is an index for
each of them: `EnoughIndices`, the cards that lock and the indices taken at the beginning are together at most `Slots`. Without it a card that finds
all indices taken registers the last one. `SharingInv` has who owns which key; a card that looks finds a vacant index by counting (`SomeVacant`).

`ICHSMBus_proofs`. The types need that a thread in `I2CExec` has its arguments and that a controller at work has a command (`ArgInv`): otherwise
a transfer could read a register that is none. When all threads lock the bus (`Unlocked = {}`), `ChipInv` adds that exactly the owner of `I2C_Lock` is inside (`LockInv`) and that nobody programs a busy
controller (`HostInv`): from the look at the status on the owner is alone, so `HCMD`, `HD0` and the direction are its own until the transfer ends, whether or not
it is still there. `AnswerInv` follows a transfer for as long as nobody has left one behind: at work, ended, acknowledged, fetched, signalled; in each stage
the answer is in `HD0` or in the buffer (`Running`, `InTransfer`), and between transfers the controller, handler and event are quiet. `ChipStaysIntact` and `LockedReadsAnswered` follow.

`Andigilog_proofs`, encodings. Swapping twice is the identity on 16 bits; `SpeedComesBack` and `VoltageComesBack` say for which values decoding undoes encoding.
Cache: without readings over the ports only the client with the lock is in a callback; a reading that is not obsolete is as the chip gave it except while its own transfer runs, and
the client at `encode` has marked it before: so each is encoded at most once.
Control: `FansInv` and `OriginalRestored` follow from how far `GetConf` has come (`ScanInv`: before its index the table has what the chip has, from it on the configurations are the BIOS's), from what a
mode says of its PWM (`ModeInv`), and from which PWMs a call of `SetPwmMode` has written (`WrittenInv`): only PWMs of fans that it has been at, so that a fan with a PWM for itself
is never passed over because the PWM was written before. `DutyApplied` follows from `DutyInv`, which is about the PWMs that are not unsure: of two calls for one of them one is outside, and the duty cycle that is recorded is in the chip unless its call is still on the way.
The chip itself (`ChipDrives`), a failed write and a second call add the PWM to `unsure`; only a write with no other call on the way takes it out, and the record of that call is then right again.

`Plugins_proofs`, `IntelCPUMonitor`. `OneLoop`: at most one thread is in the loop and none while the timer is set, which is why the early return that sets no timer is never
taken. `SamplesRight` says what the samples are at each step of a loop without sleep; it needs that `InitFlags` of a CPU says the truth except while `setPowerState` clears.
`SuperIOSensors`: a name is listed once, a handled key is listed, the list only grows until `stop`, and a client
that looks with the lock is at a place before its key unless the list has changed meanwhile.

`SuperIOFans_proofs`, `W836xTachometers`. A byte that is written back was read several accesses before, so that the properties hold only of a job that is alone. `JobInv` says when one is:
the client with the lock, or `startPlugin`. `WorkInv` says of it, at each access, what is selected in the chip (`SelectedFor`), that the bits it has are those of the registers, but for the
offsets it has moved and not yet written (`RegistersFor`), how far the offsets are (`OffsetsFor`) and that the values were measured with them (`ValuesFor`). `calm` is the measure of
progress: an offset that is not yet where the period wants it moves by one in each calm update (`OneCloser`), there are eight, so that after seven updates it has arrived (`Arrived`) and no later update writes. A count between the
thresholds gives the speed to the stated precision (`ReadingRight`). `ReadingsRight`, `OtherBitsStay` and `OffsetsStay` are for up to five fans, all periods from 128 ticks on (10,547 rpm) and all contents of the registers.

`Plugins_proofs`, `OemSMBIOS`. `BoardAsWritten`: for every table the assumption allows, of any length, what is decoded from the bytes is what was written as structures, strings of a multiple of 256 characters excepted (`Kept`). This is an induction over data. The library's
induction theorems cannot be used here, so each induction is an argument by the least counterexample (`LessThan` and `Smallest`, from the theorem that `<` on the naturals is well-founded). Along these
steps: `FlattenSeq`, a recursive function, puts the pieces one behind another (`UnrolledExists`, `FlattenIsLast`, `FlattenedLayout`), so the bytes of a structure and the structures of a table have known places (`BytesSpell`, `TableLayout`,
`StructureInTable`); behind the numbers of a structure the zero that ends its j-th string is the j-th zero from there, which `stringAtIndex` counts (`StringFound`), and the first double zero is the end of the
structure, because no string is empty (`AfterStringsIsStop`); so a step sets the names that the structure gives (`ProcessedIs`). The invariant `DecodingInv` says that `nextByte` is where the
structure after those already counted begins, that the properties of the root are what these have given, and that OemSMBIOS registers
only when the count is used up. Then these are the `Written` names; the zeros behind the last structure are never looked at.
`MonitorMeetsFinalNames`: a monitor that has met the service registered has read the names that stay at the root, because nothing is published after `RegisterSMBIOS`; with `BoardAsWritten` they are the written ones.
`SMBIOSTypeCorrect` follows from the same invariant.

`SuperIOFans_proofs`, `SmartGuardian`. The program learns the wiring by stopping one controller at a time and comparing speeds, and what it concludes in one step it relies on many steps
later. `GuardianInv` therefore has a part for each thing it takes for granted: settings are saved for all fans or for none, and two fans with one controller have saved the same value (`SavedInv`);
what each phase of the application has already done (`PhaseInv`); a controllable fan has the controller that drives it, no two fans have the same one, and no controller searched so far that drives a fan was
missed (`FoundInv`); during the trial of a controller the other fans keep the speeds that were measured (`SearchInv`), without which a fan could be taken for one that started; a running
calibration has the curve up to its level and its register set to that level (`CurveInv`), which needs `FoundInv`, since calibrations run at the same time; registers of finished calibrations let a fan turn
(`TurningInv`); and what each register has to be restored to (`RestoreInv`). `EachFanItsCurve`, `NoFanLeftStanding` and `SettingsHold` follow, for any wiring. `FanSettings`: `ChoicesKept` is arithmetic on the bit fields;
`SettersAgree` evaluates the setters for ordered temperatures call by call (`SettersEnd`) and shows that the order is kept; `SettingsTyped` needs no order.

Only model-checked: liveness (`CallsReturn`, `AllFansNumbered`), which the provers cannot reach, and `TypesOK`, the conjunction that the instance `MCPlugins` makes of its seven modules' type invariants, each of
which is proved for its module. The models' own definitions are not recursive: the number that the bytes of an index form is kept in `request` along with the bytes, and the calls of the setters are spelled out to
their depth. The one recursive function they use is in `FlattenSeq` of the community modules, and what it computes is proved as described under `OemSMBIOS`.

## 6. Not modelled

- Register maps and conversions of single chips: ITE, Fintek, Nuvoton, NSC, the voltages and temperatures of Winbond, the diodes of the graphics cards. Their code reads a
  register and computes; what several of them share is in `FanAllocation`, `DiodeKeys`, `SuperIOSensors` and `W836xTachometers`.
- What mixed port accesses lead to (`mixed`), and Winbond readings over the emulated ports.
- P-states and thermal registers of `IntelCPUMonitor`; the wrap of its counters; hyper-threading.
- Loading: `FakeSMC`, `FakeSMCPlugin::start`, `probe` and the property lists. Failing allocations.
- The search for the entry point of the SMBIOS, HWMonitor and the installer (user interface and scripts), graphs and bindings of SmartGuardian.
- The vendored nvclock, nouveau and AtomBIOS code, the Chameleon boot loader, and the earlier generations of the drivers: most of the lines of the repository, and none of the logic described here.

What could follow: the divisors of Winbond with mixed accesses; the older `HWSensors` tree, where it still differs.
