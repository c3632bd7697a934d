------------------------------ MODULE DeviceLock ------------------------------
(***************************************************************************)
(* What a sensor plug-in sees of FakeSMCDevice: kFakeSMCGetKeyValue calls  *)
(* its callback with device_lock held, so that its clients come one at a   *)
(* time.                                                                   *)
(***************************************************************************)
CONSTANTS Clients,   \* threads that read keys through kFakeSMCGetKeyValue
          Free       \* nobody, nothing

VARIABLE deviceLock  \* the client inside kFakeSMCGetKeyValue

(* Mutant of LockDevice: the callback runs outside of the lock. *)
EnterUnlocked(c) == deviceLock' = c

LockDevice(c) == deviceLock = Free /\ deviceLock' = c

UnlockDevice == deviceLock' = Free
================================================================================
