----------------------------- MODULE MCICHSMBus -----------------------------
(* Two callbacks, or a callback and GetConf, and two registers. *)
EXTENDS ICHSMBus, TLC

CONSTANTS callback1, callback2, getconf, speed, pwm
=============================================================================
