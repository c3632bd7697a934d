----------------------------- MODULE MCSMCKeyStore -----------------------------
(* Small instances of SMCKeyStore for TLC. *)
EXTENDS SMCKeyStore, TLC

CONSTANTS p1, p2, u1, port, sharp, ka, kb, h1, h2

MCPreloaded == <<sharp, ka>>

================================================================================
