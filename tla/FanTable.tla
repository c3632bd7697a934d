------------------------------- MODULE FanTable -------------------------------
(***************************************************************************)
(* What a fan utility sees of the fans of all plug-ins together: FNum fans *)
(* with the indices 0, 1, ..., each of which belongs to one fan input of   *)
(* one chip for ever.  A new fan gets the next index in one step.          *)
(***************************************************************************)
EXTENDS Sequences, Naturals

CONSTANT Inputs   \* the fan inputs of all chips of the machine

VARIABLE fans     \* fans[i + 1] is the input behind fan i

Listed == {fans[i] : i \in 1..Len(fans)}

TableInit == fans = <<>>

AddFan(f) ==
  /\ f \notin Listed
  /\ fans' = Append(fans, f)

TableNext == \E f \in Inputs : AddFan(f)

TableSpec == TableInit /\ [][TableNext]_fans
===============================================================================
