---------------------------- MODULE MCAndigilogPwm ----------------------------
(* A fan with a PWM for itself, and two that share one.                    *)
EXTENDS AndigilogPwm, TLC

CONSTANTS t1, t2

MCPwmOf == 0 :> 0 @@ 1 :> 1 @@ 2 :> 1

(* Automatic by one sensor, full on, off, manual, and one with ALTB.       *)
MCBootConfs == [zone : {2, 3, 4, 7}, alt : {FALSE}] \cup {[zone |-> 2, alt |-> TRUE]}

Asked(s) == \/ \E t \in Threads : data[t] = DutyData(s)
            \/ \E p \in Pwms : DutyData(s) \in {duty[p], dutyReg[p]}

(* While the modes are what they seem.  The PWM that is shared is automatic *)
(* or full on at first; the second speed is only asked for where both are  *)
(* automatic.                                                              *)
Focused ==
  /\ Undisturbed
  /\ original[1].zone \in {2, 3} /\ ~original[1].alt
  /\ Asked(30) => original = [p \in Pwms |-> [zone |-> 2, alt |-> FALSE]]

ThreadSymmetry == Permutations(Threads)
===============================================================================
