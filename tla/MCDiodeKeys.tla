----------------------------- MODULE MCDiodeKeys -----------------------------
(* Cards of the three ways of looking for a diode key. *)
EXTENDS DiodeKeys, TLC

CONSTANTS radeon1, radeon2, x3100, tmc, geforce

MCKind == radeon1 :> "Locked" @@ radeon2 :> "Locked" @@ x3100 :> "Locked"
          @@ tmc :> "Unlocked" @@ geforce :> "GeForce"

MCKindOf == [c \in Cards |-> MCKind[c]]
MCFeatures == [c \in Cards |-> IF c = geforce THEN <<"D", "H", "C", "V">> ELSE <<>>]

MCOneTaken == <<<<"D", 1>>>>
==============================================================================
