------------------------------ MODULE MCSMCPort ------------------------------
(* Names of one or two bytes, values of up to two, types of one. *)
EXTENDS SMCPort, TLC

MCTypes == {<<1>>, <<2>>}
MCDefaultType == 1 :> <<1>> @@ 2 :> <<2>>
MCOneType == {<<1>>}
MCSameType == 1 :> <<1>> @@ 2 :> <<1>>
(* Of the bytes that no value has, one in the buffer is enough. *)
OneStrangeByte == \A i \in 1..BufferSize : value[i] \in DataBytes \cup {2}

MCPreloaded == <<[i \in 1..NameLength |-> 0]>>
==============================================================================
