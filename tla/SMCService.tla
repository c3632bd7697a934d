------------------------------ MODULE SMCService ------------------------------
(***************************************************************************)
(* What the AppleSMC driver is promised by the emulated ports: it sends a  *)
(* command and then the bytes of its arguments; the byte that completes    *)
(* the request makes the store answer, or change, in one step; and the     *)
(* bytes it then takes are those of that one answer.  Only a READ takes    *)
(* longer: like a regular register, it returns what the key holds unless   *)
(* that changes meanwhile.                                                 *)
(***************************************************************************)
EXTENDS Integers, Sequences

CONSTANTS Names,        \* the key names, sequences of NameLength bytes
          NameLength,
          Bytes,        \* the values of a byte
          Base,         \* how many there are
          Values,       \* what keys can hold, sequences of bytes
          Types         \* the type names, sequences of bytes as well

Commands == {"READ", "WRITE", "INDEX", "TYPE", "OTHER"}

VARIABLES table,        \* the names in the order of their indices
          content,      \* the value of each key
          type,         \* the type of each key
          pending,      \* what the key of a READ has held since the request was
                        \* complete; {} when no READ waits for its answer
          request,      \* the command, the bytes sent since, and the number they form,
                      \* the most significant byte first
          reply,        \* the bytes of the answer still to be taken
          error         \* what the error port is going to say

serviceVars == <<table, content, type, pending, request, reply, error>>

Registered == {table[i] : i \in 1..Len(table)}

Name(bytes) == SubSeq(bytes, 1, NameLength)

Length(bytes) == bytes[NameLength + 1]

Info(n) == <<Len(content[n])>> \o type[n] \o <<0>>

Complete(r) ==
  CASE r.command = "READ"  -> Len(r.bytes) = NameLength + 1
    [] r.command = "WRITE" -> /\ Len(r.bytes) > NameLength + 1
                              /\ Len(r.bytes) = NameLength + 1 + Length(r.bytes)
    [] r.command \in {"INDEX", "TYPE"} -> Len(r.bytes) = NameLength
    [] OTHER -> FALSE

(* For a key that is not there the answer comes at once and is anything. *)
BeginRead(bytes) ==
  /\ IF Name(bytes) \in Registered
     THEN pending' = {content[Name(bytes)]} /\ reply' = <<>> /\ UNCHANGED error
     ELSE reply' \in [1..Length(bytes) -> Bytes] /\ error' = TRUE /\ UNCHANGED pending
  /\ UNCHANGED <<table, content, type>>

AnswerIndex(number) ==
  /\ IF number < Len(table)
     THEN reply' = table[number + 1] /\ UNCHANGED error
     ELSE reply' = <<>> /\ error' = TRUE
  /\ UNCHANGED <<table, content, type, pending>>

AnswerType(bytes) ==
  /\ IF bytes \in Registered
     THEN reply' = Info(bytes) /\ UNCHANGED error
     ELSE Len(reply') = Len(Info(bytes)) /\ error' = TRUE
  /\ UNCHANGED <<table, content, type, pending>>

(* A key that is not there yet comes last and gets some type. *)
SetKey(n, v) ==
  /\ content' = [content EXCEPT ![n] = v]
  /\ IF n \in Registered
     THEN UNCHANGED <<table, type>>
     ELSE /\ table' = Append(table, n)
          /\ \E t \in Types : type' = [type EXCEPT ![n] = t]

StoreKey(bytes) ==
  /\ SetKey(Name(bytes), SubSeq(bytes, NameLength + 2, Len(bytes)))
  /\ reply' = <<>>
  /\ UNCHANGED <<error, pending>>
--------------------------------------------------------------------------------
Begin(c) ==
  /\ pending = {}
  /\ request' = [command |-> c, bytes |-> <<>>, number |-> 0]
  /\ reply' = <<>>
  /\ UNCHANGED <<table, content, type, pending, error>>

Send(b) ==
  /\ pending = {}
  /\ request' = [request EXCEPT !.bytes = Append(@, b), !.number = Base * @ + b]
  /\ ~Complete(request)
  /\ IF ~Complete(request') THEN UNCHANGED <<table, content, type, pending, reply, error>>
     ELSE \/ request.command = "READ" /\ BeginRead(request'.bytes)
          \/ request.command = "INDEX" /\ AnswerIndex(request'.number)
          \/ request.command = "TYPE" /\ AnswerType(request'.bytes)
          \/ request.command = "WRITE" /\ StoreKey(request'.bytes)

(* A value that is longer than asked for is cut; what follows a shorter    *)
(* one is anything.                                                        *)
AnswerRead ==
  /\ pending # {}
  /\ pending' = {}
  /\ reply' \in [1..Length(request.bytes) -> Bytes]
  /\ (\A v, w \in pending : Len(v) = Len(w)) =>
       \A v \in pending : \A i \in DOMAIN reply' \cap DOMAIN v : reply'[i] \in {w[i] : w \in pending}
  /\ UNCHANGED <<table, content, type, request, error>>

Take ==
  /\ reply # <<>>
  /\ reply' = Tail(reply)
  /\ UNCHANGED <<table, content, type, pending, request, error>>

ReadError ==
  /\ pending = {}
  /\ error' = FALSE
  /\ UNCHANGED <<table, content, type, pending, request, reply>>

(* Plug-ins and other clients go on changing the store. *)
StoreChanges ==
  /\ \E n \in Names, v \in Values :
       /\ SetKey(n, v)
       /\ pending' = IF pending # {} /\ n = Name(request.bytes) THEN pending \cup {v} ELSE pending
  /\ UNCHANGED <<request, reply, error>>

ServiceInit == pending = {} /\ request.bytes = <<>> /\ request.number = 0 /\ reply = <<>> /\ error = FALSE

ServiceNext ==
  \/ \E c \in Commands : Begin(c)
  \/ \E b \in Bytes : Send(b)
  \/ AnswerRead \/ Take \/ ReadError \/ StoreChanges

ServiceSpec == ServiceInit /\ [][ServiceNext]_serviceVars
===============================================================================
