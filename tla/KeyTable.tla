------------------------------- MODULE KeyTable -------------------------------
(***************************************************************************)
(* What the key store of FakeSMCDevice promises to everybody who looks at  *)
(* it from outside: a table of key names that only grows, in which a name  *)
(* occurs once and keeps its index for ever, together with the value of    *)
(* the "#KEY" key, which is republished with every registration.  One      *)
(* registration is one step here; SMCKeyStore needs several steps under    *)
(* device_lock for it and is shown to implement this module.               *)
(***************************************************************************)
EXTENDS Integers, Sequences

CONSTANTS Names,         \* the four-character key names in play
          Handlers,      \* the plug-ins that may own a key
          NoHandler,     \* a key without a handler
          CountModulus   \* the range of the published count: 256 in the code

VARIABLES table,         \* the key names, in the order of GET_KEY_BY_INDEX
          ownerOf,       \* the handler registered for each name
          count          \* the published number of keys

tableVars == <<table, ownerOf, count>>

Registered == {table[i] : i \in 1..Len(table)}

(* A name that is not in the table is appended, and the count follows. *)
Register(n, h) ==
  /\ n \notin Registered
  /\ table' = Append(table, n)
  /\ ownerOf' = [ownerOf EXCEPT ![n] = h]
  /\ count' = Len(table') % CountModulus

(* A registered name changes hands: the last plug-in to ask gets the key. *)
TakeOver(n, h) ==
  /\ n \in Registered
  /\ ownerOf' = [ownerOf EXCEPT ![n] = h]
  /\ UNCHANGED <<table, count>>

TableInit ==
  /\ table \in Seq(Names)
  /\ \A i, j \in 1..Len(table) : table[i] = table[j] => i = j
  /\ ownerOf = [n \in Names |-> NoHandler]
  /\ count = Len(table) % CountModulus

TableNext ==
  \/ \E n \in Names, h \in Handlers \cup {NoHandler} : Register(n, h)
  \/ \E n \in Names, h \in Handlers : TakeOver(n, h)

TableSpec == TableInit /\ [][TableNext]_tableVars
===============================================================================
