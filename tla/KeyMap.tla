------------------------------- MODULE KeyMap -------------------------------
(***************************************************************************)
(* What a hash table promises (SimpleHashTable, common/HashTable.hpp): a   *)
(* map in which Insert sets or updates one key and RemoveKey takes one key *)
(* out; its user may take all keys out.  An Insert that fails says so and  *)
(* changes nothing.                                                        *)
(***************************************************************************)
CONSTANTS Keys, Values

VARIABLES map,      (* the set of <<key, value>> pairs                     *)
          call      (* the last call: its name, arguments and result       *)

vars == <<map, call>>

Init == map = {} /\ call = <<>>

Without(k) == {p \in map : p[1] # k}

Insert(k, v) == \E ok \in BOOLEAN :
  /\ call' = <<"insert", k, v, ok>>
  /\ map' = IF ok THEN Without(k) \cup {<<k, v>>} ELSE map

Remove(k) ==
  /\ call' = <<"remove", k>>
  /\ map' = Without(k)

Clear ==
  /\ call' = <<"clear">>
  /\ map' = {}

Next == Clear \/ \E k \in Keys : Remove(k) \/ \E v \in Values : Insert(k, v)

Spec == Init /\ [][Next]_vars
=============================================================================
